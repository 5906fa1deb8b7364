---------------------------- MODULE AuthPamProofs -----------------------------
(***************************************************************************)
(* The lockout of the PAM handshake, for any number of attempts allowed,   *)
(* any period and lockout time, and histories of any length: the array of  *)
(* time stamps forgets attempts, and yet counts as if it had them all.     *)
(***************************************************************************)
EXTENDS AuthPam, FiniteSetTheorems, WellFoundedInduction, TLAPS

USE AuthPamAssumption

\* A non-empty set of natural numbers has a least element.
LEMMA LeastNat ==
  ASSUME NEW T, T \subseteq Nat, T # {}
  PROVE  \E i \in T : \A j \in T : i =< j
<1>1. PICK i \in T : \A j \in T : ~ (<<j, i>> \in OpToRel(<, Nat))
  BY NatLessThanWellFounded, WFMin
<1>2. \A j \in T : ~ (j < i)
  BY <1>1 DEF OpToRel
<1>. QED
  BY <1>2

\* The entries of the array, and the attempts of the history, from a time on.
Recent(a, t) == {i \in Index : a[i] >= t}
Past(h, t) == {k \in 1 .. Len(h) : h[k] >= t}

\* The array counts what the history counts, up to its size.
Tracks(a, h) ==
  \A t \in Nat \ {0} :
    \/ Cardinality(Recent(a, t)) = Cardinality(Past(h, t))
    \/ /\ Recent(a, t) = Index
       /\ Cardinality(Past(h, t)) >= INVALID_AUTH_MAX_ATTEMPTS

\* The array has as many entries as attempts are allowed.
LEMMA IndexFinite == IsFiniteSet(Index) /\ Cardinality(Index) = INVALID_AUTH_MAX_ATTEMPTS
<1>1. INVALID_AUTH_MAX_ATTEMPTS - 1 \in Int /\ ~(0 > INVALID_AUTH_MAX_ATTEMPTS - 1)
  OBVIOUS
<1>2. (INVALID_AUTH_MAX_ATTEMPTS - 1) - 0 + 1 = INVALID_AUTH_MAX_ATTEMPTS
  OBVIOUS
<1>. QED
  BY <1>1, <1>2, FS_Interval DEF Index

\* Both sets are finite.
LEMMA CountsFinite ==
  ASSUME NEW a, NEW h \in Seq(Nat), NEW t
  PROVE  /\ IsFiniteSet(Recent(a, t)) /\ Cardinality(Recent(a, t)) \in Nat
         /\ IsFiniteSet(Past(h, t)) /\ Cardinality(Past(h, t)) \in Nat
<1>1. Recent(a, t) \in SUBSET Index /\ Past(h, t) \in SUBSET (1 .. Len(h))
  BY DEF Recent, Past
<1>2. IsFiniteSet(1 .. Len(h))
  <2>1. 1 \in Int /\ Len(h) \in Int
    OBVIOUS
  <2>. QED
    BY <2>1, FS_Interval
<1>3. IsFiniteSet(Recent(a, t)) /\ IsFiniteSet(Past(h, t))
  BY <1>1, <1>2, IndexFinite, FS_Subset
<1>. QED
  BY <1>3, FS_CardinalityType

\* The array is full from a time on exactly when the history has at least as
\* many attempts from there on.
LEMMA CountsAgree ==
  ASSUME NEW a, NEW h \in Seq(Nat), NEW t \in Nat \ {0}, Tracks(a, h)
  PROVE  /\ Cardinality(Past(h, t)) >= INVALID_AUTH_MAX_ATTEMPTS <=> Recent(a, t) = Index
         /\ Cardinality(Recent(a, t)) >= INVALID_AUTH_MAX_ATTEMPTS <=> Recent(a, t) = Index
<1>1. /\ Cardinality(Recent(a, t)) \in Nat /\ Cardinality(Past(h, t)) \in Nat
      /\ Cardinality(Recent(a, t)) =< INVALID_AUTH_MAX_ATTEMPTS
      /\ Cardinality(Recent(a, t)) = INVALID_AUTH_MAX_ATTEMPTS => Recent(a, t) = Index
  <2>1. Recent(a, t) \in SUBSET Index
    BY DEF Recent
  <2>2. /\ Cardinality(Recent(a, t)) <= Cardinality(Index)
        /\ Cardinality(Index) = Cardinality(Recent(a, t)) => Index = Recent(a, t)
    BY <2>1, IndexFinite, FS_Subset
  <2>. QED
    BY <2>2, IndexFinite, CountsFinite
<1>2. \/ Cardinality(Recent(a, t)) = Cardinality(Past(h, t))
      \/ /\ Recent(a, t) = Index
         /\ Cardinality(Past(h, t)) >= INVALID_AUTH_MAX_ATTEMPTS
  BY DEF Tracks
<1>3. Recent(a, t) = Index => Cardinality(Recent(a, t)) = INVALID_AUTH_MAX_ATTEMPTS
  BY IndexFinite
<1>4. \A r, m \in Nat : r =< m /\ r >= m => r = m
  OBVIOUS
<1>. QED
  BY <1>1, <1>2, <1>3, <1>4

\* The scan of auth_track_attempt finds an entry that none is older than.
LEMMA OldestIndex ==
  ASSUME NEW a \in [Index -> Nat]
  PROVE  /\ n_oldest_index(a) \in Index
         /\ \A j \in Index : a[n_oldest_index(a)] =< a[j]
<1> DEFINE V == {a[i] : i \in Index}
<1>1. V \subseteq Nat /\ V # {}
  <2>1. 0 \in Index
    BY DEF Index
  <2>. QED
    BY <2>1
<1>2. PICK v \in V : \A w \in V : v =< w
  <2> HIDE DEF V
  <2>. QED
    BY <1>1, LeastNat
<1> DEFINE T == {i \in Index : a[i] = v}
<1>3. T \subseteq Nat /\ T # {}
  BY DEF Index
<1>4. PICK i \in T : \A j \in T : i =< j
  <2> HIDE DEF T
  <2>. QED
    BY <1>3, LeastNat
<1>5. i \in Index /\ \A j \in Index : a[i] < a[j] \/ (a[i] = a[j] /\ i =< j)
  <2>1. i \in Index /\ a[i] = v
    OBVIOUS
  <2>2. ASSUME NEW j \in Index PROVE a[i] < a[j] \/ (a[i] = a[j] /\ i =< j)
    <3>1. v =< a[j] /\ a[j] \in Nat /\ v \in Nat
      BY <1>2
    <3>2. a[j] = v => i =< j
      BY <1>4
    <3>. QED
      BY <2>1, <3>1, <3>2
  <2>. QED
    BY <2>1, <2>2
<1> DEFINE o == n_oldest_index(a)
<1>6. o \in Index /\ \A j \in Index : a[o] < a[j] \/ (a[o] = a[j] /\ o =< j)
  BY <1>5 DEF n_oldest_index
<1> HIDE DEF o
<1>7. \A j \in Index : a[o] =< a[j]
  BY <1>6
<1>. QED
  BY <1>6, <1>7 DEF o

\* Replacing the oldest entry by the attempt being made keeps the array
\* counting what the history counts: what it forgets, it could not have counted.
LEMMA TrackingKept ==
  ASSUME NEW a \in [Index -> Nat], NEW h \in Seq(Nat), NEW u \in Nat, Tracks(a, h),
         \A i \in Index : a[i] =< u
  PROVE  Tracks([a EXCEPT ![n_oldest_index(a)] = u], Append(h, u))
<1> DEFINE o == n_oldest_index(a)
           b == [a EXCEPT ![o] = u]
           g == Append(h, u)
<1>1. o \in Index /\ \A j \in Index : a[o] =< a[j]
  BY OldestIndex
<1> HIDE DEF o
<1>. SUFFICES ASSUME NEW t \in Nat \ {0}
              PROVE  \/ Cardinality(Recent(b, t)) = Cardinality(Past(g, t))
                     \/ /\ Recent(b, t) = Index
                        /\ Cardinality(Past(g, t)) >= INVALID_AUTH_MAX_ATTEMPTS
  BY DEF Tracks, o
<1>2. b[o] = u /\ \A i \in Index : i # o => b[i] = a[i]
  BY <1>1
<1>3. /\ g \in Seq(Nat) /\ Len(h) \in Nat /\ Len(g) = Len(h) + 1
      /\ g[Len(h) + 1] = u /\ \A k \in 1 .. Len(h) : g[k] = h[k]
  OBVIOUS
<1> HIDE DEF b, g
<1>4. CASE u < t
  <2>1. Recent(b, t) = Recent(a, t)
    <3>1. \A i \in Index : ~(a[i] >= t) /\ ~(b[i] >= t)
      BY <1>1, <1>2, <1>4
    <3>. QED
      BY <3>1 DEF Recent
  <2>2. Past(g, t) = Past(h, t)
    <3>1. \A k \in 1 .. Len(g) : k \in 1 .. Len(h) \/ k = Len(h) + 1
      BY <1>3
    <3>2. 1 .. Len(h) \subseteq 1 .. Len(g) /\ ~(g[Len(h) + 1] >= t)
      BY <1>3, <1>4
    <3>. QED
      BY <1>3, <3>1, <3>2 DEF Past
  <2>. QED
    BY <2>1, <2>2 DEF Tracks
<1>5. CASE u >= t
  <2>1. Past(g, t) = Past(h, t) \cup {Len(h) + 1} /\ Len(h) + 1 \notin Past(h, t)
    <3>1. \A k \in 1 .. Len(g) : k \in 1 .. Len(h) \/ k = Len(h) + 1
      BY <1>3
    <3>2. /\ 1 .. Len(h) \subseteq 1 .. Len(g) /\ g[Len(h) + 1] >= t
          /\ Len(h) + 1 \in 1 .. Len(g) /\ Len(h) + 1 \notin 1 .. Len(h)
      BY <1>3, <1>5
    <3>. QED
      BY <1>3, <3>1, <3>2 DEF Past
  <2>2. Cardinality(Past(g, t)) = Cardinality(Past(h, t)) + 1 /\ Cardinality(Past(h, t)) \in Nat
    BY <2>1, CountsFinite, FS_AddElement
  <2>3. CASE Recent(a, t) = Index
    <3>1. Cardinality(Past(h, t)) >= INVALID_AUTH_MAX_ATTEMPTS
      BY <2>3, CountsAgree
    <3>2. Recent(b, t) = Index
      BY <1>2, <1>5, <2>3 DEF Recent
    <3>3. Cardinality(Past(g, t)) >= INVALID_AUTH_MAX_ATTEMPTS
      <4>1. \A x, m \in Nat : x >= m => x + 1 >= m
        OBVIOUS
      <4>. QED
        BY <2>2, <3>1, <4>1
    <3>. QED
      BY <3>2, <3>3
  <2>4. CASE Recent(a, t) # Index
    <3>1. PICK i \in Index : ~(a[i] >= t)
      BY <2>4 DEF Recent
    <3>2. ~(a[o] >= t)
      BY <1>1, <3>1
    <3>3. Recent(b, t) = Recent(a, t) \cup {o} /\ o \notin Recent(a, t)
      BY <1>1, <1>2, <1>5, <3>2 DEF Recent
    <3>4. Cardinality(Recent(b, t)) = Cardinality(Recent(a, t)) + 1
      BY <3>3, CountsFinite, FS_AddElement
    <3>5. Cardinality(Recent(a, t)) = Cardinality(Past(h, t))
      BY <2>4 DEF Tracks
    <3>. QED
      BY <2>2, <3>4, <3>5
  <2>. QED
    BY <2>3, <2>4
<1>. QED
  BY <1>4, <1>5

\* The empty array counts nothing: its zeros are before every time.
LEMMA TrackingStarts == Tracks([i \in Index |-> 0], << >>)
<1>1. \A t \in Nat \ {0} : Recent([i \in Index |-> 0], t) = {}
  BY DEF Recent
<1>2. \A t : Past(<< >>, t) = {}
  <2>1. 1 .. Len(<< >>) = {}
    OBVIOUS
  <2>. QED
    BY <2>1 DEF Past
<1>. QED
  BY <1>1, <1>2 DEF Tracks

-------------------------------------------------------------------------------
(* Types, and times that are not in the future.                                *)

TimeInv ==
  /\ TypeOK
  /\ \A i \in Index : ats_attempts[i] =< now
  /\ \A k \in 1 .. Len(history) : history[k] =< now
  /\ ret = "AUTHRET_OK" => history = << >>

\* A step that counts an attempt, the codes it may have, and the others.
Counted(code) == IsInvalid(code) /\ ats_attempts' = [ats_attempts EXCEPT ![n_oldest_index(ats_attempts)] = now]
                 /\ history' = Append(history, now)
Cleared == ats_attempts' = [i \in Index |-> 0] /\ history' = << >>

\* auth_track_attempt counts, clears or does nothing.
LEMMA TrackCases ==
  ASSUME NEW code, TrackAttempt(code)
  PROVE  \/ Counted(code)
         \/ code = "AUTHRET_OK" /\ Cleared
         \/ /\ code # "AUTHRET_OK" /\ ~ IsInvalid(code)
            /\ UNCHANGED <<ats_attempts, history>>
BY DEF TrackAttempt, attempts_after, Counted, Cleared, IsInvalid

\* The codes of authenticate_client.
LEMMA CodeType ==
  ASSUME NEW req, NEW pamStarts
  PROVE  /\ authenticate_client(req, pamStarts) \in
              {"AUTHRET_OK", "AUTHRET_SYSERR", "AUTHRET_INVALIDDATA", "AUTHRET_UNAUTHORIZED"}
         /\ authenticate_client("wrongpw", pamStarts) # "AUTHRET_OK"
BY DEF authenticate_client, credentials_are_valid

\* The attempt being made is stamped with the clock, so no stamp is in the future.
LEMMA CountedTypes ==
  ASSUME TimeInv, NEW code, Counted(code), UNCHANGED now
  PROVE  /\ ats_attempts' \in [Index -> 0 .. MAX_TIME]
         /\ history' \in Seq(START_TIME .. MAX_TIME)
         /\ \A i \in Index : ats_attempts'[i] =< now
         /\ \A k \in 1 .. Len(history') : history'[k] =< now
<1>1. /\ ats_attempts \in [Index -> 0 .. MAX_TIME] /\ now \in START_TIME .. MAX_TIME
      /\ history \in Seq(START_TIME .. MAX_TIME)
  BY DEF TimeInv, TypeOK
<1>2. now \in 0 .. MAX_TIME
  BY <1>1
<1>3. /\ history' \in Seq(START_TIME .. MAX_TIME) /\ Len(history') = Len(history) + 1
      /\ history'[Len(history) + 1] = now
      /\ \A k \in 1 .. Len(history) : history'[k] = history[k]
  BY <1>1 DEF Counted
<1>4. \A k \in 1 .. Len(history') : k \in 1 .. Len(history) \/ k = Len(history) + 1
  BY <1>1, <1>3
<1>5. now =< now
  BY <1>1
<1>6. \A k \in 1 .. Len(history') : history'[k] =< now
  BY <1>3, <1>4, <1>5 DEF TimeInv
<1>7. ats_attempts' = [ats_attempts EXCEPT ![n_oldest_index(ats_attempts)] = now]
  BY DEF Counted
<1>8. \A i \in Index : ats_attempts'[i] =< now
  BY <1>1, <1>5, <1>7 DEF TimeInv
<1>. QED
  BY <1>1, <1>2, <1>3, <1>6, <1>7, <1>8

\* Every step of the handshake and of the clock keeps the types, and a
\* handshake that ended well leaves nothing remembered.
LEMMA TimeInvStep ==
  ASSUME TimeInv, Next
  PROVE  TimeInv'
<1>0. /\ ats_attempts \in [Index -> 0 .. MAX_TIME] /\ now \in START_TIME .. MAX_TIME
      /\ history \in Seq(START_TIME .. MAX_TIME) /\ ret \in auth_ret_t
      /\ t_lockout \in 0 .. (MAX_TIME + INVALID_AUTH_LOCKOUT_NSECS)
  BY DEF TimeInv, TypeOK
<1>1. ASSUME NEW code, TrackAttempt(code), UNCHANGED now, ret' \in auth_ret_t,
             ret' = "AUTHRET_OK" => code = "AUTHRET_OK",
             t_lockout' \in {t_lockout, now + INVALID_AUTH_LOCKOUT_NSECS}
      PROVE  TimeInv'
  <2>1. t_lockout' \in 0 .. (MAX_TIME + INVALID_AUTH_LOCKOUT_NSECS)
    BY <1>0, <1>1
  <2>2. CASE Counted(code)
    <3>1. code # "AUTHRET_OK"
      BY <2>2 DEF Counted, IsInvalid
    <3>. QED
      BY <1>0, <1>1, <2>1, <2>2, <3>1, CountedTypes DEF TimeInv, TypeOK
  <2>3. CASE code = "AUTHRET_OK" /\ Cleared
    <3>1. 0 \in 0 .. MAX_TIME /\ 0 =< now /\ << >> \in Seq(START_TIME .. MAX_TIME) /\ Len(<< >>) = 0
      BY <1>0
    <3>2. ats_attempts' \in [Index -> 0 .. MAX_TIME] /\ \A i \in Index : ats_attempts'[i] =< now
      BY <2>3, <3>1 DEF Cleared
    <3>3. /\ history' = << >> /\ history' \in Seq(START_TIME .. MAX_TIME)
          /\ 1 .. Len(history') = {}
      BY <2>3, <3>1 DEF Cleared
    <3>. QED
      BY <1>0, <1>1, <2>1, <3>2, <3>3 DEF TimeInv, TypeOK
  <2>4. CASE code # "AUTHRET_OK" /\ UNCHANGED <<ats_attempts, history>>
    BY <1>0, <1>1, <2>1, <2>4 DEF TimeInv, TypeOK
  <2>. QED
    BY <1>1, <2>2, <2>3, <2>4, TrackCases
<1>2. ASSUME NEW req \in Request, NEW pamStarts \in BOOLEAN, NEW sendOk \in BOOLEAN,
             HandshakeChecked(req, pamStarts, sendOk)
      PROVE  TimeInv'
  <2> DEFINE code == authenticate_client(req, pamStarts)
             out == auth_track_attempt(code, ats_attempts)
  <2>1. code \in {"AUTHRET_OK", "AUTHRET_SYSERR", "AUTHRET_INVALIDDATA", "AUTHRET_UNAUTHORIZED"}
    BY CodeType
  <2>2. out \in {code, "AUTHRET_LOCKOUT"}
    BY DEF auth_track_attempt
  <2>3. /\ TrackAttempt(code) /\ UNCHANGED now
        /\ ret' = (IF out = "AUTHRET_OK" /\ ~ sendOk THEN "AUTHRET_SYSERR" ELSE out)
        /\ t_lockout' = IF out = "AUTHRET_LOCKOUT" THEN now + INVALID_AUTH_LOCKOUT_NSECS
                                                   ELSE t_lockout
    BY <1>2 DEF HandshakeChecked
  <2> HIDE DEF code, out
  <2>4. ret' \in auth_ret_t /\ (ret' = "AUTHRET_OK" => code = "AUTHRET_OK")
    BY <2>1, <2>2, <2>3 DEF auth_ret_t
  <2>. QED
    BY <1>1, <2>3, <2>4
<1>3. ASSUME NEW req \in Request, NEW pamStarts \in BOOLEAN, HandshakeLockedOut(req, pamStarts)
      PROVE  TimeInv'
  BY <1>1, <1>3 DEF HandshakeLockedOut, auth_ret_t
<1>4. ASSUME NEW req \in Request, HandshakeRefused(req)
      PROVE  TimeInv'
  BY <1>0, <1>4 DEF HandshakeRefused, TimeInv, TypeOK, auth_ret_t
<1>5. CASE Tick
  <2>1. now' \in START_TIME .. MAX_TIME /\ now =< now' /\ now \in Nat
    BY <1>0, <1>5 DEF Tick
  <2>2. UNCHANGED <<ats_attempts, t_lockout, ret, history>>
    BY <1>5 DEF Tick
  <2>3. \A i \in Index : ats_attempts[i] =< now'
    BY <1>0, <2>1 DEF TimeInv
  <2>4. \A k \in 1 .. Len(history) : history[k] =< now'
    <3>1. \A k \in 1 .. Len(history) : history[k] \in START_TIME .. MAX_TIME
      BY <1>0
    <3>. QED
      BY <1>0, <2>1, <3>1 DEF TimeInv
  <2>. QED
    BY <1>0, <2>1, <2>2, <2>3, <2>4 DEF TimeInv, TypeOK
<1>. QED
  BY <1>2, <1>3, <1>4, <1>5 DEF Next, authpam_client_handshake

\* The daemon starts with an empty array and no lockout.
LEMMA TimeInvInit == Init => TimeInv
<1>. SUFFICES ASSUME Init PROVE TimeInv
  OBVIOUS
<1>1. 0 \in 0 .. MAX_TIME /\ START_TIME \in START_TIME .. MAX_TIME /\ 0 =< START_TIME
      /\ 0 \in 0 .. (MAX_TIME + INVALID_AUTH_LOCKOUT_NSECS)
  OBVIOUS
<1>2. ats_attempts \in [Index -> 0 .. MAX_TIME] /\ \A i \in Index : ats_attempts[i] =< now
  BY <1>1 DEF Init
<1>3. << >> \in Seq(START_TIME .. MAX_TIME) /\ 1 .. Len(<< >>) = {}
  OBVIOUS
<1>4. history = << >> /\ now = START_TIME /\ t_lockout = 0 /\ ret = "AUTHRET_SYSERR"
  BY DEF Init
<1>. QED
  BY <1>1, <1>2, <1>3, <1>4 DEF TimeInv, TypeOK, auth_ret_t

\* The code, the array, the clock and the lockout time keep their types
\* (TypeOK of AuthPam), whatever the clients send.
THEOREM AuthTypeOK == Spec => []TypeOK
<1>1. TimeInv /\ UNCHANGED vars => TimeInv'
  BY DEF TimeInv, TypeOK, vars
<1>2. TimeInv => TypeOK
  BY DEF TimeInv
<1>. QED
  BY <1>1, <1>2, TimeInvInit, TimeInvStep, PTL DEF Spec

-------------------------------------------------------------------------------
(* Bursts of attempts and the lockout.                                     *)

\* The attempts of a history within the period that ends with its n-th one.
Window(h, n) == {k \in 1 .. n : h[k] > h[n] - INVALID_AUTH_PERIOD_NSECS}
Burst(h, n) == Cardinality(Window(h, n)) > INVALID_AUTH_MAX_ATTEMPTS

\* The first second of the period that ends now.
Threshold(t) == t - INVALID_AUTH_PERIOD_NSECS + 1

\* An attempt counted later does not change which earlier ones end a burst.
LEMMA BurstsKept ==
  ASSUME NEW h \in Seq(Nat), NEW u \in Nat, NEW n \in 1 .. Len(h)
  PROVE  Burst(Append(h, u), n) <=> Burst(h, n)
<1>1. \A k \in 1 .. Len(h) : Append(h, u)[k] = h[k]
  OBVIOUS
<1>2. 1 .. n \subseteq 1 .. Len(h)
  OBVIOUS
<1>3. Window(Append(h, u), n) = Window(h, n)
  BY <1>1, <1>2 DEF Window
<1>. QED
  BY <1>3 DEF Burst

\* The attempt being made ends a burst exactly when every entry of the array is
\* within the period: the array of MAX entries is enough to see MAX + 1 attempts.
LEMMA BurstSeen ==
  ASSUME NEW a, NEW h \in Seq(Nat), NEW u \in Nat, u >= INVALID_AUTH_PERIOD_NSECS,
         Tracks(a, h)
  PROVE  Burst(Append(h, u), Len(h) + 1) <=> Recent(a, Threshold(u)) = Index
<1> DEFINE g == Append(h, u)
           n == Len(h) + 1
           t == Threshold(u)
<1>1. t \in Nat \ {0}
  BY DEF Threshold
<1>2. /\ Len(h) \in Nat /\ g[n] = u /\ \A k \in 1 .. Len(h) : g[k] = h[k] /\ h[k] \in Nat
  OBVIOUS
<1>3. \A x \in Nat : x > u - INVALID_AUTH_PERIOD_NSECS <=> x >= t
  BY DEF Threshold
<1> HIDE DEF g, t
<1>4. Window(g, n) = Past(h, t) \cup {n} /\ n \notin Past(h, t)
  <2>1. \A k \in 1 .. n : k \in 1 .. Len(h) \/ k = n
    BY <1>2
  <2>2. 1 .. Len(h) \subseteq 1 .. n /\ n \in 1 .. n /\ n \notin 1 .. Len(h)
    BY <1>2
  <2>3. u > u - INVALID_AUTH_PERIOD_NSECS
    OBVIOUS
  <2> HIDE DEF n
  <2>4. \A k \in 1 .. Len(h) : g[k] > g[n] - INVALID_AUTH_PERIOD_NSECS <=> h[k] >= t
    BY <1>2, <1>3
  <2>5. g[n] > g[n] - INVALID_AUTH_PERIOD_NSECS
    BY <1>2, <2>3
  <2>. QED
    BY <2>1, <2>2, <2>4, <2>5 DEF Window, Past
<1>5. Cardinality(Window(g, n)) = Cardinality(Past(h, t)) + 1 /\ Cardinality(Past(h, t)) \in Nat
  <2> HIDE DEF n
  <2>. QED
    BY <1>4, CountsFinite, FS_AddElement
<1>6. Cardinality(Past(h, t)) >= INVALID_AUTH_MAX_ATTEMPTS <=> Recent(a, t) = Index
  BY <1>1, CountsAgree
<1>7. \A x, m \in Nat : x + 1 > m <=> x >= m
  OBVIOUS
<1> HIDE DEF n
<1>8. Burst(g, n) <=> Recent(a, t) = Index
  BY <1>5, <1>6, <1>7 DEF Burst
<1>. QED
  BY <1>8 DEF g, n, t

\* The array counts what the history counts, and so locks out as it would.
LockInv ==
  /\ TimeInv
  /\ Tracks(ats_attempts, history)
  /\ \A n \in 1 .. Len(history) :
        Burst(history, n) => t_lockout >= history[n] + INVALID_AUTH_LOCKOUT_NSECS
  /\ now < t_lockout => \E n \in 1 .. Len(history) : Burst(history, n)

\* What auth_track_attempt answers, in terms of the array.
LEMMA LockoutAnswer ==
  ASSUME LockInv, NEW code, IsInvalid(code)
  PROVE  auth_track_attempt(code, ats_attempts) =
            IF Recent(ats_attempts, Threshold(now)) = Index THEN "AUTHRET_LOCKOUT" ELSE code
<1> DEFINE t == Threshold(now)
<1>1. /\ ats_attempts \in [Index -> 0 .. MAX_TIME] /\ now \in START_TIME .. MAX_TIME
      /\ history \in Seq(START_TIME .. MAX_TIME) /\ Tracks(ats_attempts, history)
  BY DEF LockInv, TimeInv, TypeOK
<1>2. t \in Nat \ {0} /\ history \in Seq(Nat)
  <2>1. t \in Nat \ {0}
    BY <1>1 DEF Threshold
  <2>2. START_TIME .. MAX_TIME \subseteq Nat
    OBVIOUS
  <2>. QED
    BY <1>1, <2>1, <2>2
<1>3. \A x \in 0 .. MAX_TIME : x > now - INVALID_AUTH_PERIOD_NSECS <=> x >= t
  BY <1>1 DEF Threshold
<1> HIDE DEF t
<1>4. {i \in Index : InPeriod(ats_attempts[i])} = Recent(ats_attempts, t)
  BY <1>1, <1>3 DEF InPeriod, Recent
<1>5. n_invalid_in_period(ats_attempts) = 1 + Cardinality(Recent(ats_attempts, t))
  BY <1>4 DEF n_invalid_in_period
<1>6. Cardinality(Recent(ats_attempts, t)) >= INVALID_AUTH_MAX_ATTEMPTS
        <=> Recent(ats_attempts, t) = Index
  BY <1>1, <1>2, CountsAgree
<1>7. Cardinality(Recent(ats_attempts, t)) \in Nat
  BY <1>2, CountsFinite
<1>8. \A x, m \in Nat : 1 + x > m <=> x >= m
  OBVIOUS
<1>9. n_invalid_in_period(ats_attempts) > INVALID_AUTH_MAX_ATTEMPTS
        <=> Recent(ats_attempts, t) = Index
  BY <1>5, <1>6, <1>7, <1>8
<1>. QED
  BY <1>9 DEF auth_track_attempt, t

\* The history after an attempt is counted: the earlier bursts, and the array
\* that still counts what it counts.
LEMMA CountedStep ==
  ASSUME LockInv, NEW code, Counted(code), UNCHANGED now
  PROVE  /\ Tracks(ats_attempts', history')
         /\ Len(history) \in Nat /\ Len(history') = Len(history) + 1
         /\ history'[Len(history) + 1] = now
         /\ \A n \in 1 .. Len(history) :
               history'[n] = history[n] /\ (Burst(history', n) <=> Burst(history, n))
         /\ Burst(history', Len(history) + 1) <=> Recent(ats_attempts, Threshold(now)) = Index
<1>1. /\ ats_attempts \in [Index -> 0 .. MAX_TIME] /\ now \in START_TIME .. MAX_TIME
      /\ history \in Seq(START_TIME .. MAX_TIME) /\ Tracks(ats_attempts, history)
      /\ \A i \in Index : ats_attempts[i] =< now
  BY DEF LockInv, TimeInv, TypeOK
<1>2. START_TIME .. MAX_TIME \subseteq Nat /\ 0 .. MAX_TIME \subseteq Nat
  OBVIOUS
<1>3. ats_attempts \in [Index -> Nat] /\ history \in Seq(Nat) /\ now \in Nat
      /\ now >= INVALID_AUTH_PERIOD_NSECS
  BY <1>1, <1>2
<1>4. /\ ats_attempts' = [ats_attempts EXCEPT ![n_oldest_index(ats_attempts)] = now]
      /\ history' = Append(history, now)
  BY DEF Counted
<1>5. Tracks(ats_attempts', history')
  BY <1>1, <1>3, <1>4, TrackingKept
<1>6. \A n \in 1 .. Len(history) : Burst(history', n) <=> Burst(history, n)
  BY <1>3, <1>4, BurstsKept
<1>7. Burst(history', Len(history) + 1) <=> Recent(ats_attempts, Threshold(now)) = Index
  BY <1>1, <1>3, <1>4, BurstSeen
<1>8. /\ Len(history) \in Nat /\ Len(history') = Len(history) + 1
      /\ history'[Len(history) + 1] = now
      /\ \A n \in 1 .. Len(history) : history'[n] = history[n]
  BY <1>3, <1>4
<1>. QED
  BY <1>5, <1>6, <1>7, <1>8

\* The handshake that checks the client's own password.
LEMMA CheckedStep ==
  ASSUME LockInv, TimeInv', NEW req, NEW pamStarts, NEW sendOk,
         HandshakeChecked(req, pamStarts, sendOk)
  PROVE  LockInv'
<1> DEFINE code == authenticate_client(req, pamStarts)
           out == auth_track_attempt(code, ats_attempts)
<1>0. /\ now \in START_TIME .. MAX_TIME /\ history \in Seq(START_TIME .. MAX_TIME)
      /\ t_lockout \in 0 .. (MAX_TIME + INVALID_AUTH_LOCKOUT_NSECS)
  BY DEF LockInv, TimeInv, TypeOK
<1>1. /\ TrackAttempt(code) /\ UNCHANGED now /\ now >= t_lockout
      /\ t_lockout' = IF out = "AUTHRET_LOCKOUT" THEN now + INVALID_AUTH_LOCKOUT_NSECS
                                                 ELSE t_lockout
  BY DEF HandshakeChecked
<1>2. code \in {"AUTHRET_OK", "AUTHRET_SYSERR", "AUTHRET_INVALIDDATA", "AUTHRET_UNAUTHORIZED"}
  BY CodeType
<1>3. ~ IsInvalid(code) => out = code
  BY DEF auth_track_attempt
<1>4. IsInvalid(code) =>
        out = IF Recent(ats_attempts, Threshold(now)) = Index THEN "AUTHRET_LOCKOUT" ELSE code
  BY LockoutAnswer
<1> HIDE DEF code, out
<1>5. CASE Counted(code)
  <2> DEFINE full == Recent(ats_attempts, Threshold(now)) = Index
  <2>1. t_lockout' = IF full THEN now + INVALID_AUTH_LOCKOUT_NSECS ELSE t_lockout
    BY <1>1, <1>2, <1>4, <1>5 DEF Counted
  <2>2. /\ Tracks(ats_attempts', history')
        /\ Len(history) \in Nat /\ Len(history') = Len(history) + 1
        /\ history'[Len(history) + 1] = now
        /\ \A n \in 1 .. Len(history) :
              history'[n] = history[n] /\ (Burst(history', n) <=> Burst(history, n))
        /\ Burst(history', Len(history) + 1) <=> full
    BY <1>1, <1>5, CountedStep
  <2> HIDE DEF full
  <2>3. \A n \in 1 .. Len(history') : n \in 1 .. Len(history) \/ n = Len(history) + 1
    BY <2>2
  <2>4. Len(history) + 1 \in 1 .. Len(history')
    BY <2>2
  <2>5. t_lockout' >= t_lockout /\ (now < t_lockout' => full)
    BY <1>0, <1>1, <2>1
  <2>6. ASSUME NEW n \in 1 .. Len(history'), Burst(history', n)
        PROVE  t_lockout' >= history'[n] + INVALID_AUTH_LOCKOUT_NSECS
    <3>1. CASE n \in 1 .. Len(history)
      <4>1. t_lockout >= history[n] + INVALID_AUTH_LOCKOUT_NSECS
        BY <2>2, <2>6, <3>1 DEF LockInv
      <4>2. history'[n] = history[n] /\ history[n] \in Nat
        BY <1>0, <2>2, <3>1
      <4>3. t_lockout' \in Int
        BY <1>0, <2>1
      <4>. QED
        BY <1>0, <2>5, <4>1, <4>2, <4>3, SMTT(30)
    <3>2. CASE n = Len(history) + 1
      BY <1>0, <2>1, <2>2, <2>6, <3>2
    <3>. QED
      BY <2>3, <3>1, <3>2
  <2>7. now' < t_lockout' => \E n \in 1 .. Len(history') : Burst(history', n)
    BY <1>1, <2>2, <2>4, <2>5
  <2>. QED
    BY <2>2, <2>6, <2>7 DEF LockInv
<1>6. CASE code = "AUTHRET_OK" /\ Cleared
  <2>1. Tracks(ats_attempts', history')
    BY <1>6, TrackingStarts DEF Cleared
  <2>2. 1 .. Len(history') = {}
    <3>1. Len(<< >>) = 0
      OBVIOUS
    <3>. QED
      BY <1>6, <3>1 DEF Cleared
  <2>3. ~(now' < t_lockout')
    BY <1>0, <1>1, <1>3, <1>6 DEF IsInvalid
  <2>. QED
    BY <2>1, <2>2, <2>3 DEF LockInv
<1>7. CASE code # "AUTHRET_OK" /\ ~ IsInvalid(code) /\ UNCHANGED <<ats_attempts, history>>
  <2>1. t_lockout' = t_lockout /\ UNCHANGED <<ats_attempts, history, now>>
    BY <1>1, <1>2, <1>3, <1>7
  <2>. QED
    BY <2>1 DEF LockInv
<1>. QED
  BY <1>1, <1>5, <1>6, <1>7, TrackCases

\* The handshake during a lockout: it prolongs the lockout past every attempt,
\* and the burst that explains the lockout stays in the history.
LEMMA LockedOutStep ==
  ASSUME LockInv, TimeInv', NEW req, NEW pamStarts, HandshakeLockedOut(req, pamStarts)
  PROVE  LockInv'
<1> DEFINE code == authenticate_client("wrongpw", pamStarts)
<1>0. /\ now \in START_TIME .. MAX_TIME /\ history \in Seq(START_TIME .. MAX_TIME)
      /\ history' \in Seq(START_TIME .. MAX_TIME)
      /\ \A k \in 1 .. Len(history') : history'[k] =< now'
  BY DEF LockInv, TimeInv, TypeOK
<1>1. /\ TrackAttempt(code) /\ UNCHANGED now /\ now < t_lockout
      /\ t_lockout' = now + INVALID_AUTH_LOCKOUT_NSECS
  BY DEF HandshakeLockedOut
<1>2. code # "AUTHRET_OK"
  BY CodeType
<1>3. \A n \in 1 .. Len(history') : t_lockout' >= history'[n] + INVALID_AUTH_LOCKOUT_NSECS
  <2>1. \A n \in 1 .. Len(history') : history'[n] \in START_TIME .. MAX_TIME
    BY <1>0
  <2>. QED
    BY <1>0, <1>1, <2>1
<1>4. PICK n \in 1 .. Len(history) : Burst(history, n)
  BY <1>1 DEF LockInv
<1> HIDE DEF code
<1>5. CASE Counted(code)
  <2>1. /\ Tracks(ats_attempts', history')
        /\ Len(history) \in Nat /\ Len(history') = Len(history) + 1
        /\ Burst(history', n)
    BY <1>1, <1>4, <1>5, CountedStep
  <2>2. n \in 1 .. Len(history')
    BY <2>1
  <2>. QED
    BY <1>3, <2>1, <2>2 DEF LockInv
<1>6. CASE UNCHANGED <<ats_attempts, history>>
  BY <1>3, <1>4, <1>6 DEF LockInv
<1>. QED
  BY <1>1, <1>2, <1>5, <1>6, TrackCases

\* Every step keeps the array counting and the lockout in force.
LEMMA LockInvStep == LockInv /\ [Next]_vars => LockInv'
<1>. SUFFICES ASSUME LockInv, [Next]_vars PROVE LockInv'
  OBVIOUS
<1>1. CASE UNCHANGED vars
  BY <1>1 DEF LockInv, TimeInv, TypeOK, vars
<1>2. CASE Next
  <2>0. TimeInv'
    BY <1>2, TimeInvStep DEF LockInv
  <2>1. ASSUME NEW req \in Request, HandshakeRefused(req)
        PROVE  LockInv'
    BY <2>0, <2>1 DEF HandshakeRefused, LockInv
  <2>2. CASE Tick
    <3>1. now \in Nat /\ t_lockout \in Nat
      BY DEF LockInv, TimeInv, TypeOK
    <3>2. (now' < t_lockout' => now < t_lockout) /\ UNCHANGED <<ats_attempts, t_lockout, history>>
      BY <2>2, <3>1 DEF Tick
    <3>. QED
      BY <2>0, <3>2 DEF LockInv
  <2>. QED
    BY <1>2, <2>0, <2>1, <2>2, CheckedStep, LockedOutStep DEF Next, authpam_client_handshake
<1>. QED
  BY <1>1, <1>2

\* The daemon starts with nothing counted.
LEMMA LockInvInit == Init => LockInv
<1>. SUFFICES ASSUME Init PROVE LockInv
  OBVIOUS
<1>1. Tracks(ats_attempts, history)
  BY TrackingStarts DEF Init
<1>2. 1 .. Len(history) = {} /\ ~(now < t_lockout)
  BY DEF Init
<1>. QED
  BY <1>1, <1>2, TimeInvInit DEF LockInv

\* The invariant in the words of the properties.
LEMMA LockInvMeans == LockInv => BurstLocksOut /\ LockoutJustified
<1>1. \A n : Window(history, n) = WithinPeriodOf(n)
  BY DEF Window, WithinPeriodOf
<1>. QED
  BY <1>1 DEF LockInv, Burst, BurstLocksOut, LockoutJustified

\* No burst of more than INVALID_AUTH_MAX_ATTEMPTS attempts within the period
\* escapes auth_track_attempt, whose array holds only that many, and the lockout
\* lasts its full time after the last of them (BurstLocksOut).
THEOREM AuthBurstLocksOut == Spec => []BurstLocksOut
<1>. QED
  BY LockInvInit, LockInvStep, LockInvMeans, PTL DEF Spec

\* authpam_client_handshake locks nobody out without such a burst since the last
\* valid password (LockoutJustified).
THEOREM AuthLockoutJustified == Spec => []LockoutJustified
<1>. QED
  BY LockInvInit, LockInvStep, LockInvMeans, PTL DEF Spec

\* From a burst until the lockout time after it no handshake ends with
\* AUTHRET_OK, whatever password it carries (NoAcceptDuringLockout).
THEOREM AuthNoAcceptDuringLockout == Spec => NoAcceptDuringLockout
<1>1. LockInv /\ LockInv' /\ [Next]_vars => [AcceptStep]_vars
  <2>. SUFFICES ASSUME LockInv, LockInv', Next, ret' = "AUTHRET_OK",
                       NEW n \in 1 .. Len(history),
                       Cardinality(WithinPeriodOf(n)) > INVALID_AUTH_MAX_ATTEMPTS
                PROVE  now >= history[n] + INVALID_AUTH_LOCKOUT_NSECS
    BY DEF AcceptStep
  <2>0. /\ now \in Nat /\ t_lockout \in Nat /\ history \in Seq(START_TIME .. MAX_TIME)
    BY DEF LockInv, TimeInv, TypeOK
  <2>1. t_lockout >= history[n] + INVALID_AUTH_LOCKOUT_NSECS
    BY LockInvMeans DEF BurstLocksOut
  <2>2. history' = << >> /\ history # << >>
    <3>1. history # << >>
      <4>1. 1 .. Len(<< >>) = {}
        OBVIOUS
      <4>. QED
        BY <4>1
    <3>. QED
      BY <3>1 DEF LockInv, TimeInv
  <2>3. PICK req \in Request, pamStarts \in BOOLEAN, sendOk \in BOOLEAN :
           \/ HandshakeChecked(req, pamStarts, sendOk)
           \/ HandshakeLockedOut(req, pamStarts)
    BY <2>2 DEF Next, authpam_client_handshake, HandshakeRefused, Tick
  <2>4. now >= t_lockout
    BY <2>3 DEF HandshakeChecked, HandshakeLockedOut
  <2>5. history[n] \in Nat
    BY <2>0
  <2>. QED
    BY <2>0, <2>1, <2>4, <2>5
<1>. QED
  BY <1>1, LockInvInit, LockInvStep, PTL DEF Spec, NoAcceptDuringLockout
===============================================================================
