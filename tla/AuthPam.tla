-------------------------------- MODULE AuthPam -------------------------------
(***************************************************************************)
(* The PAM handshake of the At-Scale Debug daemon (auth_pam.c) with its    *)
(* memory of invalid attempts and its lockout, over time.  The reply to a  *)
(* valid password while another session is authenticated depends on the    *)
(* session table and is modelled in AsdServer.                             *)
(***************************************************************************)
EXTENDS Integers, Sequences, FiniteSets

CONSTANTS
    INVALID_AUTH_MAX_ATTEMPTS,    \* 3 in auth_pam.h
    INVALID_AUTH_PERIOD_NSECS,    \* 60 in auth_pam.h
    INVALID_AUTH_LOCKOUT_NSECS,   \* 60 in auth_pam.h
    START_TIME,                   \* time(0) when the daemon starts
    MAX_TIME,                     \* bound on the clock
    MAX_HISTORY                   \* bound on the attempts remembered by the history

\* ats_attempts starts as zeros, which stand for "no attempt" only when the
\* epoch is more than a period ago.
ASSUME AuthPamAssumption ==
    /\ INVALID_AUTH_MAX_ATTEMPTS \in Nat \ {0}
    /\ INVALID_AUTH_PERIOD_NSECS \in Nat \ {0}
    /\ INVALID_AUTH_LOCKOUT_NSECS \in Nat \ {0}
    /\ START_TIME \in Nat /\ START_TIME >= INVALID_AUTH_PERIOD_NSECS
    /\ MAX_TIME \in Nat /\ MAX_TIME >= START_TIME
    /\ MAX_HISTORY \in Nat

VARIABLES
    ats_attempts,   \* the static array of auth_track_attempt
    t_lockout,      \* the static of authpam_client_handshake
    now,            \* time(0)
    ret,            \* auth_ret_t of the last handshake
    history         \* times of the invalid attempts counted since the last valid one

vars == <<ats_attempts, t_lockout, now, ret, history>>

Index == 0 .. (INVALID_AUTH_MAX_ATTEMPTS - 1)

auth_ret_t == {"AUTHRET_OK", "AUTHRET_SYSERR", "AUTHRET_INVALIDDATA",
               "AUTHRET_UNAUTHORIZED", "AUTHRET_LOCKOUT"}

\* What a client sends: nothing that can be read, more than one record, a
\* header of another version or size, or a header with a password.
Request == {"unreadable", "oversized", "badheader", "wrongpw", "goodpw"}

Init ==
    /\ ats_attempts = [i \in Index |-> 0]
    /\ t_lockout = 0
    /\ now = START_TIME
    /\ ret = "AUTHRET_SYSERR"
    /\ history = << >>

-------------------------------------------------------------------------------

credentials_are_valid(req, pamStarts) ==
    IF ~ pamStarts THEN "AUTHRET_SYSERR"
    ELSE IF req = "goodpw" THEN "AUTHRET_OK"
    ELSE "AUTHRET_UNAUTHORIZED"

IsInvalid(code) == code \in {"AUTHRET_UNAUTHORIZED", "AUTHRET_INVALIDDATA"}

InPeriod(t) == t > now - INVALID_AUTH_PERIOD_NSECS

\* The scan keeps the first of the smallest time stamps.
n_oldest_index(attempts) ==
    CHOOSE i \in Index :
        \A j \in Index : \/ attempts[i] < attempts[j]
                         \/ attempts[i] = attempts[j] /\ i =< j

\* Mutant: the attempt being made is not counted.
n_invalid_in_period_before(attempts) ==
    Cardinality({i \in Index : InPeriod(attempts[i])})

n_invalid_in_period(attempts) ==
    1 + Cardinality({i \in Index : InPeriod(attempts[i])})

\* The code auth_track_attempt returns, and the array it leaves.
auth_track_attempt(code, attempts) ==
    IF IsInvalid(code) /\ n_invalid_in_period(attempts) > INVALID_AUTH_MAX_ATTEMPTS
    THEN "AUTHRET_LOCKOUT"
    ELSE code

\* Mutant: the array is cleared to -1.
attempts_after_minus_one(code, attempts) ==
    IF code = "AUTHRET_OK" THEN [i \in Index |-> -1]
    ELSE IF IsInvalid(code) THEN [attempts EXCEPT ![n_oldest_index(attempts)] = now]
    ELSE attempts

\* Mutant: a valid password does not clear the array.
attempts_after_not_cleared(code, attempts) ==
    IF IsInvalid(code) THEN [attempts EXCEPT ![n_oldest_index(attempts)] = now]
                       ELSE attempts

attempts_after(code, attempts) ==
    IF code = "AUTHRET_OK" THEN [i \in Index |-> 0]
    ELSE IF IsInvalid(code) THEN [attempts EXCEPT ![n_oldest_index(attempts)] = now]
    ELSE attempts

\* authenticate_client up to its call of auth_track_attempt.
authenticate_client(req, pamStarts) ==
    IF req = "badheader" THEN "AUTHRET_INVALIDDATA"
                         ELSE credentials_are_valid(req, pamStarts)

\* auth_track_attempt on the code of authenticate_client, with the history of
\* counted attempts that the array abstracts.
TrackAttempt(code) ==
    /\ ats_attempts' = attempts_after(code, ats_attempts)
    /\ history' = IF code = "AUTHRET_OK" THEN << >>
                  ELSE IF IsInvalid(code) THEN Append(history, now)
                  ELSE history

\* The handshake of a client that is not locked out and whose data is one
\* record. A reply of success that cannot be sent counts as a system error.
HandshakeChecked(req, pamStarts, sendOk) ==
    LET code == authenticate_client(req, pamStarts)
        out  == auth_track_attempt(code, ats_attempts)
    IN  /\ now >= t_lockout
        /\ req \notin {"unreadable", "oversized"}
        /\ Len(history) < MAX_HISTORY
        /\ TrackAttempt(code)
        /\ ret' = IF out = "AUTHRET_OK" /\ ~ sendOk THEN "AUTHRET_SYSERR" ELSE out
        /\ t_lockout' = IF out = "AUTHRET_LOCKOUT" THEN now + INVALID_AUTH_LOCKOUT_NSECS
                                                   ELSE t_lockout
        /\ UNCHANGED now

\* Mutant: a client that is locked out has its own password checked.
HandshakeLockedOut_own(req, pamStarts) ==
    LET code == authenticate_client(req, pamStarts)
    IN  /\ now < t_lockout
        /\ req # "unreadable"
        /\ Len(history) < MAX_HISTORY
        /\ TrackAttempt(code)
        /\ ret' = auth_track_attempt(code, ats_attempts)
        /\ t_lockout' = now + INVALID_AUTH_LOCKOUT_NSECS
        /\ UNCHANGED now

\* Locked out: a random password is checked in place of the client's, whatever
\* the client sent; it is counted like any other attempt, and the lockout is
\* prolonged. A random password is taken never to be the right one.
HandshakeLockedOut(req, pamStarts) ==
    /\ now < t_lockout
    /\ req # "unreadable"
    /\ Len(history) < MAX_HISTORY
    /\ TrackAttempt(authenticate_client("wrongpw", pamStarts))
    /\ ret' = "AUTHRET_LOCKOUT"
    /\ t_lockout' = now + INVALID_AUTH_LOCKOUT_NSECS
    /\ UNCHANGED now

\* No random bytes, nothing to read, or more data pending than one record: the
\* client is refused and the attempt is not counted.
HandshakeRefused(req) ==
    /\ \/ req = "unreadable"
       \/ req = "oversized" /\ now >= t_lockout
    /\ ret' = "AUTHRET_INVALIDDATA"
    /\ UNCHANGED <<ats_attempts, t_lockout, now, history>>

Tick ==
    /\ now < MAX_TIME
    /\ now' = now + 1
    /\ UNCHANGED <<ats_attempts, t_lockout, ret, history>>

authpam_client_handshake ==
    \E req \in Request, pamStarts, sendOk \in BOOLEAN :
        \/ HandshakeChecked(req, pamStarts, sendOk)
        \/ HandshakeLockedOut(req, pamStarts)
        \/ HandshakeRefused(req)

Next == authpam_client_handshake \/ Tick

Spec == Init /\ [][Next]_vars

-------------------------------------------------------------------------------
(* Properties.                                                             *)

\* Type correctness.
TypeOK ==
    /\ ats_attempts \in [Index -> 0 .. MAX_TIME]
    /\ t_lockout \in 0 .. (MAX_TIME + INVALID_AUTH_LOCKOUT_NSECS)
    /\ now \in START_TIME .. MAX_TIME
    /\ ret \in auth_ret_t
    /\ history \in Seq(START_TIME .. MAX_TIME)

\* The attempts counted in the period that ends with the n-th one.
WithinPeriodOf(n) ==
    {k \in 1 .. n : history[k] > history[n] - INVALID_AUTH_PERIOD_NSECS}

\* "if the number of invalid attempts is greater than
\* INVALID_AUTH_MAX_ATTEMPS within INVALID_AUTH_PERIOD_NSECS seconds then auth
\* is locked out": the array has only MAX entries, yet no burst anywhere in the
\* history escapes it, and the lockout lasts the full time after the burst.
BurstLocksOut ==
    \A n \in 1 .. Len(history) :
        Cardinality(WithinPeriodOf(n)) > INVALID_AUTH_MAX_ATTEMPTS
            => t_lockout >= history[n] + INVALID_AUTH_LOCKOUT_NSECS

\* Nobody is locked out who did not exceed the limit: a lockout in force is
\* explained by a burst since the last valid authentication.
LockoutJustified ==
    now < t_lockout =>
        \E n \in 1 .. Len(history) :
            Cardinality(WithinPeriodOf(n)) > INVALID_AUTH_MAX_ATTEMPTS

\* A valid password is accepted only outside every lockout: from a burst until
\* the lockout time after it, no handshake ends well.
AcceptStep ==
    ret' = "AUTHRET_OK" =>
        \A n \in 1 .. Len(history) :
            Cardinality(WithinPeriodOf(n)) > INVALID_AUTH_MAX_ATTEMPTS
                => now >= history[n] + INVALID_AUTH_LOCKOUT_NSECS
NoAcceptDuringLockout == [][AcceptStep]_vars
===============================================================================
