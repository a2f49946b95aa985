------------------------------ MODULE Accounts -------------------------------
(***************************************************************************)
(* Registration, login, password change and logout of one e-mail address   *)
(* (app/auth).  A call is split where it leaves the database or waits: the *)
(* user's row lock is held from the verification of the password to the    *)
(* commit, the counter of failed logins lives in Redis and is written by   *)
(* calls of its own, each of which may fail unnoticed.                     *)
(*                                                                         *)
(* The session a call opens carries the call's name.  Nothing in the       *)
(* repository disables an account, so its status is left out.              *)
(***************************************************************************)
EXTENDS Naturals, FiniteSets

CONSTANTS
    AuthCall,         \* bound: the requests that arrive
    NoCall,
    Password, DisplayName,
    RegistrationKey,  \* values of the Idempotency-Key header
    LoginLimit,       \* settings.auth_login_max_attempts
    MaxPasswords,     \* bound: versions of the user row
    AuthMishaps       \* bound: aborted requests, Redis errors

ASSUME AccAssumption ==
    /\ IsFiniteSet(AuthCall) /\ NoCall \notin AuthCall
    /\ LoginLimit \in Nat \ {0} /\ MaxPasswords \in Nat \ {0} /\ AuthMishaps \in Nat

VARIABLES
    account,          \* the user row and the idempotency row of its registration
    authSessions,     \* auth_sessions: [AuthCall -> [state, version]]
    calls,            \* the local state of each request
    userLock,         \* the request that holds the user's row, or NoCall
    failures,         \* the Redis counter [count, expires]
    authMishaps

accVars == <<account, authSessions, calls, userLock, failures, authMishaps>>

NoAccount  == [version |-> 0]
NoFailures == [count |-> 0, expires |-> FALSE]
Arriving   == [op |-> "none", phase |-> "new", password |-> NoCall, key |-> NoCall,
               name |-> NoCall, version |-> 0, session |-> NoCall]

AccTypeOK ==
    /\ account.version \in 0..MaxPasswords
    /\ account # NoAccount => account.password \in Password
    /\ authSessions \in [AuthCall -> [state : {"none", "live", "revoked", "deleted", "expired"},
                                      version : 0..MaxPasswords]]
    /\ \A c \in AuthCall :
        /\ calls[c].op \in {"none", "register", "login", "change", "logout"}
        /\ calls[c].phase \in {"new", "conflicted", "allowed", "verified", "failing",
                               "expiring", "changing", "clearing", "authenticated", "done"}
        /\ calls[c].session \in AuthCall \cup {NoCall}
    /\ userLock \in AuthCall \cup {NoCall}
    /\ failures \in [count : 0..Cardinality(AuthCall), expires : BOOLEAN]
    /\ authMishaps \in 0..AuthMishaps

AccInit ==
    /\ account = NoAccount
    /\ authSessions = [c \in AuthCall |-> [state |-> "none", version |-> 0]]
    /\ calls = [c \in AuthCall |-> Arriving]
    /\ userLock = NoCall /\ failures = NoFailures /\ authMishaps = AuthMishaps

-----------------------------------------------------------------------------
Done(c)    == [calls EXCEPT ![c] = [Arriving EXCEPT !.phase = "done"]]
Unlock(c)  == userLock' = IF userLock = c THEN NoCall ELSE userLock
LiveSession(version) == [state |-> "live", version |-> version]

\* Faulty variant: the row is read without FOR UPDATE.
NeverWaits(c) == TRUE
\* SELECT ... FOR UPDATE on the user waits for the transaction that holds the row.
RowFree(c) == userLock = NoCall

\* register: user, wishlist, session and idempotency row in one transaction, which the
\* unique e-mail refuses when the account exists.
Register(c, k, name, pw) ==
    /\ calls[c].phase = "new"
    /\ IF account = NoAccount
       THEN /\ account' = [version |-> 1, password |-> pw, key |-> k, name |-> name]
            /\ authSessions' = [authSessions EXCEPT ![c] = LiveSession(1)]
            /\ calls' = Done(c)
       ELSE /\ calls' = [calls EXCEPT ![c] = [@ EXCEPT !.op = "register", !.phase = "conflicted",
                             !.key = k, !.name = name, !.password = pw]]
            /\ UNCHANGED <<account, authSessions>>
    /\ UNCHANGED <<userLock, failures, authMishaps>>

\* _recover_registration: a retry of the same request with the password of now.
Recover(c) ==
    LET same == /\ calls[c].key = account.key /\ calls[c].name = account.name
                /\ calls[c].password = account.password
    IN  /\ calls[c].phase = "conflicted" /\ RowFree(c)
        /\ userLock' = IF same THEN c ELSE userLock
        /\ calls' = IF same THEN [calls EXCEPT ![c] = [@ EXCEPT !.phase = "verified",
                                                                !.version = account.version]]
                    ELSE Done(c)
        /\ UNCHANGED <<account, authSessions, failures, authMishaps>>

\* login: the counter is read before the transaction.
Login(c, pw) ==
    /\ calls[c].phase = "new"
    /\ calls' = IF failures.count >= LoginLimit THEN Done(c)
                ELSE [calls EXCEPT ![c] = [@ EXCEPT !.op = "login", !.phase = "allowed",
                                                    !.password = pw]]
    /\ UNCHANGED <<account, authSessions, userLock, failures, authMishaps>>

\* A wrong password keeps the row locked until the failure is counted.
Verify(c) ==
    LET right == account # NoAccount /\ calls[c].password = account.password
    IN  /\ calls[c].phase = "allowed" /\ RowFree(c)
        /\ userLock' = IF account # NoAccount THEN c ELSE userLock
        /\ calls' = [calls EXCEPT ![c] = [@ EXCEPT !.phase = IF right THEN "verified"
                                                             ELSE "failing",
                                                   !.version = account.version]]
        /\ UNCHANGED <<account, authSessions, failures, authMishaps>>

\* The session is inserted and the transaction commits.
OpenSession(c) ==
    /\ calls[c].phase = "verified"
    /\ authSessions' = [authSessions EXCEPT ![c] = LiveSession(calls[c].version)]
    /\ calls' = IF calls[c].op = "login" THEN [calls EXCEPT ![c].phase = "clearing"]
                ELSE Done(c)
    /\ Unlock(c)
    /\ UNCHANGED <<account, failures, authMishaps>>

\* _clear_failed_logins; an error of Redis is swallowed.
ClearFailures(c, ok) ==
    /\ calls[c].phase = "clearing"
    /\ ok \/ authMishaps > 0
    /\ authMishaps' = IF ok THEN authMishaps ELSE authMishaps - 1
    /\ failures' = IF ok THEN NoFailures ELSE failures
    /\ calls' = Done(c)
    /\ UNCHANGED <<account, authSessions, userLock>>

\* _record_failed_login: incr, and expire after the first one, while the row is locked.
CountFailure(c) ==
    /\ calls[c].phase = "failing"
    /\ failures' = [failures EXCEPT !.count = @ + 1]
    /\ IF failures'.count = 1 THEN calls' = [calls EXCEPT ![c].phase = "expiring"]
                                   /\ UNCHANGED userLock
       ELSE calls' = Done(c) /\ Unlock(c)
    /\ UNCHANGED <<account, authSessions, authMishaps>>

SetExpiry(c) ==
    /\ calls[c].phase = "expiring"
    /\ failures' = IF failures.count > 0 THEN [failures EXCEPT !.expires = TRUE] ELSE failures
    /\ calls' = Done(c) /\ Unlock(c)
    /\ UNCHANGED <<account, authSessions, authMishaps>>

\* change_password: no old password is asked for.
LockForChange(c, pw) ==
    /\ calls[c].phase = "new" /\ RowFree(c) /\ account # NoAccount
    /\ userLock' = c
    /\ calls' = [calls EXCEPT ![c] = [@ EXCEPT !.op = "change", !.phase = "changing",
                                               !.password = pw]]
    /\ UNCHANGED <<account, authSessions, failures, authMishaps>>

\* Hash, version and the deletion of every session commit together.
ChangePassword(c) ==
    /\ calls[c].phase = "changing" /\ account.version < MaxPasswords
    /\ account' = [account EXCEPT !.password = calls[c].password, !.version = @ + 1]
    /\ authSessions' = [s \in AuthCall |->
                           IF authSessions[s].state = "none" THEN authSessions[s]
                           ELSE [authSessions[s] EXCEPT !.state = "deleted"]]
    /\ calls' = [calls EXCEPT ![c].phase = "clearing"]
    /\ Unlock(c)
    /\ UNCHANGED <<failures, authMishaps>>

\* authenticate, as every protected route does first; it locks the user's row for its own
\* short transaction.
Authenticate(c, s) ==
    /\ calls[c].phase = "new" /\ RowFree(c) /\ authSessions[s].state = "live"
    /\ calls' = [calls EXCEPT ![c] = [@ EXCEPT !.op = "logout", !.phase = "authenticated",
                                               !.session = s]]
    /\ UNCHANGED <<account, authSessions, userLock, failures, authMishaps>>

\* logout of the session the request came with, which may be gone by then.
Logout(c) ==
    LET s == calls[c].session
    IN  /\ calls[c].phase = "authenticated"
        /\ authSessions' = [authSessions EXCEPT ![s].state =
                               IF @ \in {"live", "expired"} THEN "revoked" ELSE @]
        /\ calls' = Done(c)
        /\ UNCHANGED <<account, userLock, failures, authMishaps>>

\* The request is aborted: its transaction rolls back, what it wrote to Redis stays.  An
\* error of Redis while a failure is counted ends the same way.
Abort(c) ==
    /\ calls[c].phase \notin {"new", "done"} /\ authMishaps > 0
    /\ authMishaps' = authMishaps - 1
    /\ calls' = Done(c) /\ Unlock(c)
    /\ UNCHANGED <<account, authSessions, failures>>

SessionExpires(s) ==
    /\ authSessions[s].state = "live"
    /\ authSessions' = [authSessions EXCEPT ![s].state = "expired"]
    /\ UNCHANGED <<account, calls, userLock, failures, authMishaps>>

WindowEnds ==
    /\ failures.expires
    /\ failures' = NoFailures
    /\ UNCHANGED <<account, authSessions, calls, userLock, authMishaps>>

AccNext ==
    \/ \E c \in AuthCall, k \in RegistrationKey, name \in DisplayName, pw \in Password :
           Register(c, k, name, pw)
    \/ \E c \in AuthCall, pw \in Password : Login(c, pw) \/ LockForChange(c, pw)
    \/ \E c \in AuthCall : \/ Recover(c) \/ Verify(c) \/ OpenSession(c) \/ CountFailure(c)
                           \/ SetExpiry(c) \/ ChangePassword(c) \/ Logout(c) \/ Abort(c)
    \/ \E c \in AuthCall, ok \in BOOLEAN : ClearFailures(c, ok)
    \/ \E c, s \in AuthCall : Authenticate(c, s)
    \/ \E s \in AuthCall : SessionExpires(s)
    \/ WindowEnds

AccSpec == AccInit /\ [][AccNext]_accVars

-----------------------------------------------------------------------------
\* After a password change only the new password gives access: no session that lives was
\* opened with an earlier one, not even by a login or a repeated registration that was
\* verified before the change and committed after it (login, _recover_registration,
\* change_password).
SessionsOfThisPassword ==
    \A s \in AuthCall : authSessions[s].state = "live" =>
                            authSessions[s].version = account.version
=============================================================================
