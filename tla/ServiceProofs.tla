---------------------------- MODULE ServiceProofs ----------------------------
(***************************************************************************)
(* Proofs about the parts that answer requests or run from the command     *)
(* line, the catalog, the agent and the selection apart, and the types of  *)
(* all of them together.                                                   *)
(*                                                                         *)
(* Accounts: for any number of concurrent requests, passwords and          *)
(* interruptions.  A session belongs to the current password because       *)
(* whoever has verified a password keeps the row of the user locked until  *)
(* its commit (RowHeld).                                                   *)
(*                                                                         *)
(* The collector: for any pages, caps and kills.  Its caps hold because a  *)
(* request that is on its way was let through below them, and because each *)
(* kill loses at most one payment on its way to the ledger (PaymentsFit).  *)
(* What it has paid for is not lost because the pages behind a position    *)
(* are taken in when the position moves, which is after their candidates   *)
(* were saved (Sound), and because no answer is written for a page beyond  *)
(* the position in the file (PageFits).                                    *)
(*                                                                         *)
(* The legacy store: for any threads, runs, keys and pages.  Its history   *)
(* can be read because a question is stored before its answer, and because *)
(* what was archived when a walk through the archive began has been seen   *)
(* or is still behind its cursor (WalkFits).                               *)
(***************************************************************************)
EXTENDS MCServices, CatalogProofs, AgentProofs, SelectionProofs, FiniteSetTheorems,
        SequenceTheorems, WellFoundedInduction, TLAPS

AccountRow == [version : 1..MaxPasswords, password : Password, key : RegistrationKey,
               name : DisplayName]

SessionRow == [state : {"none", "live", "revoked", "deleted", "expired"},
               version : 0..MaxPasswords]

CallRow == [op : {"none", "register", "login", "change", "logout"},
            phase : {"new", "conflicted", "allowed", "verified", "failing", "expiring",
                     "changing", "clearing", "authenticated", "done"},
            password : Password \cup {NoCall}, key : RegistrationKey \cup {NoCall},
            name : DisplayName \cup {NoCall}, version : 0..MaxPasswords,
            session : AuthCall \cup {NoCall}]

AccTypes ==
    /\ account = NoAccount \/ account \in AccountRow
    /\ authSessions \in [AuthCall -> SessionRow]
    /\ calls \in [AuthCall -> CallRow]
    /\ userLock \in AuthCall \cup {NoCall}
    /\ failures \in [count : Nat, expires : BOOLEAN]
    /\ authMishaps \in 0..AuthMishaps

\* Who has verified a password, or is about to change it, holds the row of the user, and the
\* password it has verified is still the one of the row.
RowHeld ==
    \A c \in AuthCall :
        /\ calls[c].phase = "verified" =>
              userLock = c /\ account # NoAccount /\ calls[c].version = account.version
        /\ calls[c].phase = "conflicted" => account # NoAccount
        /\ calls[c].phase = "changing" =>
              userLock = c /\ account # NoAccount /\ calls[c].password \in Password

\* Every session that lives was opened under the password of now.
SessionsFit ==
    \A s \in AuthCall : authSessions[s].state = "live" =>
                            account # NoAccount /\ authSessions[s].version = account.version

\* A call counts one failure, and only on its way to its end.
FinishedCalls == {c \in AuthCall : calls[c].phase \in {"expiring", "done"}}
FailuresCounted == failures.count <= Cardinality(FinishedCalls)

AccInvariant == AccTypes /\ RowHeld /\ SessionsFit /\ FailuresCounted

-----------------------------------------------------------------------------
\* A request's local state keeps its type.
LEMMA CallsType ==
    ASSUME AccTypes, RowHeld, [AccNext]_accVars
    PROVE  calls' \in [AuthCall -> CallRow]
<1>1. calls \in [AuthCall -> CallRow]
    BY DEF AccTypes
<1>2. ASSUME NEW c \in AuthCall, NEW row \in CallRow, calls' = [calls EXCEPT ![c] = row]
      PROVE  calls' \in [AuthCall -> CallRow]
    BY <1>1, <1>2
<1>3. 0 \in 0..MaxPasswords /\ account.version \in 0..MaxPasswords
    BY AccAssumption DEF AccTypes, AccountRow, NoAccount
<1>4. [Arriving EXCEPT !.phase = "done"] \in CallRow
    BY <1>3 DEF Arriving, CallRow
<1>5. ASSUME NEW c \in AuthCall, calls' = Done(c) PROVE calls' \in [AuthCall -> CallRow]
    BY <1>2, <1>4, <1>5 DEF Done
<1>6. ASSUME NEW c \in AuthCall,
             NEW p \in {"verified", "failing", "expiring", "changing", "clearing"}
      PROVE  [calls[c] EXCEPT !.phase = p] \in CallRow
    BY <1>1 DEF CallRow
<1>7. ASSUME NEW c \in AuthCall, NEW k \in RegistrationKey, NEW name \in DisplayName,
             NEW pw \in Password, Register(c, k, name, pw)
      PROVE  calls' \in [AuthCall -> CallRow]
    <2>1. [calls[c] EXCEPT !.op = "register", !.phase = "conflicted", !.key = k, !.name = name,
                           !.password = pw] \in CallRow
        BY <1>1 DEF CallRow
    <2> QED BY <1>1, <1>2, <1>5, <1>7, <2>1 DEF Register
<1>8. ASSUME NEW c \in AuthCall, NEW pw \in Password, Login(c, pw) \/ LockForChange(c, pw)
      PROVE  calls' \in [AuthCall -> CallRow]
    <2>1. /\ [calls[c] EXCEPT !.op = "login", !.phase = "allowed", !.password = pw] \in CallRow
          /\ [calls[c] EXCEPT !.op = "change", !.phase = "changing", !.password = pw] \in CallRow
        BY <1>1 DEF CallRow
    <2> QED BY <1>1, <1>2, <1>5, <1>8, <2>1 DEF Login, LockForChange
<1>9. ASSUME NEW c \in AuthCall, Recover(c) \/ Verify(c) PROVE calls' \in [AuthCall -> CallRow]
    <2>1. ASSUME NEW p \in {"verified", "failing"}
          PROVE  [calls[c] EXCEPT !.phase = p, !.version = account.version] \in CallRow
        <3>1. PICK v \in 0..MaxPasswords : v = account.version
            BY <1>3
        <3>2. calls[c] \in CallRow
            BY <1>1
        <3>3. [calls[c] EXCEPT !.phase = p, !.version = v] \in CallRow
            BY <3>2 DEF CallRow
        <3> QED BY <3>1, <3>3
    <2>2. CASE Recover(c)
        BY <1>1, <1>2, <1>5, <2>1, <2>2 DEF Recover
    <2>3. CASE Verify(c)
        BY <1>1, <1>2, <2>1, <2>3 DEF Verify
    <2> QED BY <1>9, <2>2, <2>3
<1>10. ASSUME NEW c \in AuthCall, OpenSession(c) \/ CountFailure(c) \/ ChangePassword(c)
       PROVE  calls' \in [AuthCall -> CallRow]
    <2>1. ASSUME NEW p \in {"clearing", "expiring"}, calls' = [calls EXCEPT ![c].phase = p]
          PROVE  calls' \in [AuthCall -> CallRow]
        BY <1>1, <1>2, <1>6, <2>1
    <2> QED BY <1>5, <1>10, <2>1 DEF OpenSession, CountFailure, ChangePassword
<1>11. ASSUME NEW c \in AuthCall, NEW s \in AuthCall, Authenticate(c, s)
       PROVE  calls' \in [AuthCall -> CallRow]
    <2>1. [calls[c] EXCEPT !.op = "logout", !.phase = "authenticated", !.session = s] \in CallRow
        BY <1>1, ZenonT(30) DEF CallRow
    <2> QED BY <1>1, <1>2, <1>11, <2>1 DEF Authenticate
<1>12. ASSUME NEW c \in AuthCall,
              SetExpiry(c) \/ Logout(c) \/ Abort(c) \/ \E ok \in BOOLEAN : ClearFailures(c, ok)
       PROVE  calls' = Done(c)
    BY <1>12 DEF SetExpiry, Logout, Abort, ClearFailures
<1>13. (\E s \in AuthCall : SessionExpires(s)) \/ WindowEnds \/ UNCHANGED accVars
       => UNCHANGED calls
    BY DEF SessionExpires, WindowEnds, accVars
<1> QED BY <1>1, <1>5, <1>7, <1>8, <1>9, <1>10, <1>11, <1>12, <1>13 DEF AccNext

\* The row is written by a registration and by a change of the password.
LEMMA AccountType ==
    ASSUME AccTypes, RowHeld, [AccNext]_accVars
    PROVE  account' = NoAccount \/ account' \in AccountRow
<1>1. ASSUME NEW c \in AuthCall, NEW k \in RegistrationKey, NEW name \in DisplayName,
             NEW pw \in Password, Register(c, k, name, pw)
      PROVE  account' = NoAccount \/ account' \in AccountRow
    BY <1>1, AccAssumption DEF Register, AccTypes, AccountRow
<1>2. ASSUME NEW c \in AuthCall, ChangePassword(c)
      PROVE  account' \in AccountRow
    <2>1. account \in AccountRow /\ calls[c].password \in Password
        BY <1>2 DEF ChangePassword, RowHeld, AccTypes
    <2>2. PICK v \in 1..MaxPasswords : v = account.version + 1
        BY <1>2, <2>1, AccAssumption DEF ChangePassword, AccountRow
    <2>3. account' = [account EXCEPT !.password = calls[c].password, !.version = v]
        BY <1>2, <2>1, <2>2 DEF ChangePassword, AccountRow
    <2> QED BY <2>1, <2>3 DEF AccountRow
<1>3. \/ UNCHANGED account \/ \E c \in AuthCall : ChangePassword(c)
      \/ \E c \in AuthCall, k \in RegistrationKey, name \in DisplayName, pw \in Password :
             Register(c, k, name, pw)
    BY DEF AccNext, Login, LockForChange, Recover, Verify, OpenSession, CountFailure, SetExpiry,
       Logout, Abort, ClearFailures, Authenticate, SessionExpires, WindowEnds, accVars
<1> QED BY <1>1, <1>2, <1>3 DEF AccTypes

\* A session is opened by a registration or a login, and ended by a change of the password, a
\* logout or time.
LEMMA SessionsType ==
    ASSUME AccTypes, RowHeld, [AccNext]_accVars
    PROVE  authSessions' \in [AuthCall -> SessionRow]
<1>1. authSessions \in [AuthCall -> SessionRow]
    BY DEF AccTypes
<1>2. ASSUME NEW c \in AuthCall, NEW v \in 0..MaxPasswords,
             authSessions' = [authSessions EXCEPT ![c] = LiveSession(v)]
      PROVE  authSessions' \in [AuthCall -> SessionRow]
    BY <1>1, <1>2 DEF LiveSession, SessionRow
<1>3. ASSUME NEW c \in AuthCall, NEW k \in RegistrationKey, NEW name \in DisplayName,
             NEW pw \in Password, Register(c, k, name, pw)
      PROVE  authSessions' \in [AuthCall -> SessionRow]
    <2>1. 1 \in 0..MaxPasswords
        BY AccAssumption
    <2> QED BY <1>1, <1>2, <1>3, <2>1 DEF Register
<1>4. ASSUME NEW c \in AuthCall, OpenSession(c) PROVE authSessions' \in [AuthCall -> SessionRow]
    <2>1. calls[c].version \in 0..MaxPasswords
        BY DEF AccTypes, CallRow
    <2> QED BY <1>2, <1>4, <2>1 DEF OpenSession
<1>5. ASSUME NEW c \in AuthCall, ChangePassword(c)
      PROVE  authSessions' \in [AuthCall -> SessionRow]
    BY <1>1, <1>5 DEF ChangePassword, SessionRow
<1>6. ASSUME NEW c \in AuthCall, Logout(c) PROVE authSessions' \in [AuthCall -> SessionRow]
    <2> DEFINE s == calls[c].session
    <2>1. CASE s \in AuthCall
        <3> HIDE DEF s
        <3>1. authSessions' = [authSessions EXCEPT ![s].state =
                                  IF @ \in {"live", "expired"} THEN "revoked" ELSE @]
            BY <1>6 DEF Logout, s
        <3> QED BY <1>1, <2>1, <3>1 DEF SessionRow
    <2>2. CASE s \notin AuthCall
        BY <1>1, <1>6, <2>2 DEF Logout
    <2> QED BY <2>1, <2>2
<1>7. ASSUME NEW s \in AuthCall, SessionExpires(s)
      PROVE  authSessions' \in [AuthCall -> SessionRow]
    BY <1>1, <1>7 DEF SessionExpires, SessionRow
<1>8. \/ UNCHANGED authSessions \/ \E s \in AuthCall : SessionExpires(s)
      \/ \E c \in AuthCall : OpenSession(c) \/ ChangePassword(c) \/ Logout(c)
      \/ \E c \in AuthCall, k \in RegistrationKey, name \in DisplayName, pw \in Password :
             Register(c, k, name, pw)
    BY DEF AccNext, Login, LockForChange, Recover, Verify, CountFailure, SetExpiry, Abort,
       ClearFailures, Authenticate, WindowEnds, accVars
<1> QED BY <1>1, <1>3, <1>4, <1>5, <1>6, <1>7, <1>8

\* The lock, the counter and the bound.
LEMMA OthersType ==
    ASSUME AccTypes, [AccNext]_accVars
    PROVE  /\ userLock' \in AuthCall \cup {NoCall}
           /\ failures' \in [count : Nat, expires : BOOLEAN]
           /\ authMishaps' \in 0..AuthMishaps
<1>1. /\ userLock \in AuthCall \cup {NoCall} /\ failures \in [count : Nat, expires : BOOLEAN]
      /\ authMishaps \in 0..AuthMishaps
    BY DEF AccTypes
<1>2. userLock' \in AuthCall \cup {NoCall}
    BY <1>1 DEF AccNext, Register, Login, LockForChange, Recover, Verify, OpenSession,
       CountFailure, SetExpiry, ChangePassword, Logout, Abort, ClearFailures, Authenticate,
       SessionExpires, WindowEnds, Unlock, accVars
<1>3. \/ UNCHANGED failures \/ failures' = NoFailures
      \/ failures' = [failures EXCEPT !.count = @ + 1]
      \/ failures' = [failures EXCEPT !.expires = TRUE]
    BY DEF AccNext, Register, Login, LockForChange, Recover, Verify, OpenSession,
       CountFailure, SetExpiry, ChangePassword, Logout, Abort, ClearFailures, Authenticate,
       SessionExpires, WindowEnds, accVars
<1>4. failures' \in [count : Nat, expires : BOOLEAN]
    <2>1. CASE failures' = NoFailures
        BY <2>1 DEF NoFailures
    <2>2. CASE failures' = [failures EXCEPT !.count = @ + 1]
        <3>1. PICK k \in Nat : k = failures.count + 1
            BY <1>1
        <3>2. failures' = [failures EXCEPT !.count = k]
            BY <2>2, <3>1
        <3> QED BY <1>1, <3>2
    <2>3. CASE failures' = [failures EXCEPT !.expires = TRUE]
        BY <1>1, <2>3
    <2> QED BY <1>1, <1>3, <2>1, <2>2, <2>3
<1>5. UNCHANGED authMishaps \/ (authMishaps > 0 /\ authMishaps' = authMishaps - 1)
    <2>1. ASSUME NEW c \in AuthCall, NEW ok \in BOOLEAN, ClearFailures(c, ok)
          PROVE  UNCHANGED authMishaps \/ (authMishaps > 0 /\ authMishaps' = authMishaps - 1)
        <3>1. CASE ok
            BY <2>1, <3>1 DEF ClearFailures
        <3>2. CASE ~ok
            BY <2>1, <3>2 DEF ClearFailures
        <3> QED BY <3>1, <3>2
    <2>2. ASSUME NEW c \in AuthCall, Abort(c)
          PROVE  authMishaps > 0 /\ authMishaps' = authMishaps - 1
        BY <2>2 DEF Abort
    <2>3. ASSUME NEW c \in AuthCall, NEW pw \in Password,
                 \/ Login(c, pw) \/ LockForChange(c, pw)
                 \/ \E k \in RegistrationKey, name \in DisplayName : Register(c, k, name, pw)
          PROVE  UNCHANGED authMishaps
        BY <2>3 DEF Login, LockForChange, Register
    <2>4. ASSUME NEW c \in AuthCall,
                 \/ Recover(c) \/ Verify(c) \/ OpenSession(c) \/ CountFailure(c)
                 \/ SetExpiry(c) \/ ChangePassword(c) \/ Logout(c)
                 \/ \E s \in AuthCall : Authenticate(c, s)
          PROVE  UNCHANGED authMishaps
        BY <2>4 DEF Recover, Verify, OpenSession, CountFailure, SetExpiry, ChangePassword,
           Logout, Authenticate
    <2>5. (\E s \in AuthCall : SessionExpires(s)) \/ WindowEnds \/ UNCHANGED accVars
          => UNCHANGED authMishaps
        BY DEF SessionExpires, WindowEnds, accVars
    <2> QED BY <2>1, <2>2, <2>3, <2>4, <2>5 DEF AccNext
<1>6. authMishaps' \in 0..AuthMishaps
    BY <1>1, <1>5, AccAssumption
<1> QED BY <1>2, <1>4, <1>6

\* All types together.
LEMMA AccTypesStep ==
    ASSUME AccInvariant, [AccNext]_accVars
    PROVE  AccTypes'
<1>1. AccTypes /\ RowHeld
    BY DEF AccInvariant
<1> QED BY <1>1, CallsType, AccountType, SessionsType, OthersType DEF AccTypes

\* Only the holder of the row changes it, and nobody reaches the row while it is held.
LEMMA RowHeldStep ==
    ASSUME AccInvariant, [AccNext]_accVars
    PROVE  RowHeld'
<1>0. AccTypes /\ RowHeld /\ SessionsFit
    BY DEF AccInvariant
<1>1. ASSUME NEW c \in AuthCall, NEW k \in RegistrationKey, NEW name \in DisplayName,
             NEW pw \in Password, Register(c, k, name, pw) PROVE RowHeld'
    <2>1. \A o \in AuthCall \ {c} : calls'[o] = calls[o]
        BY <1>0, <1>1 DEF Register, Done, AccTypes
    <2>2. CASE account = NoAccount
        <3>1. calls'[c].phase = "done"
            BY <1>0, <1>1, <2>2 DEF Register, Done, Arriving, AccTypes
        <3>2. \A o \in AuthCall : calls[o].phase \notin {"verified", "conflicted", "changing"}
            BY <1>0, <2>2 DEF RowHeld
        <3> QED BY <2>1, <3>1, <3>2 DEF RowHeld
    <2>3. CASE account # NoAccount
        <3>1. /\ calls' = [calls EXCEPT ![c] = [@ EXCEPT !.op = "register", !.phase = "conflicted",
                                      !.key = k, !.name = name, !.password = pw]]
              /\ UNCHANGED <<account, userLock>>
            BY <1>1, <2>3 DEF Register
        <3>2. calls \in [AuthCall -> CallRow]
            BY <1>0 DEF AccTypes
        <3>3. calls'[c].phase = "conflicted"
            BY <3>1, <3>2 DEF CallRow
        <3> QED BY <1>0, <2>1, <2>3, <3>1, <3>3 DEF RowHeld
    <2> QED BY <2>2, <2>3
<1>2. ASSUME NEW c \in AuthCall, NEW pw \in Password, Login(c, pw) PROVE RowHeld'
    BY <1>0, <1>2, AccAssumption
       DEF Login, Done, Arriving, AccTypes, CallRow, AccountRow, NoAccount, RowHeld
<1>3. ASSUME NEW c \in AuthCall, NEW pw \in Password, LockForChange(c, pw) PROVE RowHeld'
    BY <1>0, <1>3, AccAssumption
       DEF LockForChange, RowFree, AccTypes, CallRow, AccountRow, NoAccount, RowHeld
<1>4. ASSUME NEW c \in AuthCall, Recover(c) PROVE RowHeld'
    <2>1. userLock = NoCall /\ UNCHANGED account
        BY <1>4 DEF Recover, RowFree
    <2>2. \A o \in AuthCall : calls[o].phase \notin {"verified", "changing"}
        BY <1>0, <2>1, AccAssumption DEF RowHeld
    <2>3. \A o \in AuthCall \ {c} : calls'[o] = calls[o]
        BY <1>0, <1>4 DEF Recover, Done, AccTypes
    <2>4. CASE calls' = Done(c)
        <3>1. calls'[c].phase = "done"
            BY <1>0, <2>4 DEF Done, Arriving, AccTypes
        <3> QED BY <1>0, <2>1, <2>2, <2>3, <3>1 DEF RowHeld
    <2>5. CASE ~(calls' = Done(c))
        <3>1. /\ calls' = [calls EXCEPT ![c] = [@ EXCEPT !.phase = "verified",
                                                        !.version = account.version]]
              /\ userLock' = c
              /\ calls[c].key = account.key
            BY <1>4, <2>5 DEF Recover
        <3>2. calls'[c].phase = "verified" /\ calls'[c].version = account.version
            BY <1>0, <3>1 DEF AccTypes, CallRow
        <3>3. account # NoAccount
            BY <1>0, <1>4 DEF Recover, RowHeld
        <3> QED BY <1>0, <2>1, <2>2, <2>3, <3>1, <3>2, <3>3 DEF RowHeld
    <2> QED BY <2>4, <2>5
<1>5. ASSUME NEW c \in AuthCall, Verify(c) PROVE RowHeld'
    BY <1>0, <1>5, AccAssumption
       DEF Verify, RowFree, AccTypes, CallRow, AccountRow, NoAccount, RowHeld
<1>6. ASSUME NEW c \in AuthCall, OpenSession(c) PROVE RowHeld'
    BY <1>0, <1>6, AccAssumption
       DEF OpenSession, Done, Arriving, LiveSession, Unlock, AccTypes, CallRow, AccountRow,
           NoAccount, RowHeld
<1>7. ASSUME NEW c \in AuthCall, CountFailure(c) PROVE RowHeld'
    BY <1>0, <1>7, AccAssumption
       DEF CountFailure, Done, Arriving, Unlock, AccTypes, CallRow, AccountRow, NoAccount,
           RowHeld
<1>8. ASSUME NEW c \in AuthCall, SetExpiry(c) PROVE RowHeld'
    BY <1>0, <1>8, AccAssumption
       DEF SetExpiry, Done, Arriving, Unlock, AccTypes, CallRow, AccountRow, NoAccount, RowHeld
<1>9. ASSUME NEW c \in AuthCall, ChangePassword(c) PROVE RowHeld'
    BY <1>0, <1>9, AccAssumption, ZenonT(30)
       DEF ChangePassword, Unlock, AccTypes, CallRow, AccountRow, NoAccount, RowHeld
<1>10. ASSUME NEW c \in AuthCall, Logout(c) PROVE RowHeld'
    BY <1>0, <1>10, AccAssumption
       DEF Logout, Done, Arriving, AccTypes, CallRow, AccountRow, NoAccount, RowHeld
<1>11. ASSUME NEW c \in AuthCall, Abort(c) PROVE RowHeld'
    BY <1>0, <1>11, AccAssumption
       DEF Abort, Done, Arriving, Unlock, AccTypes, CallRow, AccountRow, NoAccount, RowHeld
<1>12. ASSUME NEW c \in AuthCall, NEW ok \in BOOLEAN, ClearFailures(c, ok) PROVE RowHeld'
    BY <1>0, <1>12, AccAssumption
       DEF ClearFailures, Done, Arriving, NoFailures, AccTypes, CallRow, AccountRow, NoAccount,
           RowHeld
<1>13. ASSUME NEW c \in AuthCall, NEW s \in AuthCall, Authenticate(c, s) PROVE RowHeld'
    BY <1>0, <1>13, AccAssumption
       DEF Authenticate, RowFree, AccTypes, CallRow, AccountRow, NoAccount, RowHeld
<1>14. ASSUME NEW s \in AuthCall, SessionExpires(s) PROVE RowHeld'
    BY <1>0, <1>14, AccAssumption
       DEF SessionExpires, AccTypes, CallRow, AccountRow, NoAccount, RowHeld
<1>15. ASSUME WindowEnds PROVE RowHeld'
    BY <1>0, <1>15, AccAssumption
       DEF WindowEnds, NoFailures, AccTypes, CallRow, AccountRow, NoAccount, RowHeld
<1>16. CASE UNCHANGED accVars
    BY <1>0, <1>16 DEF accVars, AccTypes, CallRow, AccountRow, NoAccount, RowHeld
<1> QED BY <1>1, <1>2, <1>3, <1>4, <1>5, <1>6, <1>7, <1>8, <1>9, <1>10, <1>11, <1>12, <1>13,
           <1>14, <1>15, <1>16 DEF AccNext

\* A session opens under the version its request verified, which RowHeld keeps current; a
\* change of the password revokes all others in its own transaction.
LEMMA SessionsStep ==
    ASSUME AccInvariant, [AccNext]_accVars
    PROVE  SessionsFit'
<1>0. AccTypes /\ RowHeld /\ SessionsFit
    BY DEF AccInvariant
<1>1. ASSUME NEW c \in AuthCall, NEW k \in RegistrationKey, NEW name \in DisplayName,
             NEW pw \in Password, Register(c, k, name, pw) PROVE SessionsFit'
    BY <1>0, <1>1, AccAssumption
       DEF Register, Done, Arriving, LiveSession, AccTypes, SessionRow, AccountRow, NoAccount,
           RowHeld, SessionsFit
<1>2. ASSUME NEW c \in AuthCall, NEW pw \in Password, Login(c, pw) PROVE SessionsFit'
    BY <1>0, <1>2, AccAssumption
       DEF Login, Done, Arriving, AccTypes, SessionRow, AccountRow, NoAccount, RowHeld,
           SessionsFit
<1>3. ASSUME NEW c \in AuthCall, NEW pw \in Password, LockForChange(c, pw) PROVE SessionsFit'
    BY <1>0, <1>3, AccAssumption
       DEF LockForChange, RowFree, AccTypes, SessionRow, AccountRow, NoAccount, RowHeld,
           SessionsFit
<1>4. ASSUME NEW c \in AuthCall, Recover(c) PROVE SessionsFit'
    BY <1>0, <1>4, AccAssumption
       DEF Recover, Done, Arriving, RowFree, AccTypes, SessionRow, AccountRow, NoAccount,
           RowHeld, SessionsFit
<1>5. ASSUME NEW c \in AuthCall, Verify(c) PROVE SessionsFit'
    BY <1>0, <1>5, AccAssumption
       DEF Verify, RowFree, AccTypes, SessionRow, AccountRow, NoAccount, RowHeld, SessionsFit
<1>6. ASSUME NEW c \in AuthCall, OpenSession(c) PROVE SessionsFit'
    BY <1>0, <1>6, AccAssumption
       DEF OpenSession, Done, Arriving, LiveSession, Unlock, AccTypes, SessionRow, AccountRow,
           NoAccount, RowHeld, SessionsFit
<1>7. ASSUME NEW c \in AuthCall, CountFailure(c) PROVE SessionsFit'
    BY <1>0, <1>7, AccAssumption
       DEF CountFailure, Done, Arriving, Unlock, AccTypes, SessionRow, AccountRow, NoAccount,
           RowHeld, SessionsFit
<1>8. ASSUME NEW c \in AuthCall, SetExpiry(c) PROVE SessionsFit'
    BY <1>0, <1>8, AccAssumption
       DEF SetExpiry, Done, Arriving, Unlock, AccTypes, SessionRow, AccountRow, NoAccount,
           RowHeld, SessionsFit
<1>9. ASSUME NEW c \in AuthCall, ChangePassword(c) PROVE SessionsFit'
    BY <1>0, <1>9, AccAssumption
       DEF ChangePassword, Unlock, AccTypes, SessionRow, AccountRow, NoAccount, RowHeld,
           SessionsFit
<1>10. ASSUME NEW c \in AuthCall, Logout(c) PROVE SessionsFit'
    BY <1>0, <1>10, AccAssumption
       DEF Logout, Done, Arriving, AccTypes, SessionRow, AccountRow, NoAccount, RowHeld,
           SessionsFit
<1>11. ASSUME NEW c \in AuthCall, Abort(c) PROVE SessionsFit'
    BY <1>0, <1>11, AccAssumption
       DEF Abort, Done, Arriving, Unlock, AccTypes, SessionRow, AccountRow, NoAccount, RowHeld,
           SessionsFit
<1>12. ASSUME NEW c \in AuthCall, NEW ok \in BOOLEAN, ClearFailures(c, ok) PROVE SessionsFit'
    BY <1>0, <1>12, AccAssumption
       DEF ClearFailures, Done, Arriving, NoFailures, AccTypes, SessionRow, AccountRow,
           NoAccount, RowHeld, SessionsFit
<1>13. ASSUME NEW c \in AuthCall, NEW s \in AuthCall, Authenticate(c, s) PROVE SessionsFit'
    BY <1>0, <1>13, AccAssumption
       DEF Authenticate, RowFree, AccTypes, SessionRow, AccountRow, NoAccount, RowHeld,
           SessionsFit
<1>14. ASSUME NEW s \in AuthCall, SessionExpires(s) PROVE SessionsFit'
    BY <1>0, <1>14, AccAssumption
       DEF SessionExpires, AccTypes, SessionRow, AccountRow, NoAccount, RowHeld, SessionsFit
<1>15. ASSUME WindowEnds PROVE SessionsFit'
    BY <1>0, <1>15, AccAssumption
       DEF WindowEnds, NoFailures, AccTypes, SessionRow, AccountRow, NoAccount, RowHeld,
           SessionsFit
<1>16. CASE UNCHANGED accVars
    BY <1>0, <1>16 DEF accVars, AccTypes, SessionRow, AccountRow, NoAccount, RowHeld, SessionsFit
<1> QED BY <1>1, <1>2, <1>3, <1>4, <1>5, <1>6, <1>7, <1>8, <1>9, <1>10, <1>11, <1>12, <1>13,
           <1>14, <1>15, <1>16 DEF AccNext

\* Who has ended stays so, and only CountFailure counts.
LEMMA EndedStays ==
    ASSUME AccTypes, [AccNext]_accVars, NEW o \in AuthCall,
           calls[o].phase \in {"expiring", "done"}
    PROVE  calls'[o].phase \in {"expiring", "done"}
<1>1. DOMAIN calls = AuthCall
    BY DEF AccTypes
<1>2. ASSUME NEW c \in AuthCall, calls' = Done(c) PROVE calls'[o].phase \in {"expiring", "done"}
    BY <1>1, <1>2 DEF Done, Arriving
<1>3. ASSUME NEW c \in AuthCall, calls[c].phase \notin {"expiring", "done"},
             NEW row, calls' = [calls EXCEPT ![c] = row]
      PROVE  calls'[o].phase \in {"expiring", "done"}
    BY <1>1, <1>3
<1>4. ASSUME NEW c \in AuthCall, NEW k \in RegistrationKey, NEW name \in DisplayName,
             NEW pw \in Password, Register(c, k, name, pw)
      PROVE  calls'[o].phase \in {"expiring", "done"}
    BY <1>2, <1>3, <1>4 DEF Register
<1>5. ASSUME NEW c \in AuthCall, NEW pw \in Password, Login(c, pw) \/ LockForChange(c, pw)
      PROVE  calls'[o].phase \in {"expiring", "done"}
    BY <1>2, <1>3, <1>5 DEF Login, LockForChange
<1>6. ASSUME NEW c \in AuthCall,
             Recover(c) \/ Verify(c) \/ OpenSession(c) \/ CountFailure(c) \/ ChangePassword(c)
      PROVE  calls'[o].phase \in {"expiring", "done"}
    BY <1>2, <1>3, <1>6 DEF Recover, Verify, OpenSession, CountFailure, ChangePassword
<1>7. ASSUME NEW c \in AuthCall,
             SetExpiry(c) \/ Logout(c) \/ Abort(c) \/ \E ok \in BOOLEAN : ClearFailures(c, ok)
      PROVE  calls'[o].phase \in {"expiring", "done"}
    BY <1>2, <1>7 DEF SetExpiry, Logout, Abort, ClearFailures
<1>8. ASSUME NEW c \in AuthCall, NEW s \in AuthCall, Authenticate(c, s)
      PROVE  calls'[o].phase \in {"expiring", "done"}
    BY <1>3, <1>8 DEF Authenticate
<1>9. (\E s \in AuthCall : SessionExpires(s)) \/ WindowEnds \/ UNCHANGED accVars
      => UNCHANGED calls
    BY DEF SessionExpires, WindowEnds, accVars
<1> QED BY <1>4, <1>5, <1>6, <1>7, <1>8, <1>9 DEF AccNext

\* The requests that have ended can be counted.
LEMMA EndedType ==
    /\ IsFiniteSet(FinishedCalls) /\ Cardinality(FinishedCalls) \in Nat
    /\ Cardinality(FinishedCalls) <= Cardinality(AuthCall)
    /\ Cardinality(AuthCall) \in Nat
<1>1. FinishedCalls \subseteq AuthCall
    BY DEF FinishedCalls
<1> QED BY <1>1, AccAssumption, FS_Subset, FS_CardinalityType

\* Who counts a failure has not ended before and has ended then.
LEMMA FailuresStep ==
    ASSUME AccInvariant, [AccNext]_accVars
    PROVE  FailuresCounted'
<1>0. AccTypes /\ FailuresCounted /\ failures.count \in Nat
    BY DEF AccInvariant, AccTypes
<1>1. FinishedCalls \subseteq FinishedCalls'
    BY <1>0, EndedStays DEF FinishedCalls
<1>2. FinishedCalls' \subseteq AuthCall
    BY DEF FinishedCalls
<1>3. PICK k, m \in Nat :
          k = Cardinality(FinishedCalls) /\ m = Cardinality(FinishedCalls') /\ k <= m
    <2>1. IsFiniteSet(FinishedCalls')
        BY <1>2, AccAssumption, FS_Subset
    <2> QED BY <1>1, <2>1, EndedType, FS_Subset, FS_CardinalityType
<1>4. CASE failures'.count = failures.count \/ failures'.count = 0
    BY <1>0, <1>3, <1>4 DEF FailuresCounted
<1>5. ASSUME NEW c \in AuthCall, CountFailure(c) PROVE FailuresCounted'
    <2>1. c \notin FinishedCalls /\ c \in FinishedCalls'
        BY <1>0, <1>5 DEF CountFailure, Done, Arriving, FinishedCalls, AccTypes, CallRow
    <2>2. Cardinality(FinishedCalls \cup {c}) = k + 1
        BY <1>3, <2>1, EndedType, FS_AddElement
    <2>3. FinishedCalls \cup {c} \subseteq FinishedCalls' /\ IsFiniteSet(FinishedCalls')
        BY <1>1, <1>2, <2>1, AccAssumption, FS_Subset
    <2>4. k + 1 <= m
        BY <1>3, <2>2, <2>3, FS_Subset
    <2>5. failures'.count = failures.count + 1
        BY <1>0, <1>5 DEF CountFailure, AccTypes
    <2> QED BY <1>0, <1>3, <2>4, <2>5 DEF FailuresCounted
<1>6. \/ UNCHANGED failures \/ failures' = NoFailures
      \/ failures' = [failures EXCEPT !.expires = TRUE]
      \/ \E c \in AuthCall : CountFailure(c)
    BY DEF AccNext, Register, Login, LockForChange, Recover, Verify, OpenSession,
       SetExpiry, ChangePassword, Logout, Abort, ClearFailures, Authenticate,
       SessionExpires, WindowEnds, accVars
<1>7. UNCHANGED failures \/ failures' = NoFailures \/ failures' = [failures EXCEPT !.expires = TRUE]
      => failures'.count = failures.count \/ failures'.count = 0
    BY <1>0 DEF NoFailures, AccTypes
<1> QED BY <1>4, <1>5, <1>6, <1>7

\* The initial state.
LEMMA AccStarts == AccInit => AccInvariant
<1> SUFFICES ASSUME AccInit PROVE AccInvariant
    OBVIOUS
<1>1. 0 \in 0..MaxPasswords
    BY AccAssumption
<1>2. authSessions \in [AuthCall -> SessionRow] /\ calls \in [AuthCall -> CallRow]
    BY <1>1 DEF AccInit, SessionRow, CallRow, Arriving
<1>3. \A c \in AuthCall : authSessions[c].state = "none" /\ calls[c].phase = "new"
    BY DEF AccInit, Arriving
<1>4. failures \in [count : Nat, expires : BOOLEAN] /\ failures.count = 0
    BY DEF AccInit, NoFailures
<1>5. authMishaps \in 0..AuthMishaps
    BY AccAssumption DEF AccInit
<1>6. AccTypes
    BY <1>2, <1>4, <1>5 DEF AccTypes, AccInit
<1>7. RowHeld /\ SessionsFit
    BY <1>3 DEF RowHeld, SessionsFit
<1>8. FailuresCounted
    BY <1>4, EndedType DEF FailuresCounted
<1> QED BY <1>6, <1>7, <1>8 DEF AccInvariant

\* The parts together are inductive, for any number of requests and passwords.
THEOREM AccountsInvariance == AccSpec => []AccInvariant
<1>1. AccInvariant /\ [AccNext]_accVars => AccInvariant'
    BY AccTypesStep, RowHeldStep, SessionsStep, FailuresStep DEF AccInvariant
<1> QED BY <1>1, AccStarts, PTL DEF AccSpec

\* Requests, sessions and the counter keep their types; a request counts one failed login at
\* most, so the counter never exceeds the requests (login, _record_failed_login).
THEOREM AccountsTypes == AccSpec => []AccTypeOK
<1>1. AccInvariant => AccTypeOK
    <2> SUFFICES ASSUME AccInvariant PROVE AccTypeOK
        OBVIOUS
    <2>1. /\ account.version \in 0..MaxPasswords
          /\ account # NoAccount => account.password \in Password
        BY AccAssumption DEF AccInvariant, AccTypes, AccountRow, NoAccount
    <2>2. failures \in [count : 0..Cardinality(AuthCall), expires : BOOLEAN]
        <3>1. failures.count \in 0..Cardinality(AuthCall)
            BY EndedType DEF AccInvariant, AccTypes, FailuresCounted
        <3> QED BY <3>1 DEF AccInvariant, AccTypes
    <2>3. \A c \in AuthCall : calls[c] \in CallRow
        BY DEF AccInvariant, AccTypes
    <2> QED BY <2>1, <2>2, <2>3 DEF AccInvariant, AccTypes, AccTypeOK, SessionRow, CallRow
<1> QED BY <1>1, AccountsInvariance, PTL

\* After a change of the password no session of an earlier one lives, whatever requests were
\* verified before it: the row of the user is locked from the verification to the commit
\* (login, _recover_registration, change_password).
THEOREM NoSessionOutlivesPassword == AccSpec => []SessionsOfThisPassword
<1>1. AccInvariant => SessionsOfThisPassword
    BY DEF AccInvariant, SessionsFit, SessionsOfThisPassword
<1> QED BY <1>1, AccountsInvariance, PTL

-----------------------------------------------------------------------------
(***************************************************************************)
(* The collector.                                                          *)
(***************************************************************************)
CollectorAt == {"idle", "turn", "call", "sending", "received", "finishing", "take", "state",
                "candidates", "searched", "report"}

\* The process is at one of its places, and its other fields are there.
RunFits(r) ==
    r \in [at : CollectorAt, stage : {r.stage}, i : {r.i}, retry : {r.retry},
           retrying : {r.retrying}, answer : {r.answer}, added : {r.added},
           then : {"turn", "report", "searched"}, moved : {r.moved}]

\* A billed answer that is not in the ledger yet.
OnTheWay == IF run.at \in {"received", "finishing"} /\ run.answer = "ok" THEN 1 ELSE 0

LedgerFits ==
    /\ IsFiniteSet(reserved) /\ Cardinality(reserved) <= CapAttempts
    /\ DOMAIN sentOut \subseteq reserved /\ DOMAIN finished \subseteq reserved
    /\ \A q \in DOMAIN sentOut : sentOut[q] = 1

\* A request that has been reserved by the running process has not left before, and it can
\* still be paid for.
RequestFits ==
    /\ run.at = "sending" => RequestKey \in reserved \ DOMAIN sentOut
    /\ run.at \in {"sending", "received", "finishing"} =>
          RequestKey \in reserved \ DOMAIN finished /\ Successes < CapSuccesses

PaymentsFit ==
    /\ paid \in Nat /\ crashes \in 0..Crashes
    /\ Successes <= CapSuccesses
    /\ paid <= Successes + (Crashes - crashes) + OnTheWay

ColInvariant == RunFits(run) /\ LedgerFits /\ RequestFits /\ PaymentsFit

\* Nothing has been reserved, sent or paid.
LEMMA ColStarts == ColInit => ColInvariant
<1> SUFFICES ASSUME ColInit PROVE ColInvariant
    OBVIOUS
<1> USE DEF ColInit
<1>1. RunFits(run) /\ run.at = "idle"
    BY DEF RunFits, CollectorAt, Idle
<1>2. LedgerFits
    BY FS_EmptySet, ColAssumption DEF LedgerFits
<1>3. Successes = 0
    <2>1. {q \in DOMAIN finished : finished[q] = "ok"} = {}
        OBVIOUS
    <2> QED BY <2>1, FS_EmptySet DEF Successes
<1>4. PaymentsFit
    BY <1>1, <1>3, ColAssumption DEF PaymentsFit, OnTheWay
<1>5. RequestFits
    BY <1>1 DEF RequestFits
<1> QED BY <1>1, <1>2, <1>4, <1>5 DEF ColInvariant

\* The paid answers of the ledger are finitely many.
LEMMA SuccessesCount ==
    ASSUME LedgerFits
    PROVE  Successes \in Nat
<1>1. {q \in DOMAIN finished : finished[q] = "ok"} \subseteq reserved
    BY DEF LedgerFits
<1> QED BY <1>1, FS_Subset, FS_CardinalityType DEF LedgerFits, Successes

\* Steps that leave the ledger, what was sent and what was paid alone, outside of a request.
Aloof ==
    /\ run.at \notin {"sending", "received", "finishing"}
    /\ run'.at \notin {"sending", "received", "finishing"}
    /\ UNCHANGED <<reserved, finished, sentOut, paid, crashes>>

\* They disturb no part of the invariant.
LEMMA AloofKeeps ==
    ASSUME ColInvariant, Aloof, RunFits(run')
    PROVE  ColInvariant'
<1>1. LedgerFits' /\ RunFits(run)'
    BY DEF ColInvariant, Aloof, LedgerFits, RunFits
<1>2. RequestFits'
    BY DEF Aloof, RequestFits
<1>3. Successes' = Successes /\ OnTheWay = 0 /\ OnTheWay' = 0
    BY DEF Aloof, Successes, OnTheWay
<1>4. PaymentsFit'
    BY <1>3 DEF ColInvariant, Aloof, PaymentsFit
<1> QED BY <1>1, <1>2, <1>4 DEF ColInvariant

\* Choosing the next platform or round.
LEMMA TurnsKeep ==
    ASSUME ColInvariant, SmokeTurn \/ CollectTurn
    PROVE  ColInvariant'
<1>1. RunFits(run) /\ run.at = "turn"
    BY DEF ColInvariant, SmokeTurn, CollectTurn
<1>2. UNCHANGED <<reserved, finished, sentOut, paid, crashes>>
    BY DEF SmokeTurn, CollectTurn, Elsewhere
<1>3. CASE SmokeTurn
    <2>1. ASSUME NEW then \in {"turn", "report"},
                 run' = [run EXCEPT !.at = "state", !.stage = "collect", !.i = 0,
                                              !.then = then]
          PROVE  RunFits(run') /\ run'.at = "state"
        BY <1>1, <2>1 DEF RunFits, CollectorAt
    <2>2. ASSUME run' = [run EXCEPT !.i = @ + 1] \/ run' = [run EXCEPT !.at = "call", !.retry = 0]
          PROVE  RunFits(run') /\ run'.at \in {"turn", "call"}
        BY <1>1, <2>2 DEF RunFits, CollectorAt
    <2>3. RunFits(run') /\ run'.at \in {"turn", "call", "state"}
        BY <1>3, <2>1, <2>2 DEF SmokeTurn
    <2> QED BY <1>1, <1>2, <2>3, AloofKeeps DEF Aloof
<1>4. CASE CollectTurn
    <2>1. \/ \E at \in {run.at, "report"} :
                 run' = [run EXCEPT !.i = 1, !.moved = FALSE, !.at = at]
          \/ run' = [run EXCEPT !.i = @ + 1]
          \/ run' = [run EXCEPT !.at = "call", !.retry = 0, !.moved = TRUE]
        BY <1>4 DEF CollectTurn
    <2>2. RunFits(run') /\ run'.at \in {"turn", "report", "call"}
        BY <1>1, <2>1 DEF RunFits, CollectorAt
    <2> QED BY <1>1, <1>2, <2>2, AloofKeeps DEF Aloof
<1> QED BY <1>3, <1>4

\* Reading and writing the files, and what needs no request.
LEMMA FilesKeep ==
    ASSUME ColInvariant,
           \/ \E retrying \in BOOLEAN : StartCollecting(retrying)
           \/ Cached \/ Refused \/ Take \/ SaveState \/ SaveCandidates \/ SmokeSearched
           \/ \E then \in {"turn", "report"} : CollectSearched(then)
           \/ WriteOutputs
    PROVE  ColInvariant'
<1>1. /\ run.at \notin {"sending", "received", "finishing"}
      /\ UNCHANGED <<reserved, finished, sentOut, paid, crashes>>
    BY Zenon DEF StartCollecting, Cached, Refused, Take, SaveState, SaveCandidates, SmokeSearched,
       CollectSearched, WriteOutputs, Elsewhere
<1>2. RunFits(run)
    BY DEF ColInvariant
<1>3. RunFits(run') /\ run'.at \notin {"sending", "received", "finishing"}
    <2>1. ASSUME NEW retrying \in BOOLEAN, StartCollecting(retrying)
          PROVE  RunFits(run') /\ run'.at = "turn"
        BY <2>1 DEF StartCollecting, RunFits, Idle, CollectorAt
    <2>2. ASSUME Cached \/ Refused
          PROVE  RunFits(run') /\ run'.at \in {"take", "call", "report"}
        BY <1>2, <2>2 DEF Cached, Refused, To, RunFits, CollectorAt
    <2>3. CASE Take
        <3>1. PICK n : run' = [run EXCEPT !.at = "state", !.then = "searched", !.added = n]
            BY <2>3, Zenon DEF Take
        <3> QED BY <1>2, <3>1 DEF RunFits, CollectorAt
    <2>4. CASE SaveState
        BY <1>2, <2>4 DEF SaveState, To, RunFits, CollectorAt
    <2>5. CASE SaveCandidates
        BY <1>2, <2>5 DEF SaveCandidates, RunFits, CollectorAt
    <2>6. CASE SmokeSearched
        BY <1>2, <2>6 DEF SmokeSearched, To, RunFits, CollectorAt
    <2>7. ASSUME NEW then \in {"turn", "report"}, CollectSearched(then)
          PROVE  RunFits(run') /\ run'.at = "state"
        <3>1. run' = [run EXCEPT !.at = "state", !.then = then]
            BY <2>7, Zenon DEF CollectSearched
        <3> QED BY <1>2, <3>1 DEF RunFits, CollectorAt
    <2>8. CASE WriteOutputs
        BY <2>8 DEF WriteOutputs, RunFits, Idle, CollectorAt
    <2> QED BY <2>1, <2>2, <2>3, <2>4, <2>5, <2>6, <2>7, <2>8
<1> QED BY <1>1, <1>3, AloofKeeps DEF Aloof

\* Only the place of the process and the answer it holds change: the request stays the same.
SameRequest ==
    /\ \E at \in CollectorAt : \E answer \in {run.answer, "ok", "billable", "nonbillable", "none"} :
          run' = [run EXCEPT !.at = at, !.answer = answer]
    /\ mem' = mem

\* The program keeps its page while a request is under way.
LEMMA SameRequestKeeps ==
    ASSUME RunFits(run), SameRequest
    PROVE  RunFits(run') /\ RequestKey' = RequestKey
<1>1. PICK at \in CollectorAt, answer \in {run.answer, "ok", "billable", "nonbillable", "none"} :
          run' = [run EXCEPT !.at = at, !.answer = answer]
    BY DEF SameRequest
<1>2. RunFits(run')
    BY <1>1 DEF RunFits
<1>3. run'.i = run.i /\ run'.stage = run.stage /\ run'.retry = run.retry /\ mem' = mem
    BY <1>1 DEF RunFits, SameRequest
<1>4. RequestKey' = RequestKey
    BY <1>3 DEF RequestKey, P, Progress, KeywordNo, PageNo
<1> QED BY <1>2, <1>4

\* A reservation leaves both caps unpassed (RequestLedger.reserve).
LEMMA ReserveKeeps ==
    ASSUME ColInvariant, Reserve
    PROVE  ColInvariant'
<1>1. /\ run.at = "call" /\ run' = [run EXCEPT !.at = "sending"]
      /\ RequestKey \notin reserved /\ Cardinality(reserved) < CapAttempts
      /\ Successes < CapSuccesses
      /\ reserved' = reserved \cup {RequestKey} /\ mem' = mem
      /\ UNCHANGED <<finished, sentOut, paid, crashes>>
    <2>1. Cardinality(reserved) \in Nat /\ Successes \in Nat
        BY SuccessesCount, FS_CardinalityType DEF ColInvariant, LedgerFits
    <2> QED BY <2>1, ColAssumption DEF Reserve, To, Known, Capped
<1>2. RunFits(run) /\ LedgerFits /\ PaymentsFit
    BY DEF ColInvariant
<1>3. run'.at = "sending" /\ SameRequest
    <2>1. run' = [run EXCEPT !.at = "sending", !.answer = run.answer]
        BY <1>1, <1>2 DEF RunFits
    <2> QED BY <1>1, <1>2, <2>1 DEF SameRequest, RunFits, CollectorAt
<1>4. RunFits(run)' /\ RequestKey' = RequestKey
    BY <1>2, <1>3, SameRequestKeeps DEF RunFits
<1>5. LedgerFits'
    <2>1. IsFiniteSet(reserved') /\ Cardinality(reserved') = Cardinality(reserved) + 1
        BY <1>1, <1>2, FS_AddElement DEF LedgerFits
    <2>2. Cardinality(reserved) \in Nat
        BY <1>2, FS_CardinalityType DEF LedgerFits
    <2>3. Cardinality(reserved') <= CapAttempts
        BY <1>1, <2>1, <2>2, ColAssumption
    <2> QED BY <1>1, <1>2, <2>1, <2>3 DEF LedgerFits
<1>6. Successes' = Successes
    BY <1>1 DEF Successes
<1>7. RequestFits'
    BY <1>1, <1>2, <1>3, <1>4, <1>6 DEF RequestFits, LedgerFits
<1>8. PaymentsFit'
    BY <1>1, <1>2, <1>3, <1>6 DEF PaymentsFit, OnTheWay
<1> QED BY <1>4, <1>5, <1>7, <1>8 DEF ColInvariant

\* The successes of a ledger with one more entry, for a request that had none.
LEMMA SuccessesWith ==
    ASSUME LedgerFits, RequestKey \in reserved \ DOMAIN finished, NEW value,
           finished' = With(finished, value)
    PROVE  /\ DOMAIN finished' = DOMAIN finished \cup {RequestKey}
           /\ Successes' = IF value = "ok" THEN Successes + 1 ELSE Successes
<1> DEFINE Paid == {q \in DOMAIN finished : finished[q] = "ok"}
<1>1. /\ DOMAIN finished' = DOMAIN finished \cup {RequestKey}
      /\ \A q \in DOMAIN finished' : finished'[q] = IF q = RequestKey THEN value ELSE finished[q]
    BY DEF With
<1>2. {q \in DOMAIN finished' : finished'[q] = "ok"} =
          IF value = "ok" THEN Paid \cup {RequestKey} ELSE Paid
    BY <1>1
<1>3. IsFiniteSet(Paid) /\ RequestKey \notin Paid
    BY FS_Subset DEF LedgerFits
<1>4. Cardinality(Paid \cup {RequestKey}) = Cardinality(Paid) + 1
    BY <1>3, FS_AddElement
<1> QED BY <1>1, <1>2, <1>4 DEF Successes

\* Leaving is counted once, and a paid answer is on its way to the ledger (JustOneClient.call).
LEMMA SendKeeps ==
    ASSUME ColInvariant, NEW answer \in {"ok", "billable", "nonbillable", "none"}, Send(answer)
    PROVE  ColInvariant'
<1> DEFINE next == IF answer = "none" THEN "report" ELSE "received"
<1>1. /\ run.at = "sending" /\ run' = [run EXCEPT !.at = next, !.answer = answer]
      /\ mem' = mem /\ reserved' = reserved /\ crashes' = crashes
      /\ paid' = IF answer = "ok" THEN paid + 1 ELSE paid
      /\ finished' = IF answer = "none" THEN With(finished, "transport_error") ELSE finished
    BY DEF Send
<1>2. RunFits(run) /\ LedgerFits /\ PaymentsFit /\ RequestFits
    BY DEF ColInvariant
<1>3. /\ RequestKey \in reserved /\ RequestKey \notin DOMAIN sentOut
      /\ RequestKey \notin DOMAIN finished /\ Successes < CapSuccesses
    BY <1>1, <1>2 DEF RequestFits
<1>4. SameRequest /\ run'.at = next /\ run'.answer = answer
    BY <1>1, <1>2 DEF SameRequest, RunFits, CollectorAt
<1>5. RunFits(run)' /\ RequestKey' = RequestKey
    BY <1>2, <1>4, SameRequestKeeps DEF RunFits
<1>6. /\ DOMAIN finished' \subseteq DOMAIN finished \cup {RequestKey}
      /\ Successes' = Successes
      /\ answer # "none" => finished' = finished
    <2>1. CASE answer = "none"
        BY <1>1, <1>2, <1>3, <2>1, SuccessesWith
    <2>2. CASE answer # "none"
        BY <1>1, <2>2 DEF Successes
    <2> QED BY <2>1, <2>2
<1>7. /\ DOMAIN sentOut' = DOMAIN sentOut \cup {RequestKey}
      /\ \A q \in DOMAIN sentOut' : sentOut'[q] = IF q = RequestKey THEN 1 ELSE sentOut[q]
    BY <1>3 DEF Send, With
<1>8. LedgerFits'
    BY <1>1, <1>2, <1>3, <1>6, <1>7 DEF LedgerFits
<1>9. RequestFits'
    BY <1>1, <1>3, <1>4, <1>5, <1>6 DEF RequestFits
<1>10. PaymentsFit'
    <2>1. OnTheWay = 0 /\ OnTheWay' = IF answer = "ok" THEN 1 ELSE 0
        BY <1>1, <1>4 DEF OnTheWay
    <2>2. Successes \in Nat
        BY <1>2, SuccessesCount
    <2> QED BY <1>1, <1>2, <1>6, <2>1, <2>2, ColAssumption DEF PaymentsFit
<1> QED BY <1>5, <1>8, <1>9, <1>10 DEF ColInvariant

\* The raw answer is written before the ledger knows of it.
LEMMA WriteRawKeeps ==
    ASSUME ColInvariant, WriteRaw
    PROVE  ColInvariant'
<1>1. /\ run.at = "received" /\ run' = [run EXCEPT !.at = "finishing"] /\ mem' = mem
      /\ UNCHANGED <<reserved, finished, sentOut, paid, crashes>>
    BY DEF WriteRaw, To
<1>2. RunFits(run) /\ LedgerFits /\ PaymentsFit /\ RequestFits
    BY DEF ColInvariant
<1>3. run'.at = "finishing" /\ run'.answer = run.answer /\ SameRequest
    <2>1. run' = [run EXCEPT !.at = "finishing", !.answer = run.answer]
        BY <1>1, <1>2 DEF RunFits
    <2> QED BY <1>1, <1>2, <2>1 DEF SameRequest, RunFits, CollectorAt
<1>4. RunFits(run)' /\ RequestKey' = RequestKey
    BY <1>2, <1>3, SameRequestKeeps DEF RunFits
<1>5. Successes' = Successes /\ OnTheWay' = OnTheWay
    BY <1>1, <1>3 DEF Successes, OnTheWay
<1>6. LedgerFits'
    BY <1>1, <1>2 DEF LedgerFits
<1>7. RequestFits'
    BY <1>1, <1>2, <1>3, <1>4, <1>5 DEF RequestFits
<1>8. PaymentsFit'
    BY <1>1, <1>2, <1>5 DEF PaymentsFit
<1> QED BY <1>4, <1>6, <1>7, <1>8 DEF ColInvariant

\* The entry in the ledger takes over the payment that was on its way (RequestLedger.finish).
LEMMA FinishKeeps ==
    ASSUME ColInvariant, FinishRequest
    PROVE  ColInvariant'
<1> DEFINE next == IF run.answer = "ok" THEN "take" ELSE "report"
           entry == IF run.answer = "ok" THEN "ok" ELSE "provider_error"
<1>1. /\ run.at = "finishing" /\ run' = [run EXCEPT !.at = next] /\ mem' = mem
      /\ finished' = With(finished, entry)
      /\ UNCHANGED <<reserved, sentOut, paid, crashes>>
    BY DEF FinishRequest, To
<1>2. RunFits(run) /\ LedgerFits /\ PaymentsFit /\ RequestFits
    BY DEF ColInvariant
<1>3. RequestKey \in reserved \ DOMAIN finished /\ Successes < CapSuccesses
    BY <1>1, <1>2 DEF RequestFits
<1>4. RunFits(run)' /\ run'.at = next
    BY <1>1, <1>2 DEF RunFits, CollectorAt
<1>5. /\ DOMAIN finished' = DOMAIN finished \cup {RequestKey}
      /\ Successes' = IF run.answer = "ok" THEN Successes + 1 ELSE Successes
    BY <1>1, <1>2, <1>3, SuccessesWith
<1>6. LedgerFits'
    BY <1>1, <1>2, <1>3, <1>5 DEF LedgerFits
<1>7. RequestFits'
    BY <1>4 DEF RequestFits
<1>8. PaymentsFit'
    <2>1. OnTheWay = (IF run.answer = "ok" THEN 1 ELSE 0) /\ OnTheWay' = 0
        BY <1>1, <1>4 DEF OnTheWay
    <2>2. Successes \in Nat
        BY <1>2, SuccessesCount
    <2> QED BY <1>1, <1>2, <1>3, <1>5, <2>1, <2>2, ColAssumption DEF PaymentsFit
<1> QED BY <1>4, <1>6, <1>7, <1>8 DEF ColInvariant

\* The process starts anew, having used up one of the kills; the files are as they were.
Anew ==
    /\ RunFits(run') /\ run'.at \in {"idle", "state"}
    /\ crashes > 0 /\ crashes' = crashes - 1
    /\ UNCHANGED <<reserved, finished, sentOut, paid>>

\* A killed process leaves at most one payment that no ledger knows of.
LEMMA InterruptionsKeep ==
    ASSUME ColInvariant,
           \/ Crash
           \/ \E p \in Source, k \in 1..Keywords, n \in 1..MaxPages : ImportResponse(p, k, n)
    PROVE  ColInvariant'
<1>1. Anew
    <2>1. CASE Crash
        BY <2>1 DEF Crash, Anew, RunFits, Idle, CollectorAt
    <2>2. ASSUME NEW p \in Source, NEW k \in 1..Keywords, NEW n \in 1..MaxPages,
                 ImportResponse(p, k, n)
          PROVE  Anew
        <3>1. /\ run' = [Idle EXCEPT !.at = "state", !.then = "report"]
              /\ crashes > 0 /\ crashes' = crashes - 1
              /\ UNCHANGED <<reserved, finished, sentOut, paid>>
            BY <2>2, Zenon DEF ImportResponse
        <3> QED BY <3>1 DEF Anew, RunFits, Idle, CollectorAt
    <2> QED BY <2>1, <2>2
<1>2. LedgerFits /\ PaymentsFit
    BY DEF ColInvariant
<1>3. RunFits(run)' /\ run'.at \in {"idle", "state"}
    BY <1>1 DEF Anew, RunFits
<1>4. Successes' = Successes /\ OnTheWay \in 0..1 /\ OnTheWay' = 0
    BY <1>1, <1>3 DEF Anew, Successes, OnTheWay
<1>5. LedgerFits'
    BY <1>1, <1>2 DEF Anew, LedgerFits
<1>6. RequestFits'
    BY <1>3 DEF RequestFits
<1>7. PaymentsFit'
    <2>1. Successes \in Nat
        BY <1>2, SuccessesCount
    <2> QED BY <1>1, <1>2, <1>4, <2>1, ColAssumption DEF Anew, PaymentsFit
<1> QED BY <1>3, <1>5, <1>6, <1>7 DEF ColInvariant

\* Every step of the collector preserves the invariant.
LEMMA ColStepsKeep ==
    ASSUME ColInvariant, [ColNext]_colVars
    PROVE  ColInvariant'
<1>1. CASE SmokeTurn \/ CollectTurn
    BY <1>1, TurnsKeep
<1>2. CASE \/ \E retrying \in BOOLEAN : StartCollecting(retrying)
           \/ Cached \/ Refused \/ Take \/ SaveState \/ SaveCandidates \/ SmokeSearched
           \/ \E then \in {"turn", "report"} : CollectSearched(then)
           \/ WriteOutputs
    BY <1>2, FilesKeep
<1>3. CASE Reserve
    BY <1>3, ReserveKeeps
<1>4. ASSUME NEW answer \in {"ok", "billable", "nonbillable", "none"}, Send(answer)
      PROVE  ColInvariant'
    BY <1>4, SendKeeps
<1>5. CASE WriteRaw
    BY <1>5, WriteRawKeeps
<1>6. CASE FinishRequest
    BY <1>6, FinishKeeps
<1>7. CASE \/ Crash
           \/ \E p \in Source, k \in 1..Keywords, n \in 1..MaxPages : ImportResponse(p, k, n)
    BY <1>7, InterruptionsKeep
<1>8. CASE UNCHANGED colVars
    <2>1. run' = run /\ mem' = mem /\ UNCHANGED <<reserved, finished, sentOut, paid, crashes>>
        BY <1>8 DEF colVars
    <2>2. RequestKey' = RequestKey /\ Successes' = Successes /\ OnTheWay' = OnTheWay
        BY <2>1 DEF RequestKey, P, Progress, KeywordNo, PageNo, Successes, OnTheWay
    <2>3. RunFits(run)' /\ LedgerFits'
        BY <2>1 DEF ColInvariant, RunFits, LedgerFits
    <2>4. RequestFits' /\ PaymentsFit'
        BY <2>1, <2>2 DEF ColInvariant, RequestFits, PaymentsFit
    <2> QED BY <2>3, <2>4 DEF ColInvariant
<1> QED BY <1>1, <1>2, <1>3, <1>4, <1>5, <1>6, <1>7, <1>8, Zenon DEF ColNext

\* The ledger bounds what is sent and paid for, in the collector alone.
THEOREM ColInvariance == ColSpec => []ColInvariant
<1>1. ColInit => ColInvariant
    BY ColStarts
<1>2. ColInvariant /\ [ColNext]_colVars => ColInvariant'
    BY ColStepsKeep
<1> QED BY <1>1, <1>2, PTL DEF ColSpec

\* Each payment is in the ledger, lost to a kill, or on its way below the cap.
LEMMA ColInvariantPays == ColInvariant => PaidOnceWithinCaps
<1> SUFFICES ASSUME ColInvariant PROVE PaidOnceWithinCaps
    OBVIOUS
<1>1. LedgerFits /\ PaymentsFit
    BY DEF ColInvariant
<1>2. \A q \in DOMAIN sentOut : sentOut[q] <= 1
    BY <1>1 DEF LedgerFits
<1>3. Cardinality(DOMAIN sentOut) <= CapAttempts
    <2>1. /\ IsFiniteSet(DOMAIN sentOut) /\ Cardinality(reserved) \in Nat
          /\ Cardinality(DOMAIN sentOut) <= Cardinality(reserved)
        BY <1>1, FS_Subset, FS_CardinalityType DEF LedgerFits
    <2>2. Cardinality(DOMAIN sentOut) \in Nat
        BY <2>1, FS_CardinalityType
    <2> QED BY <1>1, <2>1, <2>2, ColAssumption DEF LedgerFits
<1>4. paid <= CapSuccesses + (Crashes - crashes)
    \* A payment that is on its way was let through below the cap.
    <2>1. Successes \in Nat /\ (OnTheWay = 1 => Successes < CapSuccesses) /\ OnTheWay \in 0..1
        BY <1>1, SuccessesCount DEF ColInvariant, RequestFits, OnTheWay
    <2> QED BY <1>1, <2>1, ColAssumption DEF PaymentsFit
<1> QED BY <1>2, <1>3, <1>4 DEF PaidOnceWithinCaps

\* The collector sends no request a second time and keeps within its caps.
THEOREM CollectorKeepsItsCaps == ColSpec => []PaidOnceWithinCaps
<1> QED BY ColInvariance, ColInvariantPays, PTL

-----------------------------------------------------------------------------
(***************************************************************************)
(* What the collector has paid for.                                        *)
(***************************************************************************)
\* Where a platform's collection stands.
Position == [k : 1..(Keywords + 1), n : 1..(MaxPages + 1), sid : BOOLEAN, stalled : 0..StallLimit]
Progresses == [Source -> Position]

CollectorRun == [at : CollectorAt, stage : {"smoke", "collect"}, i : 0..(Len(Order) + 1),
                 retry : 0..Retries, retrying : BOOLEAN,
                 answer : {"none", "ok", "billable", "nonbillable"}, added : Nat,
                 then : {"turn", "report", "searched"}, moved : BOOLEAN]

FilesFit ==
    /\ stateFile \in [progress : Progresses, smoke : BOOLEAN]
    /\ mem \in [progress : Progresses, smoke : BOOLEAN, items : {mem.items}]
    /\ IsFiniteSet(savedCandidates) /\ IsFiniteSet(mem.items)

AnswersFit ==
    /\ reserved \subseteq Key /\ DOMAIN raw \subseteq reserved
    /\ \A q \in DOMAIN raw : raw[q] \in {"ok", "billable", "nonbillable"}
    /\ \A q \in DOMAIN finished : finished[q] \in {"ok", "provider_error", "transport_error"}
    /\ run.at \in {"received", "finishing"} => run.answer # "none"

\* The page of the run is taken in and is being saved.
Taken == run.at = "searched" \/ (run.at \in {"state", "candidates"} /\ run.then = "searched")
\* The run is at a page.
OnPage == Taken \/ run.at \in {"call", "sending", "received", "finishing", "take"}

\* Two positions at the same page.
SamePage(a, b) == a.k = b.k /\ a.n = b.n

\* The run asks for the page at which its platform stands, in the file also.
PageFits ==
    /\ run.at = "turn" => run.i \in 1..(Len(Order) + 1)
    /\ run.at \in {"state", "candidates"} /\ run.then = "turn" =>
          run.i \in 0..Len(Order) /\ run.stage = "collect"
    /\ OnPage =>
        /\ run.i \in 1..Len(Order)
        /\ run.stage = "collect" => Progress.k <= Keywords
        /\ P \notin imported => /\ Progress.k = KeywordNo /\ Progress.n = PageNo
                                /\ SamePage(stateFile.progress[P], Progress)

\* A page, here by its place among the pages of its platform, lies before or behind a position.
PageBefore(k, n, pr) == k < pr.k \/ (k = pr.k /\ n < pr.n)
PageAt(k, n, pr)     == k = pr.k /\ n = pr.n
AllTaken(p, k, n, items) ==
    \/ Full(p, items)
    \/ \A item \in Range(Items(Page[<<p, k, n>>])) :
           Accepted(p, item) => <<p, item.name>> \in items

\* No paid page lies beyond the position, and those before it are taken in; a platform without
\* candidates stands at its beginning.
SoundFor(p, f, items, answers) ==
    /\ CountOf(p, items) = 0 => ~f.smoke /\ f.progress[p].k = 1 /\ f.progress[p].n = 1
    /\ \A q \in DOMAIN answers :
           answers[q] = "ok" /\ q[1] = p =>
              \/ PageAt(q[2], q[3], f.progress[p])
              \/ PageBefore(q[2], q[3], f.progress[p]) /\ AllTaken(p, q[2], q[3], items)
Sound(f, items, answers, done) == \A p \in Source \ done : SoundFor(p, f, items, answers)

ProgressFits ==
    /\ Sound(stateFile, savedCandidates, raw, imported)
    /\ run.at # "idle" => Sound(mem, savedCandidates, raw, imported)
    /\ report \subseteq savedCandidates

\* The smoke test passes no platform without candidates, and the collection has them for all.
PlatformsFit ==
    /\ run.stage = "smoke" /\ (run.at = "turn" \/ OnPage) =>
          \A j \in 1..Len(Order) : j < run.i => CountOf(Order[j], savedCandidates) > 0
    /\ run.stage = "collect" /\ run.at # "idle" =>
          \A p \in Source \ imported : CountOf(p, savedCandidates) > 0

\* What the process holds and what its files hold.
InStep ==
    /\ run.at # "idle" => savedCandidates \subseteq mem.items
    /\ run.at \notin {"idle", "state", "candidates"} => mem.items = savedCandidates
    /\ run.stage = "collect" /\ run.at # "idle" /\ ~(run.at = "state" /\ run.then # "searched") =>
          \A p \in Source : SamePage(stateFile.progress[p], mem.progress[p])
    /\ Taken => /\ run.added # 0 => CountOf(P, mem.items) > 0
                /\ P \notin imported => AllTaken(P, KeywordNo, PageNo, mem.items)

SearchFits == /\ run \in CollectorRun /\ FilesFit /\ AnswersFit
              /\ PageFits /\ ProgressFits /\ PlatformsFit /\ InStep
SearchInvariant == ColInvariant /\ SearchFits

\* Candidates are only added: a platform's count does not fall.
LEMMA CountsGrow ==
    ASSUME NEW p, NEW items, NEW more, IsFiniteSet(more), items \subseteq more
    PROVE  /\ IsFiniteSet(items) /\ CountOf(p, items) \in Nat /\ CountOf(p, more) \in Nat
           /\ CountOf(p, items) <= CountOf(p, more)
           /\ Full(p, items) => Full(p, more)
<1> DEFINE Of(s) == {c \in s : c[1] = p}
<1>1. IsFiniteSet(items) /\ IsFiniteSet(Of(more))
    BY FS_Subset
<1>2. IsFiniteSet(Of(items)) /\ Cardinality(Of(items)) <= Cardinality(Of(more))
    <2>1. Of(items) \in SUBSET Of(more)
        OBVIOUS
    <2> HIDE DEF Of
    <2> QED BY <1>1, <2>1, FS_Subset
<1>3. Cardinality(Of(items)) \in Nat /\ Cardinality(Of(more)) \in Nat
    BY <1>1, <1>2, FS_CardinalityType
<1> QED BY <1>1, <1>2, <1>3, ColAssumption DEF CountOf, Full

\* A platform that has a candidate is counted for it.
LEMMA CountsAny ==
    ASSUME NEW p, NEW items, IsFiniteSet(items), NEW c \in items, c[1] = p
    PROVE  CountOf(p, items) > 0
<1> DEFINE Of == {x \in items : x[1] = p}
<1>1. IsFiniteSet(Of) /\ c \in Of
    BY FS_Subset
<1> HIDE DEF Of
<1>2. Cardinality(Of) \in Nat /\ Cardinality(Of) # 0
    BY <1>1, FS_EmptySet, FS_CardinalityType
<1>3. CountOf(p, items) = Cardinality(Of)
    BY DEF CountOf, Of
<1> QED BY <1>2, <1>3

\* Among the items of a page with some property there is a first one.
LEMMA FirstOf ==
    ASSUME NEW S \in SUBSET Nat, S # {}
    PROVE  \E i \in S : \A j \in S : i <= j
<1>1. PICK x \in S : \A y \in S : ~(<<y, x>> \in OpToRel(<, Nat))
    BY NatLessThanWellFounded, WFMin
<1>2. \A y \in S : ~(y < x)
    BY <1>1 DEF OpToRel
<1> QED BY <1>2

\* What a page adds: candidates of its platform, all of them unless there is no room.
LEMMA PageTaken ==
    ASSUME NEW p, NEW page, NEW items, IsFiniteSet(items),
           Items(page) \in Seq(Range(Items(page)))
    PROVE  /\ items \subseteq Collected(p, page, items)
           /\ IsFiniteSet(Collected(p, page, items))
           /\ \A c \in Collected(p, page, items) : c \in items \/ c[1] = p
           /\ \/ Full(p, Collected(p, page, items))
              \/ \A item \in Range(Items(page)) :
                     Accepted(p, item) => <<p, item.name>> \in Collected(p, page, items)
<1> DEFINE list == Items(page)
           full(i) == Full(p, UpTo(p, list, i, items))
           taken == {i \in DOMAIN list : Accepted(p, list[i]) /\ ~full(i)}
           new == {<<p, list[i].name>> : i \in taken}
           all == Collected(p, page, items)
<1>1. all = items \cup new
    BY DEF Collected
<1>2. DOMAIN list = 1..Len(list) /\ Len(list) \in Nat
    BY LenProperties
<1>3. IsFiniteSet(new)
    <2>1. IsFiniteSet(1..Len(list))
        BY <1>2, FS_Interval
    <2>2. taken \in SUBSET (1..Len(list))
        BY <1>2
    <2>3. IsFiniteSet(taken)
        BY <2>1, <2>2, FS_Subset
    <2>4. [i \in taken |-> <<p, list[i].name>>] \in Surjection(taken, new)
        BY DEF Surjection
    <2> HIDE DEF taken, new
    <2> QED BY <2>3, <2>4, FS_Surjection
<1>4. IsFiniteSet(all)
    BY <1>1, <1>3, FS_Union
<1>5. \A c \in all : c \in items \/ c[1] = p
    BY <1>1
<1>6. ASSUME NEW i \in DOMAIN list, Accepted(p, list[i]), <<p, list[i].name>> \notin all
      PROVE  Full(p, all)
    <2> DEFINE bad == {j \in 1..Len(list) : Accepted(p, list[j]) /\ full(j)}
    <2>1. i \in bad
        BY <1>1, <1>2, <1>6
    <2>2. PICK m \in bad : \A j \in bad : m <= j
        <3>1. bad \in SUBSET Nat /\ bad # {}
            BY <2>1
        <3> HIDE DEF bad
        <3> QED BY <3>1, FirstOf
    <2>3. UpTo(p, list, m, items) \subseteq all
        <3>1. ASSUME NEW j \in 1..(m - 1), Accepted(p, list[j])
              PROVE  <<p, list[j].name>> \in all
            <4>1. j \in 1..Len(list) /\ ~(m <= j)
                BY <1>2
            <4>2. ~full(j)
                BY <2>2, <3>1, <4>1
            <4>3. j \in taken
                BY <1>2, <3>1, <4>1, <4>2
            <4> QED BY <1>1, <4>3
        <3> HIDE DEF all
        <3> QED BY <1>1, <3>1 DEF UpTo
    <2> QED BY <1>4, <2>3, CountsGrow
<1>7. Full(p, all) \/ \A item \in Range(list) : Accepted(p, item) => <<p, item.name>> \in all
    BY <1>6 DEF Range
<1> QED BY <1>1, <1>4, <1>5, <1>7

\* The pages that can be asked for list finitely many items.
LEMMA PagesListed ==
    ASSUME NEW p \in Source, NEW k \in 1..Keywords, NEW n \in 1..(MaxPages + 1)
    PROVE  Items(Page[<<p, k, n>>]) \in Seq(Range(Items(Page[<<p, k, n>>])))
BY PageAssumption

\* What was taken in stays so.
LEMMA SoundnessStays ==
    ASSUME NEW f, NEW items, NEW answers, NEW done, NEW more, NEW further,
           Sound(f, items, answers, done), IsFiniteSet(more), items \subseteq more,
           done \subseteq further
    PROVE  Sound(f, more, answers, further)
<1> SUFFICES ASSUME NEW p \in Source \ further
             PROVE  SoundFor(p, f, more, answers)
    BY DEF Sound
<1>1. SoundFor(p, f, items, answers)
    BY DEF Sound
<1>2. CountOf(p, more) = 0 => CountOf(p, items) = 0
    BY CountsGrow
<1>3. \A k, n : AllTaken(p, k, n, items) => AllTaken(p, k, n, more)
    BY CountsGrow DEF AllTaken
<1> QED BY <1>1, <1>2, <1>3 DEF SoundFor

\* The bounds of the fields of a run, and its places.
LEMMA RunBounds ==
    /\ Len(Order) \in Nat /\ DOMAIN Order = 1..Len(Order)
    /\ 0 \in 0..Retries /\ 0 \in 0..(Len(Order) + 1) /\ 1 \in 0..(Len(Order) + 1)
    /\ "idle" \in CollectorAt /\ "turn" \in CollectorAt /\ "call" \in CollectorAt
    /\ "state" \in CollectorAt /\ "report" \in CollectorAt /\ "candidates" \in CollectorAt
    /\ "searched" \in CollectorAt
<1>1. Len(Order) \in Nat /\ DOMAIN Order = 1..Len(Order)
    BY ColAssumption, LenProperties
<1> QED BY <1>1, ColAssumption DEF CollectorAt

\* The page of the run is one that can be asked for.
LEMMA PageKnown ==
    ASSUME run \in CollectorRun, FilesFit, PageFits, OnPage
    PROVE  /\ P \in Source /\ Progress \in Position
           /\ KeywordNo \in 1..Keywords /\ PageNo \in 1..(MaxPages + 1)
           /\ RequestKey \in Key
<1>1. P \in Source
    <2>1. run.i \in DOMAIN Order
        BY ColAssumption, LenProperties DEF PageFits
    <2> QED BY <2>1 DEF P, Source, Range
<1>2. Progress \in Position
    BY <1>1 DEF FilesFit, Progresses, Progress
<1>3. KeywordNo \in 1..Keywords /\ PageNo \in 1..(MaxPages + 1)
    BY <1>2, ColAssumption DEF PageFits, KeywordNo, PageNo, Position, CollectorRun
<1>4. run.retry \in 0..Retries /\ (P = "douyin" /\ Progress.sid) \in BOOLEAN
    BY <1>2 DEF CollectorRun, Position
<1>5. RequestKey \in Key
    <2>1. PICK s \in BOOLEAN : s = (P = "douyin" /\ Progress.sid)
        BY <1>4
    <2>2. <<P, KeywordNo, PageNo, s, run.retry>> \in Key
        BY <1>1, <1>3, <1>4 DEF Key
    <2>3. RequestKey = <<P, KeywordNo, PageNo, s, run.retry>>
        BY <2>1, Zenon DEF RequestKey
    <2> QED BY <2>2, <2>3
<1> QED BY <1>1, <1>2, <1>3, <1>5

\* The run stays at its page while its place in the order does.
LEMMA PageStays ==
    ASSUME run'.i = run.i, run'.stage = run.stage, SamePage(mem'.progress[P], Progress)
    PROVE  P' = P /\ KeywordNo' = KeywordNo /\ PageNo' = PageNo /\ SamePage(Progress', Progress)
<1>1. P' = P
    BY DEF P
<1>2. Progress' = mem'.progress[P]
    BY <1>1 DEF Progress
<1>3. SamePage(Progress', Progress)
    BY <1>2
<1> QED BY <1>1, <1>3 DEF KeywordNo, PageNo, SamePage

\* Steps at a page that touch nothing but the ledger and the answers.
OnRequest ==
    /\ run.at \in {"call", "sending", "received", "finishing"}
    /\ run' \in CollectorRun /\ run'.i = run.i /\ run'.stage = run.stage
    /\ run'.at \in {"call", "sending", "received", "finishing", "take", "report"}
    /\ UNCHANGED <<mem, stateFile, savedCandidates, report, imported>>

\* They leave the run at its page.
LEMMA AskingKeeps ==
    ASSUME SearchFits, OnRequest
    PROVE  run' \in CollectorRun /\ FilesFit' /\ PageFits' /\ PlatformsFit' /\ InStep'
<1>1. /\ OnPage /\ ~Taken' /\ run'.at \notin {"idle", "turn", "state", "candidates"}
      /\ run' \in CollectorRun
    BY DEF OnRequest, OnPage, Taken
<1>2. P' = P /\ KeywordNo' = KeywordNo /\ PageNo' = PageNo /\ Progress' = Progress
    BY DEF OnRequest, P, KeywordNo, PageNo, Progress
<1>3. FilesFit'
    BY DEF OnRequest, SearchFits, FilesFit
<1>4. PageFits'
    BY <1>1, <1>2 DEF OnRequest, SearchFits, PageFits
<1>5. PlatformsFit'
    BY <1>1 DEF OnRequest, SearchFits, PlatformsFit
<1>6. InStep'
    BY <1>1 DEF OnRequest, SearchFits, InStep
<1> QED BY <1>1, <1>3, <1>4, <1>5, <1>6

\* The steps of a request, but for the one that writes the answer.
LEMMA CallsKeepSearch ==
    ASSUME ColInvariant, SearchFits,
           \/ Cached \/ Refused \/ Reserve \/ FinishRequest
           \/ \E answer \in {"ok", "billable", "nonbillable", "none"} : Send(answer)
    PROVE  SearchFits'
<1>1. OnRequest /\ raw' = raw
    <2>1. run \in CollectorRun
        BY DEF SearchFits
    <2>2. CASE Cached \/ Refused
        <3>1. /\ run.at = "call"
              /\ \/ \E at \in {"take", "report"} : run' = [run EXCEPT !.at = at]
                 \/ run.retry < Retries /\ run' = [run EXCEPT !.retry = @ + 1]
              /\ mem' = mem /\ Elsewhere
            BY <2>2 DEF Cached, Refused, To
        <3>2. ASSUME NEW at \in {"take", "report"}, run' = [run EXCEPT !.at = at]
              PROVE  OnRequest
            BY <2>1, <3>1, <3>2 DEF OnRequest, Elsewhere, CollectorRun, CollectorAt
        <3>3. CASE run.retry < Retries /\ run' = [run EXCEPT !.retry = @ + 1]
            <4>1. run.retry + 1 \in 0..Retries
                BY <2>1, <3>3, ColAssumption DEF CollectorRun
            <4> QED BY <2>1, <3>1, <3>3, <4>1 DEF OnRequest, Elsewhere, CollectorRun
        <3> QED BY <3>1, <3>2, <3>3 DEF Elsewhere
    <2>3. CASE Reserve
        BY <2>1, <2>3 DEF Reserve, OnRequest, To, CollectorRun, CollectorAt
    <2>4. CASE FinishRequest
        BY <2>1, <2>4 DEF FinishRequest, OnRequest, To, CollectorRun, CollectorAt
    <2>5. ASSUME NEW answer \in {"ok", "billable", "nonbillable", "none"}, Send(answer)
          PROVE  OnRequest /\ raw' = raw
        BY <2>1, <2>5 DEF Send, OnRequest, To, CollectorRun, CollectorAt
    <2> QED BY <2>2, <2>3, <2>4, <2>5
<1>2. AnswersFit'
    <2>1. reserved' \subseteq Key /\ reserved \subseteq reserved'
        <3>1. CASE Reserve
            <4>1. OnPage
                BY <3>1 DEF Reserve, OnPage
            <4> QED BY <3>1, <4>1, PageKnown DEF Reserve, SearchFits, AnswersFit
        <3>2. CASE ~Reserve
            BY <3>2 DEF SearchFits, AnswersFit, Cached, Refused, FinishRequest, Send, Elsewhere
        <3> QED BY <3>1, <3>2
    <2>2. \A q \in DOMAIN finished' : finished'[q] \in {"ok", "provider_error", "transport_error"}
        <3>1. \/ finished' = finished
              \/ \E value \in {"ok", "provider_error", "transport_error"} :
                     finished' = With(finished, value)
            BY DEF Cached, Refused, Reserve, FinishRequest, Send, Elsewhere
        <3> QED BY <3>1 DEF With, SearchFits, AnswersFit
    <2>3. run'.at \in {"received", "finishing"} => run'.answer # "none"
        <3>1. run \in CollectorRun /\ (run.at \in {"received", "finishing"} => run.answer # "none")
            BY DEF SearchFits, AnswersFit
        <3>2. CASE Cached \/ Refused \/ Reserve \/ FinishRequest
            BY <3>1, <3>2 DEF Cached, Refused, Reserve, FinishRequest, To, CollectorRun
        <3>3. ASSUME NEW answer \in {"ok", "billable", "nonbillable", "none"}, Send(answer)
              PROVE  run'.at \in {"received", "finishing"} => run'.answer # "none"
            BY <3>1, <3>3 DEF Send, CollectorRun
        <3> QED BY <3>2, <3>3
    <2> QED BY <1>1, <2>1, <2>2, <2>3 DEF SearchFits, AnswersFit
<1>3. ProgressFits'
    BY <1>1 DEF OnRequest, SearchFits, ProgressFits
<1> QED BY <1>1, <1>2, <1>3, AskingKeeps DEF SearchFits

\* An answer is written for the page at which the run's platform stands, in memory and in the
\* file.
LEMMA WriteKeepsSearch ==
    ASSUME ColInvariant, SearchFits, WriteRaw
    PROVE  SearchFits'
<1>1. run.at = "received" /\ OnPage /\ raw' = With(raw, run.answer)
    BY DEF WriteRaw, OnPage
<1>2. OnRequest
    BY DEF WriteRaw, SearchFits, OnRequest, To, CollectorRun, CollectorAt
<1>3. /\ DOMAIN raw' = DOMAIN raw \cup {RequestKey}
      /\ \A q \in DOMAIN raw' : raw'[q] = IF q = RequestKey THEN run.answer ELSE raw[q]
    BY <1>1 DEF With
<1>4. AnswersFit'
    <2>1. RequestKey \in reserved
        BY <1>1 DEF ColInvariant, RequestFits
    <2>2. UNCHANGED <<reserved, finished>> /\ run'.answer = run.answer
        BY DEF WriteRaw, To, SearchFits, CollectorRun
    <2>3. run.answer \in {"ok", "billable", "nonbillable"}
        BY <1>1 DEF SearchFits, AnswersFit, CollectorRun
    <2> QED BY <1>3, <2>1, <2>2, <2>3 DEF SearchFits, AnswersFit
<1>5. ASSUME NEW f, Sound(f, savedCandidates, raw, imported),
             P \notin imported => SamePage(f.progress[P], Progress)
      PROVE  Sound(f, savedCandidates, raw', imported)
    <2>1. ASSUME NEW p \in Source \ imported
          PROVE  SoundFor(p, f, savedCandidates, raw')
        <3>1. SoundFor(p, f, savedCandidates, raw)
            BY <1>5 DEF Sound
        <3>2. ASSUME p = P PROVE PageAt(RequestKey[2], RequestKey[3], f.progress[p])
            <4>1. Progress.k = KeywordNo /\ Progress.n = PageNo
                BY <1>1, <2>1, <3>2 DEF SearchFits, PageFits
            <4>2. RequestKey[2] = KeywordNo /\ RequestKey[3] = PageNo
                BY DEF RequestKey
            <4> QED BY <1>5, <2>1, <3>2, <4>1, <4>2 DEF SamePage, PageAt
        <3>3. RequestKey[1] = P
            BY DEF RequestKey
        <3>4. ASSUME NEW q \in DOMAIN raw', raw'[q] = "ok", q[1] = p
              PROVE  \/ PageAt(q[2], q[3], f.progress[p])
                     \/ /\ PageBefore(q[2], q[3], f.progress[p])
                        /\ AllTaken(p, q[2], q[3], savedCandidates)
            <4>1. CASE q = RequestKey
                BY <3>2, <3>3, <3>4, <4>1
            <4>2. CASE q # RequestKey
                BY <1>3, <3>1, <3>4, <4>2 DEF SoundFor
            <4> QED BY <4>1, <4>2
        <3> QED BY <3>1, <3>4 DEF SoundFor
    <2> QED BY <2>1 DEF Sound
<1>6. ProgressFits'
    <2>1. /\ Sound(stateFile, savedCandidates, raw, imported)
          /\ Sound(mem, savedCandidates, raw, imported)
        BY <1>1 DEF SearchFits, ProgressFits
    <2>2. P \notin imported => SamePage(stateFile.progress[P], Progress)
        BY <1>1 DEF SearchFits, PageFits
    <2>3. SamePage(mem.progress[P], Progress)
        BY DEF SamePage, Progress
    <2>4. Sound(stateFile, savedCandidates, raw', imported)
        BY <1>5, <2>1, <2>2
    <2>5. Sound(mem, savedCandidates, raw', imported)
        BY <1>5, <2>1, <2>3
    <2> QED BY <1>2, <2>4, <2>5 DEF OnRequest, SearchFits, ProgressFits
<1> QED BY <1>2, <1>4, <1>6, AskingKeeps DEF SearchFits

\* A process that ends, or is killed, leaves its files.
LEMMA EndsKeepSearch ==
    ASSUME SearchFits, WriteOutputs \/ Crash
    PROVE  SearchFits'
<1>1. /\ run' = Idle /\ mem' = NoMemory
      /\ UNCHANGED <<reserved, finished, raw, stateFile, savedCandidates, imported>>
    BY DEF WriteOutputs, Crash
<1>2. run' \in CollectorRun /\ run'.at = "idle" /\ run'.stage = "smoke"
    BY <1>1, RunBounds DEF Idle, CollectorRun
<1>3. FilesFit'
    <2>1. Start \in Position
        BY ColAssumption DEF Start, Position
    <2>2. NoMemory \in [progress : Progresses, smoke : BOOLEAN, items : {NoMemory.items}]
        BY <2>1 DEF NoMemory, Progresses
    <2>3. IsFiniteSet(NoMemory.items)
        BY FS_EmptySet DEF NoMemory
    <2> QED BY <1>1, <2>2, <2>3 DEF SearchFits, FilesFit
<1>4. AnswersFit' /\ PageFits' /\ PlatformsFit' /\ InStep'
    BY <1>1, <1>2 DEF SearchFits, AnswersFit, PageFits, OnPage, Taken, PlatformsFit, InStep
<1>5. report' \subseteq savedCandidates
    BY DEF SearchFits, ProgressFits, InStep, WriteOutputs, Crash
<1>6. ProgressFits'
    BY <1>1, <1>2, <1>5 DEF SearchFits, ProgressFits
<1> QED BY <1>2, <1>3, <1>4, <1>6 DEF SearchFits

\* A platform counts for the smoke test or it does not.
LEMMA CountsFit ==
    ASSUME FilesFit
    PROVE  \A p : CountOf(p, savedCandidates) \in Nat /\ CountOf(p, mem.items) \in Nat
BY CountsGrow DEF FilesFit

\* Soundness is about the pages of the positions and the mark of the smoke test.
LEMMA SoundnessSame ==
    ASSUME NEW f, NEW g, NEW items, NEW answers, NEW done, Sound(f, items, answers, done),
           g.smoke = f.smoke, \A p \in Source : SamePage(g.progress[p], f.progress[p])
    PROVE  Sound(g, items, answers, done)
BY DEF Sound, SoundFor, SamePage, PageAt, PageBefore

\* The process reads what its files hold.
LEMMA StartKeepsSearch ==
    ASSUME SearchFits, NEW retrying \in BOOLEAN, StartCollecting(retrying)
    PROVE  SearchFits'
<1>1. /\ mem' = [progress |-> stateFile.progress, smoke |-> stateFile.smoke,
                 items |-> savedCandidates]
      /\ UNCHANGED <<reserved, finished, raw, stateFile, savedCandidates, report, imported>>
    BY DEF StartCollecting
<1>2. /\ run' \in CollectorRun /\ run'.at = "turn" /\ run'.i = 1
      /\ run'.stage = IF stateFile.smoke THEN "collect" ELSE "smoke"
    <2>1. PICK stage_ \in {"smoke", "collect"} :
              stage_ = IF stateFile.smoke THEN "collect" ELSE "smoke"
        OBVIOUS
    <2>2. run' = [Idle EXCEPT !.at = "turn", !.retrying = retrying, !.stage = stage_]
        BY <2>1, Zenon DEF StartCollecting
    <2>3. run' \in CollectorRun
        BY <2>2, RunBounds DEF Idle, CollectorRun
    <2>4. run'.at = "turn" /\ run'.i = 1 /\ run'.stage = stage_
        BY <2>2 DEF Idle
    <2> QED BY <2>1, <2>3, <2>4
<1>3. ~OnPage' /\ ~Taken'
    BY <1>2 DEF OnPage, Taken
<1>4. FilesFit'
    BY <1>1 DEF SearchFits, FilesFit
<1>5. AnswersFit'
    BY <1>1, <1>2 DEF SearchFits, AnswersFit
<1>6. PageFits'
    <2>1. Len(Order) \in Nat
        BY ColAssumption, LenProperties
    <2> QED BY <1>2, <1>3, <2>1 DEF PageFits
<1>7. Sound(stateFile, savedCandidates, raw, imported)
    BY DEF SearchFits, ProgressFits
<1>8. ProgressFits'
    <2>1. mem'.smoke = stateFile.smoke
        BY <1>1
    <2>2. \A p \in Source : SamePage(mem'.progress[p], stateFile.progress[p])
        BY <1>1 DEF SamePage
    <2>3. Sound(mem', savedCandidates, raw, imported)
        BY <1>7, <2>1, <2>2, SoundnessSame
    <2> QED BY <1>1, <2>3 DEF SearchFits, ProgressFits
<1>9. PlatformsFit'
    <2>1. ASSUME stateFile.smoke, NEW p \in Source \ imported
          PROVE  CountOf(p, savedCandidates) > 0
        BY <1>7, <2>1, CountsFit DEF SearchFits, Sound, SoundFor
    <2>2. run'.stage = "collect" => stateFile.smoke
        BY <1>2
    <2> QED BY <1>1, <1>2, <1>3, <2>1, <2>2 DEF PlatformsFit
<1>10. InStep'
    BY <1>1, <1>2, <1>3 DEF InStep, SamePage
<1> QED BY <1>2, <1>4, <1>5, <1>6, <1>8, <1>9, <1>10 DEF SearchFits

\* Steps between pages that leave the files and the candidates alone.
BetweenPages ==
    /\ run.at # "idle" /\ run' \in CollectorRun /\ run'.at \notin {"idle", "received", "finishing"}
    /\ mem'.items = mem.items
    /\ UNCHANGED <<reserved, finished, raw, stateFile, savedCandidates, report, imported>>

\* What they keep whatever they do.
LEMMA BetweenPagesKeeps ==
    ASSUME SearchFits, BetweenPages
    PROVE  /\ run' \in CollectorRun /\ AnswersFit' /\ run.at # "idle"
           /\ Sound(mem', savedCandidates, raw, imported) => ProgressFits'
<1>1. AnswersFit'
    BY DEF BetweenPages, SearchFits, AnswersFit
<1>2. Sound(mem', savedCandidates, raw, imported) => ProgressFits'
    BY DEF BetweenPages, SearchFits, ProgressFits
<1> QED BY <1>1, <1>2 DEF BetweenPages

\* The end of the smoke test.
LEMMA SmokeEndKeeps ==
    ASSUME SearchFits, SmokeTurn, run.i > Len(Order)
    PROVE  SearchFits'
<1> DEFINE complete == \A p \in Source : CountOf(p, mem.items) > 0
<1>1. /\ run.at = "turn" /\ run.stage = "smoke" /\ mem' = [mem EXCEPT !.smoke = complete]
      /\ \E then \in {"turn", "report"} :
             run' = [run EXCEPT !.at = "state", !.stage = "collect", !.i = 0, !.then = then]
      /\ UNCHANGED <<reserved, finished, raw, stateFile, savedCandidates, report, imported>>
    BY Zenon DEF SmokeTurn, Elsewhere
<1>2. PICK then \in {"turn", "report"} :
          run' = [run EXCEPT !.at = "state", !.stage = "collect", !.i = 0, !.then = then]
    BY <1>1
<1>3. run \in CollectorRun /\ FilesFit /\ Len(Order) \in Nat
    BY ColAssumption, LenProperties DEF SearchFits
<1>4. /\ run' \in CollectorRun /\ run'.at = "state" /\ run'.stage = "collect" /\ run'.i = 0
      /\ run'.then # "searched"
    <2>1. run' \in CollectorRun
        BY <1>2, <1>3, RunBounds DEF CollectorRun
    <2>2. /\ run'.at = "state" /\ run'.stage = "collect" /\ run'.i = 0
          /\ run'.then # "searched"
        BY <1>2, <1>3 DEF CollectorRun
    <2> QED BY <2>1, <2>2
<1>5. complete \in BOOLEAN
    OBVIOUS
<1> HIDE DEF complete
<1>6. mem' = [progress |-> mem.progress, smoke |-> complete, items |-> mem.items]
    BY <1>1, <1>3 DEF FilesFit
<1>7. FilesFit'
    BY <1>1, <1>3, <1>5, <1>6 DEF FilesFit
<1>8. ~OnPage' /\ ~Taken' /\ BetweenPages
    BY <1>1, <1>4, <1>6 DEF OnPage, Taken, BetweenPages
<1>9. PageFits'
    BY <1>3, <1>4, <1>8 DEF PageFits
<1>10. mem.items = savedCandidates
    BY <1>1 DEF SearchFits, InStep
<1>11. \A p \in Source : CountOf(p, savedCandidates) > 0
    <2>1. \A j \in 1..Len(Order) : CountOf(Order[j], savedCandidates) > 0
        BY <1>1, <1>3 DEF SearchFits, PlatformsFit, CollectorRun
    <2>2. DOMAIN Order = 1..Len(Order)
        BY ColAssumption, LenProperties
    <2> QED BY <2>1, <2>2 DEF Source, Range
<1>12. Sound(mem', savedCandidates, raw, imported)
    <2>1. Sound(mem, savedCandidates, raw, imported)
        BY <1>1 DEF SearchFits, ProgressFits
    <2> QED BY <1>6, <1>11, <2>1 DEF Sound, SoundFor
<1>13. PlatformsFit'
    BY <1>1, <1>4, <1>8, <1>11 DEF PlatformsFit
<1>14. InStep'
    BY <1>1, <1>4, <1>6, <1>8, <1>10 DEF InStep
<1> QED BY <1>7, <1>8, <1>9, <1>12, <1>13, <1>14, BetweenPagesKeeps DEF SearchFits

\* A turn that begins a page or passes a platform by, of either stage.
LEMMA TurnKeepsSearch ==
    ASSUME SearchFits, (SmokeTurn /\ ~(run.i > Len(Order))) \/ CollectTurn
    PROVE  SearchFits'
<1>1. /\ run.at = "turn" /\ mem' = mem
      /\ UNCHANGED <<reserved, finished, raw, stateFile, savedCandidates, report, imported>>
    BY Zenon DEF SmokeTurn, CollectTurn, Elsewhere
<1>2. /\ run \in CollectorRun /\ FilesFit /\ Len(Order) \in Nat
      /\ run.i \in 1..(Len(Order) + 1) /\ mem.items = savedCandidates
    BY <1>1, ColAssumption, LenProperties DEF SearchFits, PageFits, InStep
<1>3. \/ run'.at = "report"
      \/ run'.at = "turn" /\ run.stage = "collect"
      \/ run'.at = "turn" /\ run.stage = "smoke" /\ run'.i = run.i + 1
         /\ CountOf(P, mem.items) > 0
      \/ run'.at = "call" /\ run.i \in 1..Len(Order) /\ run'.i = run.i
         /\ (run.stage = "smoke" => CountOf(P, mem.items) = 0)
         /\ (run.stage = "collect" => ~(Progress.k > Keywords))
    <2>1. CASE SmokeTurn /\ ~(run.i > Len(Order))
        <3>1. \/ CountOf(P, mem.items) > 0 /\ run' = [run EXCEPT !.i = @ + 1]
              \/ ~(CountOf(P, mem.items) > 0) /\ run' = [run EXCEPT !.at = "call", !.retry = 0]
            BY <2>1 DEF SmokeTurn
        <3>2. CountOf(P, mem.items) \in Nat /\ run.stage = "smoke"
            BY <1>2, <2>1, CountsFit DEF SmokeTurn
        <3>3. CASE CountOf(P, mem.items) > 0 /\ run' = [run EXCEPT !.i = @ + 1]
            BY <1>1, <1>2, <3>2, <3>3 DEF CollectorRun
        <3>4. CASE ~(CountOf(P, mem.items) > 0) /\ run' = [run EXCEPT !.at = "call", !.retry = 0]
            <4>1. run.i \in 1..Len(Order) /\ CountOf(P, mem.items) = 0
                BY <1>2, <2>1, <3>2, <3>4
            <4>2. run'.at = "call" /\ run'.i = run.i
                BY <1>2, <3>4 DEF CollectorRun
            <4> QED BY <3>2, <4>1, <4>2
        <3> QED BY <3>1, <3>3, <3>4
    <2>2. CASE CollectTurn
        <3>1. /\ run.stage = "collect"
              /\ \/ \E at \in {"turn", "report"} :
                        run' = [run EXCEPT !.i = 1, !.moved = FALSE, !.at = at]
                 \/ run' = [run EXCEPT !.i = @ + 1]
                 \/ /\ ~(run.i > Len(Order)) /\ ~(Progress.k > Keywords)
                    /\ run' = [run EXCEPT !.at = "call", !.retry = 0, !.moved = TRUE]
            BY <1>1, <2>2 DEF CollectTurn
        <3>2. ASSUME NEW at \in {"turn", "report"},
                     run' = [run EXCEPT !.i = 1, !.moved = FALSE, !.at = at]
              PROVE  run'.at = at
            BY <1>2, <3>2 DEF CollectorRun
        <3>3. CASE run' = [run EXCEPT !.i = @ + 1]
            BY <1>1, <1>2, <3>1, <3>3 DEF CollectorRun
        <3>4. CASE /\ ~(run.i > Len(Order)) /\ ~(Progress.k > Keywords)
                   /\ run' = [run EXCEPT !.at = "call", !.retry = 0, !.moved = TRUE]
            <4>1. run'.at = "call" /\ run'.i = run.i
                BY <1>2, <3>4 DEF CollectorRun
            <4> QED BY <1>2, <3>1, <3>4, <4>1
        <3> QED BY <3>1, <3>2, <3>3, <3>4
    <2> QED BY <2>1, <2>2
<1>4. /\ run' \in CollectorRun /\ run'.stage = run.stage
      /\ run'.at = "turn" => run'.i \in 1..(Len(Order) + 1)
    <2>1. CASE SmokeTurn /\ ~(run.i > Len(Order))
        <3>1. \/ run' = [run EXCEPT !.i = @ + 1]
              \/ run' = [run EXCEPT !.at = "call", !.retry = 0]
            BY <2>1 DEF SmokeTurn
        <3>2. CASE run' = [run EXCEPT !.i = @ + 1]
            <4>1. run.i + 1 \in 0..(Len(Order) + 1) /\ run.i + 1 \in 1..(Len(Order) + 1)
                BY <1>2, <2>1
            <4> QED BY <1>2, <3>2, <4>1 DEF CollectorRun, CollectorAt
        <3>3. CASE run' = [run EXCEPT !.at = "call", !.retry = 0]
            BY <1>2, <3>3, RunBounds DEF CollectorRun
        <3> QED BY <3>1, <3>2, <3>3
    <2>2. CASE CollectTurn
        <3>1. \/ \E at \in {run.at, "report"} :
                     run' = [run EXCEPT !.i = 1, !.moved = FALSE, !.at = at]
              \/ ~(run.i > Len(Order)) /\ run' = [run EXCEPT !.i = @ + 1]
              \/ run' = [run EXCEPT !.at = "call", !.retry = 0, !.moved = TRUE]
            BY <2>2 DEF CollectTurn
        <3>2. ASSUME NEW at \in {run.at, "report"},
                     run' = [run EXCEPT !.i = 1, !.moved = FALSE, !.at = at]
              PROVE  run' \in CollectorRun /\ run'.stage = run.stage /\ run'.i = 1
            BY <1>1, <1>2, <3>2, RunBounds DEF CollectorRun
        <3>3. CASE ~(run.i > Len(Order)) /\ run' = [run EXCEPT !.i = @ + 1]
            <4>1. run.i + 1 \in 0..(Len(Order) + 1) /\ run.i + 1 \in 1..(Len(Order) + 1)
                BY <1>2, <3>3
            <4> QED BY <1>2, <3>3, <4>1 DEF CollectorRun, CollectorAt
        <3>4. CASE run' = [run EXCEPT !.at = "call", !.retry = 0, !.moved = TRUE]
            BY <1>2, <3>4, RunBounds DEF CollectorRun
        <3> QED BY <1>2, <3>1, <3>2, <3>3, <3>4
    <2> QED BY <2>1, <2>2
<1>5. BetweenPages /\ ~Taken'
    BY <1>1, <1>3, <1>4 DEF BetweenPages, Taken
<1>6. FilesFit'
    BY <1>1, <1>2 DEF FilesFit
<1>7. Sound(mem, savedCandidates, raw, imported) /\ Sound(stateFile, savedCandidates, raw, imported)
    BY <1>1 DEF SearchFits, ProgressFits
<1>8. PageFits'
    <2>1. ASSUME run'.at = "call"
          PROVE  /\ run'.i \in 1..Len(Order) /\ P \in Source
                 /\ run.stage = "collect" => Progress.k <= Keywords
                 /\ P \notin imported =>
                       /\ Progress.k = KeywordNo /\ Progress.n = PageNo
                       /\ SamePage(stateFile.progress[P], Progress)
        <3>1. run'.i \in 1..Len(Order) /\ run'.i = run.i
            BY <1>3, <2>1
        <3>2. P \in Source
            <4>1. run.i \in DOMAIN Order
                BY <3>1, ColAssumption, LenProperties
            <4> QED BY <4>1 DEF P, Source, Range
        <3>3. Progress \in Position
            BY <1>2, <3>2 DEF FilesFit, Progresses, Progress
        <3>4. CASE run.stage = "smoke"
            <4>1. CountOf(P, savedCandidates) = 0
                BY <1>2, <1>3, <2>1, <3>4
            <4>2. P \notin imported => /\ Progress.k = 1 /\ Progress.n = 1
                                       /\ stateFile.progress[P].k = 1 /\ stateFile.progress[P].n = 1
                BY <1>7, <3>2, <4>1 DEF Sound, SoundFor, Progress
            <4> QED BY <3>1, <3>2, <3>4, <4>2, ColAssumption DEF KeywordNo, PageNo, SamePage
        <3>5. CASE run.stage = "collect"
            <4>1. SamePage(stateFile.progress[P], Progress)
                BY <1>1, <3>2, <3>5 DEF SearchFits, InStep, Progress
            <4>2. Progress.k <= Keywords
                BY <1>3, <2>1, <3>3, <3>5, ColAssumption DEF Position
            <4> QED BY <3>1, <3>2, <3>5, <4>1, <4>2 DEF KeywordNo, PageNo
        <3> QED BY <1>2, <3>4, <3>5 DEF CollectorRun
    <2>2. run'.at = "call" => /\ P' = P /\ KeywordNo' = KeywordNo /\ PageNo' = PageNo
                              /\ Progress' = Progress
        <3>1. run'.at = "call" => run'.i = run.i
            BY <1>3
        <3> QED BY <1>1, <1>4, <3>1 DEF P, KeywordNo, PageNo, Progress
    <2>3. run'.at \in {"turn", "report", "call"}
        BY <1>3
    <2>4. OnPage' => run'.at = "call"
        BY <2>3 DEF OnPage, Taken
    <2> QED BY <1>1, <1>4, <2>1, <2>2, <2>3, <2>4 DEF PageFits
<1>9. PlatformsFit'
    <2>1. run.stage = "smoke" =>
              \A j \in 1..Len(Order) : j < run.i => CountOf(Order[j], savedCandidates) > 0
        BY <1>1 DEF SearchFits, PlatformsFit
    <2>2. ASSUME run.stage = "smoke", run'.at \in {"turn", "call"}, NEW j \in 1..Len(Order),
                 j < run'.i
          PROVE  CountOf(Order[j], savedCandidates) > 0
        BY <1>2, <1>3, <2>1, <2>2 DEF P
    <2>3. run'.at \in {"turn", "report", "call"}
        BY <1>3
    <2>4. OnPage' => run'.at = "call"
        BY <2>3 DEF OnPage, Taken
    <2>5. run.stage = "collect" => \A p \in Source \ imported : CountOf(p, savedCandidates) > 0
        BY <1>1 DEF SearchFits, PlatformsFit
    <2> QED BY <1>1, <1>4, <2>2, <2>4, <2>5 DEF PlatformsFit
<1>10. InStep'
    <2>1. run'.at \in {"turn", "report", "call"}
        BY <1>3
    <2> QED BY <1>1, <1>2, <1>4, <1>5, <2>1 DEF SearchFits, InStep
<1> QED BY <1>1, <1>5, <1>6, <1>7, <1>8, <1>9, <1>10, BetweenPagesKeeps DEF SearchFits

\* An answer is taken in: the candidates of its page come with it (_search).
LEMMA TakeKeepsSearch ==
    ASSUME SearchFits, Take
    PROVE  SearchFits'
<1> DEFINE items == Collected(P, ThisPage, mem.items)
           sid == Progress.sid \/ P = "douyin"
           added == Cardinality(items) - Cardinality(mem.items)
<1>1. /\ run.at = "take" /\ OnPage
      /\ UNCHANGED <<reserved, finished, raw, stateFile, savedCandidates, report, imported>>
    BY Zenon DEF Take, Elsewhere, OnPage
<1>2. run \in CollectorRun /\ FilesFit /\ PageFits /\ mem.items = savedCandidates
    BY <1>1 DEF SearchFits, InStep
<1>3. /\ P \in Source /\ Progress \in Position
      /\ KeywordNo \in 1..Keywords /\ PageNo \in 1..(MaxPages + 1)
    BY <1>1, <1>2, PageKnown
<1>4. /\ mem.items \subseteq items /\ IsFiniteSet(items)
      /\ \A c \in items : c \in mem.items \/ c[1] = P
      /\ AllTaken(P, KeywordNo, PageNo, items)
    <2>1. Items(ThisPage) \in Seq(Range(Items(ThisPage)))
        BY <1>3, PagesListed DEF ThisPage
    <2>2. IsFiniteSet(mem.items)
        BY <1>2 DEF FilesFit
    <2>3. /\ mem.items \subseteq items /\ IsFiniteSet(items)
          /\ \A c \in items : c \in mem.items \/ c[1] = P
          /\ \/ Full(P, items)
             \/ \A item \in Range(Items(ThisPage)) :
                    Accepted(P, item) => <<P, item.name>> \in items
        BY <2>1, <2>2, PageTaken
    <2> QED BY <2>3 DEF AllTaken, ThisPage
<1>5. added \in Nat /\ (added # 0 => CountOf(P, items) > 0)
    <2>1. /\ Cardinality(items) \in Nat /\ Cardinality(mem.items) \in Nat
          /\ Cardinality(mem.items) <= Cardinality(items)
        BY <1>4, FS_Subset, FS_CardinalityType
    <2>2. ASSUME added # 0 PROVE CountOf(P, items) > 0
        <3>1. items # mem.items
            BY <2>1, <2>2
        <3>2. PICK c \in items : c[1] = P
            BY <1>4, <3>1
        <3> QED BY <1>4, <3>2, CountsAny
    <2> QED BY <2>1, <2>2
<1>6. run' = [run EXCEPT !.at = "state", !.then = "searched", !.added = added]
    BY Zenon DEF Take
<1>7. sid \in BOOLEAN
    OBVIOUS
<1>8. /\ mem'.items = items /\ mem'.smoke = mem.smoke
      /\ mem'.progress = [mem.progress EXCEPT ![P] = [Progress EXCEPT !.sid = sid]]
      /\ mem' = [progress |-> mem'.progress, smoke |-> mem.smoke, items |-> items]
    BY <1>2, <1>3 DEF Take, FilesFit, Progresses, Progress
<1> HIDE DEF items, added, sid
<1>9. /\ run' \in CollectorRun /\ run'.at = "state" /\ run'.then = "searched"
      /\ run'.stage = run.stage /\ run'.i = run.i /\ run'.added = added
    BY <1>2, <1>5, <1>6, RunBounds DEF CollectorRun
<1>10. [Progress EXCEPT !.sid = sid] \in Position
    BY <1>3, <1>7 DEF Position
<1>11. mem'.progress \in Progresses
    BY <1>2, <1>3, <1>8, <1>10 DEF FilesFit, Progresses
<1>12. FilesFit'
    BY <1>1, <1>2, <1>4, <1>8, <1>11 DEF FilesFit
<1>13. \A p \in Source : SamePage(mem'.progress[p], mem.progress[p])
    BY <1>2, <1>3, <1>8 DEF FilesFit, Progresses, Progress, SamePage, Position
<1>14. P' = P /\ KeywordNo' = KeywordNo /\ PageNo' = PageNo /\ SamePage(Progress', Progress)
    <2>1. SamePage(mem'.progress[P], Progress)
        BY <1>3, <1>13 DEF Progress
    <2> QED BY <1>9, <2>1, PageStays
<1>15. OnPage' /\ Taken'
    BY <1>9 DEF OnPage, Taken
<1>16. PageFits'
    <2>1. /\ run.i \in 1..Len(Order)
          /\ run.stage = "collect" => Progress.k <= Keywords
          /\ P \notin imported => /\ Progress.k = KeywordNo /\ Progress.n = PageNo
                                  /\ SamePage(stateFile.progress[P], Progress)
        BY <1>1, <1>2 DEF PageFits
    <2> QED BY <1>1, <1>9, <1>14, <1>15, <2>1 DEF PageFits, SamePage
<1>17. ProgressFits'
    <2>1. Sound(mem, savedCandidates, raw, imported)
        BY <1>1 DEF SearchFits, ProgressFits
    <2>2. Sound(mem', savedCandidates, raw, imported)
        BY <1>8, <1>13, <2>1, SoundnessSame
    <2> QED BY <1>1, <2>2 DEF SearchFits, ProgressFits
<1>18. AnswersFit'
    BY <1>1, <1>9 DEF SearchFits, AnswersFit
<1>19. PlatformsFit'
    BY <1>1, <1>9, <1>15 DEF SearchFits, PlatformsFit
<1>20. InStep'
    <2>1. run.stage = "collect" =>
              \A p \in Source : SamePage(stateFile.progress[p], mem.progress[p])
        BY <1>1 DEF SearchFits, InStep
    <2>2. run.stage = "collect" =>
              \A p \in Source : SamePage(stateFile.progress[p], mem'.progress[p])
        BY <1>13, <2>1 DEF SamePage
    <2>3. /\ run'.added # 0 => CountOf(P', mem'.items) > 0
          /\ AllTaken(P', KeywordNo', PageNo', mem'.items)
        BY <1>4, <1>5, <1>8, <1>9, <1>14
    <2>4. savedCandidates \subseteq mem'.items
        BY <1>2, <1>4, <1>8
    <2> QED BY <1>1, <1>9, <2>2, <2>3, <2>4 DEF InStep
<1> QED BY <1>9, <1>12, <1>16, <1>17, <1>18, <1>19, <1>20 DEF SearchFits

\* The first file of a checkpoint: the positions, whose pages are taken in already.
LEMMA SaveStateKeepsSearch ==
    ASSUME SearchFits, SaveState
    PROVE  SearchFits'
<1>1. /\ run.at = "state" /\ mem' = mem /\ run' = [run EXCEPT !.at = "candidates"]
      /\ stateFile' = [progress |-> mem.progress, smoke |-> mem.smoke]
      /\ UNCHANGED <<reserved, finished, raw, savedCandidates, report, imported>>
    BY DEF SaveState, Checkpointed, To
<1>2. run \in CollectorRun /\ FilesFit
    BY DEF SearchFits
<1>3. /\ run' \in CollectorRun /\ run'.at = "candidates" /\ run'.then = run.then
      /\ run'.stage = run.stage /\ run'.i = run.i /\ run'.added = run.added
    BY <1>1, <1>2, RunBounds DEF CollectorRun
<1>4. OnPage' = OnPage /\ Taken' = Taken
    BY <1>1, <1>3 DEF OnPage, Taken
<1>5. P' = P /\ KeywordNo' = KeywordNo /\ PageNo' = PageNo /\ Progress' = Progress
    BY <1>1, <1>3 DEF P, KeywordNo, PageNo, Progress
<1>6. FilesFit'
    BY <1>1, <1>2 DEF FilesFit
<1>7. AnswersFit'
    BY <1>1, <1>3 DEF SearchFits, AnswersFit
<1>8. PageFits'
    <2>1. stateFile'.progress[P] = Progress
        BY <1>1 DEF Progress
    <2> QED BY <1>1, <1>3, <1>4, <1>5, <2>1 DEF SearchFits, PageFits, SamePage
<1>9. ProgressFits'
    <2>1. Sound(mem, savedCandidates, raw, imported)
        BY <1>1 DEF SearchFits, ProgressFits
    <2>2. Sound(stateFile', savedCandidates, raw, imported)
        BY <1>1, <2>1 DEF Sound, SoundFor
    <2> QED BY <1>1, <2>1, <2>2 DEF SearchFits, ProgressFits
<1>10. PlatformsFit'
    BY <1>1, <1>3, <1>4 DEF SearchFits, PlatformsFit
<1>11. InStep'
    BY <1>1, <1>3, <1>4, <1>5 DEF SearchFits, InStep, SamePage
<1> QED BY <1>3, <1>6, <1>7, <1>8, <1>9, <1>10, <1>11 DEF SearchFits

\* The second file of a checkpoint: the candidates.
LEMMA SaveCandidatesKeepsSearch ==
    ASSUME SearchFits, SaveCandidates
    PROVE  SearchFits'
<1> DEFINE next == IF run.then = "turn" THEN run.i + 1 ELSE run.i
<1>1. /\ run.at = "candidates" /\ mem' = mem /\ savedCandidates' = mem.items
      /\ run' = [run EXCEPT !.at = run.then, !.i = next]
      /\ UNCHANGED <<reserved, finished, raw, stateFile, report, imported>>
    BY DEF SaveCandidates
<1>2. run \in CollectorRun /\ FilesFit /\ savedCandidates \subseteq mem.items
    BY <1>1 DEF SearchFits, InStep
<1>3. run.then = "turn" => run.i \in 0..Len(Order) /\ run.stage = "collect"
    BY <1>1 DEF SearchFits, PageFits
<1>4. /\ run' \in CollectorRun /\ run'.at = run.then
      /\ run'.stage = run.stage /\ run'.i = next /\ run'.added = run.added
    <2>1. next \in 0..(Len(Order) + 1) /\ run.then \in CollectorAt
        BY <1>2, <1>3, RunBounds DEF CollectorRun
    <2> HIDE DEF next
    <2> QED BY <1>1, <1>2, <2>1 DEF CollectorRun
<1>5. run.then \in {"turn", "report", "searched"}
    BY <1>2 DEF CollectorRun
<1>6. Taken' = Taken /\ OnPage' = Taken /\ (Taken <=> run.then = "searched")
    BY <1>1, <1>4, <1>5 DEF OnPage, Taken
<1>7. Taken => P' = P /\ KeywordNo' = KeywordNo /\ PageNo' = PageNo /\ Progress' = Progress
    <2>1. Taken => run'.i = run.i
        BY <1>4, <1>6
    <2> QED BY <1>1, <1>4, <2>1 DEF P, KeywordNo, PageNo, Progress
<1>8. FilesFit'
    BY <1>1, <1>2 DEF FilesFit
<1>9. AnswersFit'
    BY <1>1, <1>4, <1>5 DEF SearchFits, AnswersFit
<1>10. PageFits'
    <2>1. run.then = "turn" => next \in 1..(Len(Order) + 1)
        BY <1>3, RunBounds
    <2>2. Taken => run'.i = run.i
        BY <1>4, <1>6
    <2>3. Taken =>
            /\ run.i \in 1..Len(Order)
            /\ run.stage = "collect" => Progress.k <= Keywords
            /\ P \notin imported => /\ Progress.k = KeywordNo /\ Progress.n = PageNo
                                    /\ SamePage(stateFile.progress[P], Progress)
        BY DEF SearchFits, PageFits, OnPage
    <2>4. run'.at = "turn" => run'.i \in 1..(Len(Order) + 1)
        BY <1>4, <2>1
    <2>5. run'.at \notin {"state", "candidates"}
        BY <1>4, <1>5
    <2> QED BY <1>1, <1>4, <1>6, <1>7, <2>2, <2>3, <2>4, <2>5 DEF PageFits
<1>11. ProgressFits'
    <2>1. /\ Sound(stateFile, savedCandidates, raw, imported)
          /\ Sound(mem, savedCandidates, raw, imported) /\ report \subseteq savedCandidates
        BY <1>1 DEF SearchFits, ProgressFits
    <2>2. IsFiniteSet(mem.items)
        BY <1>2 DEF FilesFit
    <2>3. /\ Sound(stateFile, mem.items, raw, imported)
          /\ Sound(mem, mem.items, raw, imported)
        BY <1>2, <2>1, <2>2, SoundnessStays
    <2> QED BY <1>1, <1>2, <2>1, <2>3 DEF ProgressFits
<1>12. PlatformsFit'
    <2>1. \A p : CountOf(p, savedCandidates) > 0 => CountOf(p, mem.items) > 0
        <3>1. \A p : /\ CountOf(p, savedCandidates) \in Nat /\ CountOf(p, mem.items) \in Nat
                     /\ CountOf(p, savedCandidates) <= CountOf(p, mem.items)
            BY <1>2, CountsGrow DEF FilesFit
        <3> QED BY <3>1
    <2>2. run.stage = "smoke" /\ Taken =>
              /\ \A j \in 1..Len(Order) : j < run.i => CountOf(Order[j], savedCandidates) > 0
              /\ run'.i = run.i
        BY <1>4, <1>6 DEF SearchFits, PlatformsFit, OnPage
    <2>3. run.stage = "collect" => \A p \in Source \ imported : CountOf(p, savedCandidates) > 0
        BY <1>1 DEF SearchFits, PlatformsFit
    <2>4. run.stage = "smoke" => run'.at # "turn"
        BY <1>3, <1>4
    <2> QED BY <1>1, <1>4, <1>6, <2>1, <2>2, <2>3, <2>4 DEF PlatformsFit
<1>13. InStep'
    <2>1. run.stage = "collect" =>
              \A p \in Source : SamePage(stateFile.progress[p], mem.progress[p])
        BY <1>1 DEF SearchFits, InStep
    <2>2. Taken => /\ run.added # 0 => CountOf(P, mem.items) > 0
                   /\ P \notin imported => AllTaken(P, KeywordNo, PageNo, mem.items)
        BY DEF SearchFits, InStep
    <2> QED BY <1>1, <1>4, <1>6, <1>7, <2>1, <2>2 DEF InStep
<1> QED BY <1>4, <1>8, <1>9, <1>10, <1>11, <1>12, <1>13 DEF SearchFits

\* Whatever position lies behind the page that was saved last, all before it is taken in.
LEMMA SoundnessMoves ==
    ASSUME SearchFits, run.at = "searched", P \notin imported => CountOf(P, savedCandidates) > 0,
           NEW pr \in Position, NEW g, g.smoke = mem.smoke,
           \A p \in Source : g.progress[p] = IF p = P THEN pr ELSE mem.progress[p],
           pr.k > Progress.k \/ (pr.k = Progress.k /\ pr.n > Progress.n)
    PROVE  Sound(g, savedCandidates, raw, imported)
<1>1. Sound(mem, savedCandidates, raw, imported) /\ Taken /\ OnPage
    BY DEF SearchFits, ProgressFits, Taken, OnPage
<1>2. ASSUME NEW p \in Source \ imported, p # P
      PROVE  SoundFor(p, g, savedCandidates, raw)
    BY <1>1, <1>2 DEF Sound, SoundFor
<1>3. ASSUME P \in Source \ imported
      PROVE  SoundFor(P, g, savedCandidates, raw)
    <2>1. /\ Progress.k = KeywordNo /\ Progress.n = PageNo /\ Progress \in Position
          /\ AllTaken(P, KeywordNo, PageNo, savedCandidates)
        BY <1>1, <1>3, PageKnown DEF SearchFits, PageFits, InStep
    <2>2. g.progress[P] = pr
        BY <1>3
    <2>3. ASSUME NEW q \in DOMAIN raw, raw[q] = "ok", q[1] = P
          PROVE  PageBefore(q[2], q[3], pr) /\ AllTaken(P, q[2], q[3], savedCandidates)
        <3>1. q[2] \in Nat /\ q[3] \in Nat
            BY <2>3 DEF SearchFits, AnswersFit, Key
        <3>2. \/ PageAt(q[2], q[3], Progress)
              \/ PageBefore(q[2], q[3], Progress) /\ AllTaken(P, q[2], q[3], savedCandidates)
            BY <1>1, <1>3, <2>3 DEF Sound, SoundFor, Progress
        <3>3. CASE PageAt(q[2], q[3], Progress)
            <4>1. q[2] = KeywordNo /\ q[3] = PageNo
                BY <2>1, <3>3 DEF PageAt
            <4> QED BY <2>1, <3>1, <4>1 DEF PageBefore, Position
        <3>4. CASE PageBefore(q[2], q[3], Progress) /\ AllTaken(P, q[2], q[3], savedCandidates)
            BY <2>1, <3>1, <3>4 DEF PageBefore, Position
        <3> QED BY <3>2, <3>3, <3>4
    <2>4. CountOf(P, savedCandidates) # 0
        BY <1>3, CountsFit DEF SearchFits
    <2> QED BY <2>2, <2>3, <2>4 DEF SoundFor
<1> QED BY <1>2, <1>3 DEF Sound

\* A step that moves the platform of the page just saved.
LEMMA ProgressMoves ==
    ASSUME SearchFits, run.at = "searched", NEW pr \in Position,
           mem' = [mem EXCEPT !.progress[P] = pr]
    PROVE  /\ mem'.items = mem.items /\ mem'.smoke = mem.smoke /\ P \in Source
           /\ mem' \in [progress : Progresses, smoke : BOOLEAN, items : {mem.items}]
           /\ \A p \in Source : mem'.progress[p] = IF p = P THEN pr ELSE mem.progress[p]
<1>1. OnPage
    BY DEF OnPage, Taken
<1>2. P \in Source /\ FilesFit
    BY <1>1, PageKnown DEF SearchFits
<1>3. mem'.progress = [mem.progress EXCEPT ![P] = pr]
    BY <1>2 DEF FilesFit
<1>4. mem'.progress \in Progresses
    BY <1>2, <1>3 DEF FilesFit, Progresses
<1>5. mem'.items = mem.items /\ mem'.smoke = mem.smoke
    BY <1>2 DEF FilesFit
<1>6. mem' = [progress |-> mem'.progress, smoke |-> mem.smoke, items |-> mem.items]
    BY <1>2 DEF FilesFit
<1>7. mem' \in [progress : Progresses, smoke : BOOLEAN, items : {mem.items}]
    BY <1>2, <1>4, <1>6 DEF FilesFit
<1>8. \A p \in Source : mem'.progress[p] = IF p = P THEN pr ELSE mem.progress[p]
    BY <1>2, <1>3 DEF FilesFit, Progresses
<1> QED BY <1>2, <1>5, <1>7, <1>8

\* The smoke test goes on to the next platform when its page had a candidate.
LEMMA SmokeSearchedKeeps ==
    ASSUME SearchFits, SmokeSearched
    PROVE  SearchFits'
<1>1. /\ run.at = "searched" /\ run.stage = "smoke" /\ OnPage /\ Taken
      /\ UNCHANGED <<reserved, finished, raw, stateFile, savedCandidates, report, imported>>
    BY Zenon DEF SmokeSearched, Elsewhere, OnPage, Taken
<1>2. /\ run \in CollectorRun /\ FilesFit /\ PageFits /\ mem.items = savedCandidates
      /\ run.i \in 1..Len(Order) /\ Sound(mem, savedCandidates, raw, imported)
    BY <1>1 DEF SearchFits, PageFits, ProgressFits, InStep
<1>3. CASE run.added = 0
    <2>1. run' = [run EXCEPT !.at = "report"] /\ mem' = mem
        BY <1>3 DEF SmokeSearched, To
    <2>2. run' \in CollectorRun /\ run'.at = "report" /\ run'.stage = "smoke"
        BY <1>1, <1>2, <2>1, RunBounds DEF CollectorRun
    <2>3. ~OnPage' /\ ~Taken' /\ BetweenPages
        BY <1>1, <2>1, <2>2 DEF OnPage, Taken, BetweenPages
    <2>4. FilesFit' /\ PageFits' /\ PlatformsFit'
        BY <1>1, <1>2, <2>1, <2>2, <2>3 DEF FilesFit, PageFits, PlatformsFit
    <2>5. InStep'
        BY <1>1, <1>2, <2>1, <2>2, <2>3 DEF InStep
    <2> QED BY <1>2, <2>1, <2>3, <2>4, <2>5, BetweenPagesKeeps DEF SearchFits
<1>4. CASE run.added # 0
    <2> DEFINE pr == [Progress EXCEPT !.n = 2]
    <2>1. mem' = [mem EXCEPT !.progress[P].n = 2] /\ run' = [run EXCEPT !.at = "turn", !.i = @ + 1]
        BY <1>4 DEF SmokeSearched
    <2>2. mem' = [mem EXCEPT !.progress[P] = pr]
        BY <2>1 DEF Progress
    <2>3. /\ run' \in CollectorRun /\ run'.at = "turn" /\ run'.stage = "smoke"
          /\ run'.i = run.i + 1
        <3>1. run.i + 1 \in 0..(Len(Order) + 1)
            BY <1>2, RunBounds
        <3> QED BY <1>1, <1>2, <2>1, <3>1, RunBounds DEF CollectorRun
    <2>4. ~OnPage' /\ ~Taken'
        BY <2>3 DEF OnPage, Taken
    <2>5. /\ Progress \in Position /\ PageNo = 1
          /\ P \notin imported => Progress.n = 1
        BY <1>1, <1>2, PageKnown DEF PageFits, PageNo
    <2>6. pr \in Position /\ pr.k = Progress.k /\ pr.n = 2
        <3>1. 2 \in 1..(MaxPages + 1)
            BY ColAssumption
        <3> QED BY <2>5, <3>1 DEF Position
    <2> HIDE DEF pr
    <2>7. /\ mem'.items = mem.items /\ mem'.smoke = mem.smoke /\ P \in Source
          /\ mem' \in [progress : Progresses, smoke : BOOLEAN, items : {mem.items}]
          /\ \A p \in Source : mem'.progress[p] = IF p = P THEN pr ELSE mem.progress[p]
        BY <1>1, <2>2, <2>6, ProgressMoves
    <2>8. FilesFit'
        BY <1>1, <1>2, <2>7 DEF FilesFit
    <2>9. PageFits'
        BY <1>2, <2>3, <2>4, RunBounds DEF PageFits
    <2>10. CountOf(P, savedCandidates) > 0
        BY <1>1, <1>2, <1>4 DEF SearchFits, InStep
    <2>11. Sound(mem', savedCandidates, raw, imported)
        <3>1. CASE P \notin imported
            BY <1>1, <2>5, <2>6, <2>7, <2>10, <3>1, SoundnessMoves
        <3>2. CASE P \in imported
            BY <1>2, <2>7, <3>2 DEF Sound, SoundFor
        <3> QED BY <3>1, <3>2
    <2>12. PlatformsFit'
        <3>1. \A j \in 1..Len(Order) : j < run.i => CountOf(Order[j], savedCandidates) > 0
            BY <1>1 DEF SearchFits, PlatformsFit
        <3>2. \A j \in 1..Len(Order) : j < run.i + 1 => CountOf(Order[j], savedCandidates) > 0
            BY <1>2, <2>10, <3>1 DEF P
        <3> QED BY <1>1, <2>3, <2>4, <3>2 DEF PlatformsFit
    <2>13. InStep'
        BY <1>1, <1>2, <2>3, <2>4, <2>7 DEF InStep
    <2>14. BetweenPages
        BY <1>1, <2>3, <2>7 DEF BetweenPages
    <2> QED BY <2>8, <2>9, <2>11, <2>12, <2>13, <2>14, BetweenPagesKeeps DEF SearchFits
<1> QED BY <1>3, <1>4

\* The next page of a platform is behind the one before.
LEMMA MovesOn ==
    ASSUME NEW pr \in Position, pr.k <= Keywords
    PROVE  /\ Moved(pr) \in Position
           /\ Moved(pr).k > pr.k \/ (Moved(pr).k = pr.k /\ Moved(pr).n > pr.n)
<1> DEFINE stalled == IF run.added = 0 THEN pr.stalled + 1 ELSE 0
           over == \/ Items(ThisPage) = <<>>
                   \/ ThisPage.pages > 0 /\ pr.n >= ThisPage.pages
                   \/ pr.n >= MaxPages \/ stalled >= StallLimit
<1>1. CASE over
    <2>1. Moved(pr) = [Start EXCEPT !.k = pr.k + 1]
        BY <1>1 DEF Moved
    <2>2. /\ pr.k \in Nat /\ pr.k + 1 \in 1..(Keywords + 1)
          /\ 1 \in 1..(MaxPages + 1) /\ 0 \in 0..StallLimit
        BY ColAssumption DEF Position
    <2> HIDE DEF over
    <2>3. Moved(pr) \in Position /\ Moved(pr).k = pr.k + 1
        BY <2>1, <2>2 DEF Start, Position
    <2> QED BY <2>2, <2>3
<1>2. CASE ~over
    <2>1. Moved(pr) = [pr EXCEPT !.n = @ + 1, !.stalled = stalled]
        BY <1>2 DEF Moved
    <2>2. pr.n \in Nat /\ pr.n + 1 \in 1..(MaxPages + 1) /\ stalled \in 0..StallLimit
        BY <1>2, ColAssumption DEF Position
    <2> HIDE DEF stalled
    <2>3. Moved(pr) \in Position /\ Moved(pr).k = pr.k /\ Moved(pr).n = pr.n + 1
        BY <2>1, <2>2 DEF Position
    <2> QED BY <2>2, <2>3
<1> QED BY <1>1, <1>2

\* The collection goes on to the next page of the platform, and saves that.
LEMMA CollectSearchedKeeps ==
    ASSUME SearchFits, NEW then \in {"turn", "report"}, CollectSearched(then)
    PROVE  SearchFits'
<1> DEFINE pr == Moved(Progress)
<1>1. /\ run.at = "searched" /\ run.stage = "collect" /\ OnPage /\ Taken
      /\ run' = [run EXCEPT !.at = "state", !.then = then]
      /\ mem' = [mem EXCEPT !.progress[P] = pr]
      /\ UNCHANGED <<reserved, finished, raw, stateFile, savedCandidates, report, imported>>
    <2>1. /\ run.at = "searched" /\ run.stage = "collect"
          /\ run' = [run EXCEPT !.at = "state", !.then = then]
          /\ mem' = [mem EXCEPT !.progress[P] = Moved(@)] /\ Elsewhere
        BY Zenon DEF CollectSearched
    <2>2. [mem EXCEPT !.progress[P] = Moved(@)] = [mem EXCEPT !.progress[P] = pr]
        BY DEF Progress
    <2> QED BY <2>1, <2>2, Zenon DEF Elsewhere, OnPage, Taken
<1>2. /\ run \in CollectorRun /\ FilesFit /\ PageFits /\ mem.items = savedCandidates
      /\ run.i \in 1..Len(Order) /\ Progress.k <= Keywords
    BY <1>1 DEF SearchFits, PageFits, InStep
<1>3. Progress \in Position
    BY <1>1, <1>2, PageKnown
<1>4. pr \in Position /\ (pr.k > Progress.k \/ (pr.k = Progress.k /\ pr.n > Progress.n))
    BY <1>2, <1>3, MovesOn
<1> HIDE DEF pr
<1>5. /\ mem'.items = mem.items /\ mem'.smoke = mem.smoke /\ P \in Source
      /\ mem' \in [progress : Progresses, smoke : BOOLEAN, items : {mem.items}]
      /\ \A p \in Source : mem'.progress[p] = IF p = P THEN pr ELSE mem.progress[p]
    BY <1>1, <1>4, ProgressMoves
<1>6. /\ run' \in CollectorRun /\ run'.at = "state" /\ run'.then = then
      /\ run'.stage = "collect" /\ run'.i = run.i
    BY <1>1, <1>2, RunBounds DEF CollectorRun
<1>7. ~OnPage' /\ ~Taken' /\ BetweenPages
    BY <1>1, <1>5, <1>6 DEF OnPage, Taken, BetweenPages
<1>8. FilesFit'
    BY <1>1, <1>2, <1>5 DEF FilesFit
<1>9. PageFits'
    BY <1>2, <1>6, <1>7, RunBounds DEF PageFits
<1>10. \A p \in Source \ imported : CountOf(p, savedCandidates) > 0
    BY <1>1 DEF SearchFits, PlatformsFit
<1>11. Sound(mem', savedCandidates, raw, imported)
    <2>1. P \notin imported => CountOf(P, savedCandidates) > 0
        BY <1>5, <1>10
    <2> QED BY <1>1, <1>4, <1>5, <2>1, SoundnessMoves
<1>12. PlatformsFit'
    BY <1>1, <1>6, <1>10 DEF PlatformsFit
<1>13. InStep'
    BY <1>1, <1>2, <1>5, <1>6, <1>7 DEF InStep
<1> QED BY <1>7, <1>8, <1>9, <1>11, <1>12, <1>13, BetweenPagesKeeps DEF SearchFits

\* An answer provided by hand sets the position of its platform, of which the invariant says
\* nothing from then on.
LEMMA ImportKeepsSearch ==
    ASSUME SearchFits, NEW p \in Source, NEW k \in 1..Keywords, NEW n \in 1..MaxPages,
           ImportResponse(p, k, n)
    PROVE  SearchFits'
<1> DEFINE items == Collected(p, Page[<<p, k, n>>], savedCandidates)
           pr == [Start EXCEPT !.k = k, !.n = n + 1, !.sid = p = "douyin"]
           complete == \A q \in Source : CountOf(q, items) > 0
<1>1. /\ run.at = "idle" /\ run' = [Idle EXCEPT !.at = "state", !.then = "report"]
      /\ mem' = [progress |-> [stateFile.progress EXCEPT ![p] = pr], smoke |-> complete,
                 items |-> items]
      /\ imported' = imported \cup {p}
      /\ UNCHANGED <<reserved, finished, raw, stateFile, savedCandidates, report>>
    BY Zenon DEF ImportResponse
<1>2. FilesFit /\ Sound(stateFile, savedCandidates, raw, imported)
    BY DEF SearchFits, ProgressFits
<1>3. /\ run' \in CollectorRun /\ run'.at = "state" /\ run'.then = "report"
      /\ run'.stage = "smoke" /\ run'.i = 1
    BY <1>1, RunBounds DEF Idle, CollectorRun
<1>4. ~OnPage' /\ ~Taken'
    BY <1>3 DEF OnPage, Taken
<1>5. /\ savedCandidates \subseteq items /\ IsFiniteSet(items)
      /\ \A c \in items : c \in savedCandidates \/ c[1] = p
    <2>1. n \in 1..(MaxPages + 1)
        BY ColAssumption
    <2>2. LET list == Items(Page[<<p, k, n>>]) IN list \in Seq(Range(list))
        BY <2>1, PagesListed
    <2> QED BY <1>2, <2>2, PageTaken DEF FilesFit
<1>6. pr \in Position
    <2>1. PICK sid \in BOOLEAN : sid = (p = "douyin")
        OBVIOUS
    <2>2. pr = [Start EXCEPT !.k = k, !.n = n + 1, !.sid = sid]
        BY <2>1, Zenon
    <2>3. k \in 1..(Keywords + 1) /\ n + 1 \in 1..(MaxPages + 1) /\ 0 \in 0..StallLimit
        BY ColAssumption
    <2> HIDE DEF pr
    <2> QED BY <2>2, <2>3 DEF Start, Position
<1>7. complete \in BOOLEAN
    OBVIOUS
<1> HIDE DEF pr, items
<1>8. FilesFit'
    <2>1. [stateFile.progress EXCEPT ![p] = pr] \in Progresses
        BY <1>2, <1>6 DEF FilesFit, Progresses
    <2> HIDE DEF complete
    <2> QED BY <1>1, <1>2, <1>5, <1>7, <2>1 DEF FilesFit
<1>9. AnswersFit' /\ PageFits' /\ PlatformsFit'
    BY <1>1, <1>3, <1>4 DEF SearchFits, AnswersFit, PageFits, PlatformsFit
<1>10. ASSUME NEW q \in Source \ (imported \cup {p})
       PROVE  SoundFor(q, mem', savedCandidates, raw)
    <2>1. SoundFor(q, stateFile, savedCandidates, raw)
        BY <1>2 DEF Sound
    <2>2. mem'.progress[q] = stateFile.progress[q]
        BY <1>1, <1>2 DEF FilesFit, Progresses
    <2>3. {c \in items : c[1] = q} = {c \in savedCandidates : c[1] = q}
        BY <1>5
    <2>4. CountOf(q, items) = CountOf(q, savedCandidates)
        BY <2>3 DEF CountOf
    <2>5. CountOf(q, savedCandidates) = 0 => ~mem'.smoke
        <3>1. CountOf(q, savedCandidates) = 0 => ~complete
            BY <2>4
        <3>2. mem'.smoke = complete
            BY <1>1
        <3> QED BY <3>1, <3>2
    <2> QED BY <2>1, <2>2, <2>5 DEF SoundFor
<1>11. ProgressFits'
    <2>1. Sound(mem', savedCandidates, raw, imported \cup {p})
        BY <1>10 DEF Sound
    <2>2. Sound(stateFile, savedCandidates, raw, imported \cup {p})
        BY <1>2 DEF Sound
    <2> QED BY <1>1, <2>1, <2>2 DEF SearchFits, ProgressFits
<1>12. InStep'
    <2>1. mem'.items = items
        BY <1>1
    <2> QED BY <1>1, <1>3, <1>4, <1>5, <2>1 DEF InStep
<1> QED BY <1>3, <1>8, <1>9, <1>11, <1>12 DEF SearchFits

\* Every step of the collector preserves the invariant.
LEMMA SearchKeeps ==
    ASSUME SearchInvariant, [ColNext]_colVars
    PROVE  SearchInvariant'
<1>0. ColInvariant /\ SearchFits
    BY DEF SearchInvariant
<1>1. ColInvariant'
    BY <1>0, ColStepsKeep
<1>2. SearchFits'
    <2>1. ASSUME NEW retrying \in BOOLEAN, StartCollecting(retrying)
          PROVE  SearchFits'
        BY <1>0, <2>1, StartKeepsSearch
    <2>2. CASE SmokeTurn \/ CollectTurn
        BY <1>0, <2>2, SmokeEndKeeps, TurnKeepsSearch
    <2>3. CASE \/ Cached \/ Refused \/ Reserve \/ FinishRequest
               \/ \E answer \in {"ok", "billable", "nonbillable", "none"} : Send(answer)
        BY <1>0, <2>3, CallsKeepSearch
    <2>4. CASE WriteRaw
        BY <1>0, <2>4, WriteKeepsSearch
    <2>5. CASE Take
        BY <1>0, <2>5, TakeKeepsSearch
    <2>6. CASE SaveState
        BY <1>0, <2>6, SaveStateKeepsSearch
    <2>7. CASE SaveCandidates
        BY <1>0, <2>7, SaveCandidatesKeepsSearch
    <2>8. CASE SmokeSearched
        BY <1>0, <2>8, SmokeSearchedKeeps
    <2>9. ASSUME NEW then \in {"turn", "report"}, CollectSearched(then)
          PROVE  SearchFits'
        BY <1>0, <2>9, CollectSearchedKeeps
    <2>10. CASE WriteOutputs \/ Crash
        BY <1>0, <2>10, EndsKeepSearch
    <2>11. ASSUME NEW p \in Source, NEW k \in 1..Keywords, NEW n \in 1..MaxPages,
                  ImportResponse(p, k, n)
          PROVE  SearchFits'
        BY <1>0, <2>11, ImportKeepsSearch
    <2>12. CASE UNCHANGED colVars
        <3>1. UNCHANGED <<reserved, finished, raw, stateFile, savedCandidates, mem, run, report,
                          imported>>
            BY <2>12 DEF colVars
        <3>2. /\ P' = P /\ Progress' = Progress /\ KeywordNo' = KeywordNo /\ PageNo' = PageNo
              /\ Taken' = Taken /\ OnPage' = OnPage
            BY <3>1 DEF P, Progress, KeywordNo, PageNo, Taken, OnPage
        <3> QED BY <1>0, <3>1, <3>2 DEF SearchFits, FilesFit, AnswersFit, PageFits, ProgressFits,
                     PlatformsFit, InStep
    <2> QED BY <1>0, <2>1, <2>2, <2>3, <2>4, <2>5, <2>6, <2>7, <2>8, <2>9, <2>10, <2>11, <2>12,
               Zenon DEF ColNext
<1> QED BY <1>1, <1>2 DEF SearchInvariant

\* Nothing has been asked for.
LEMMA SearchStarts == ColInit => SearchInvariant
<1> SUFFICES ASSUME ColInit PROVE SearchInvariant
    OBVIOUS
<1>1. /\ run = Idle /\ mem = NoMemory /\ savedCandidates = {} /\ report = {}
      /\ stateFile = [progress |-> NoMemory.progress, smoke |-> FALSE]
      /\ DOMAIN raw = {} /\ DOMAIN finished = {} /\ reserved = {}
    BY DEF ColInit
<1>2. run \in CollectorRun /\ run.at = "idle" /\ run.stage = "smoke"
    BY <1>1, RunBounds DEF Idle, CollectorRun
<1>3. FilesFit
    <2>1. Start \in Position
        BY ColAssumption DEF Start, Position
    <2>2. PICK start : start = [p \in Source |-> Start]
        OBVIOUS
    <2>3. start \in Progresses
        BY <2>1, <2>2 DEF Progresses
    <2>4. /\ mem = [progress |-> start, smoke |-> FALSE, items |-> {}]
          /\ stateFile = [progress |-> start, smoke |-> FALSE]
        BY <1>1, <2>2 DEF NoMemory
    <2>5. IsFiniteSet({})
        BY FS_EmptySet
    <2> QED BY <1>1, <2>3, <2>4, <2>5 DEF FilesFit
<1>4. AnswersFit /\ PageFits /\ PlatformsFit /\ InStep
    BY <1>1, <1>2 DEF AnswersFit, PageFits, OnPage, Taken, PlatformsFit, InStep
<1>5. ProgressFits
    <2>1. \A p \in Source : /\ stateFile.progress[p].k = 1 /\ stateFile.progress[p].n = 1
                            /\ ~stateFile.smoke
        BY <1>1 DEF NoMemory, Start
    <2> QED BY <1>1, <1>2, <2>1 DEF ProgressFits, Sound, SoundFor
<1> QED BY <1>2, <1>3, <1>4, <1>5, ColStarts DEF SearchInvariant, SearchFits

\* The saved positions and the saved candidates fit together, for any pages, keywords, caps and
\* kills.
THEOREM SearchInvariance == ColSpec => []SearchInvariant
<1> QED BY SearchStarts, SearchKeeps, PTL DEF ColSpec

\* Whenever the process is killed, the candidates of every paid page before the saved position
\* are saved too, and so is everything the last dataset lists: a position moves on only after
\* the checkpoint of its page (_checkpoint, collect_searches, smoke_test).
THEOREM PaidPagesAreKept == ColSpec => []NothingPaidIsLost
<1>1. SearchInvariant => NothingPaidIsLost
    <2> SUFFICES ASSUME SearchInvariant PROVE NothingPaidIsLost
        OBVIOUS
    <2>1. Sound(stateFile, savedCandidates, raw, imported) /\ report \subseteq savedCandidates
        BY DEF SearchInvariant, SearchFits, ProgressFits
    <2>2. ASSUME NEW q \in DOMAIN raw, raw[q] = "ok", q[1] \notin imported,
                 PageBefore(q[2], q[3], stateFile.progress[q[1]])
          PROVE  AllTaken(q[1], q[2], q[3], savedCandidates)
        <3>1. q \in Key
            BY DEF SearchInvariant, SearchFits, AnswersFit
        <3>2. q[1] \in Source /\ q[2] \in Nat /\ q[3] \in Nat
            BY <3>1 DEF Key
        <3>3. stateFile.progress[q[1]] \in Position
            BY <3>2 DEF SearchInvariant, SearchFits, FilesFit, Progresses
        <3>4. ~PageAt(q[2], q[3], stateFile.progress[q[1]])
            BY <2>2, <3>2, <3>3 DEF PageBefore, PageAt, Position
        <3> QED BY <2>1, <2>2, <3>2, <3>4 DEF Sound, SoundFor
    <2> QED BY <2>1, <2>2 DEF NothingPaidIsLost, PageBefore, AllTaken
<1> QED BY <1>1, SearchInvariance, PTL

\* Positions, answers and the ledger keep their types.
THEOREM CollectorTypes == ColSpec => []ColTypeOK
<1>1. SearchInvariant => ColTypeOK
    <2> SUFFICES ASSUME SearchInvariant PROVE ColTypeOK
        OBVIOUS
    <2>1. ColInvariant /\ run \in CollectorRun /\ FilesFit /\ AnswersFit
        BY DEF SearchInvariant, SearchFits
    <2>2. /\ reserved \subseteq Key
          /\ DOMAIN finished \cup DOMAIN raw \cup DOMAIN sentOut \subseteq reserved
          /\ Range(finished) \subseteq {"ok", "provider_error", "transport_error"}
          /\ Range(raw) \subseteq {"ok", "billable", "nonbillable"}
        BY <2>1 DEF ColInvariant, LedgerFits, AnswersFit, Range
    <2>3. Range(sentOut) \subseteq 1..2
        BY <2>1 DEF ColInvariant, LedgerFits, Range
    <2>4. ASSUME NEW f \in {stateFile, mem}, NEW p \in Source
          PROVE  f.progress[p] \in Position
        BY <2>1 DEF FilesFit, Progresses
    <2>5. /\ run.at \in CollectorAt
          /\ run.stage \in {"smoke", "collect"} /\ run.i \in 0..(Len(Order) + 1)
        BY <2>1 DEF CollectorRun
    <2>6. paid \in Nat /\ crashes \in 0..Crashes
        BY <2>1 DEF ColInvariant, PaymentsFit
    <2> QED BY <2>2, <2>3, <2>4, <2>5, <2>6 DEF ColTypeOK, CollectorAt, Position
<1> QED BY <1>1, SearchInvariance, PTL

-----------------------------------------------------------------------------
(***************************************************************************)
(* The legacy store.                                                       *)
(***************************************************************************)
ThreadRow == [status : {"none", "active", "archived", "deleted"}, at : Nat,
              last : LegacyRun \cup {NoRow}]

Message == [run : LegacyRun, role : {"user", "assistant"}]

Walk == [open : BOOLEAN, before : SUBSET Thread, seen : Seq(Thread),
         cursor : (Nat \X Thread) \cup {NoRow}]

LegacyTypes ==
    /\ threads \in [Thread -> ThreadRow]
    /\ transcript \in [Thread -> Seq(Message)]
    /\ runRows \in [LegacyRun -> [thread : Thread \cup {NoRow},
                                  status : {"none", "unfinished", "ended"}]]
    /\ walk \in Walk

Question(r) == [run |-> r, role |-> "user"]

\* A run that exists has asked its question, in the transcript of its thread.
QuestionsAsked ==
    \A r \in LegacyRun :
        runRows[r].status # "none" =>
            /\ runRows[r].thread \in Thread
            /\ Question(r) \in Range(transcript[runRows[r].thread])

\* A transcript holds messages of runs of its thread.
MessagesBelong ==
    \A t \in Thread : \A m \in Range(transcript[t]) :
        runRows[m.run].status # "none" /\ runRows[m.run].thread = t

Shown(t) == t \in Archive /\ ~Behind(t)

\* A client has seen archived threads that are not behind its cursor, each once, and whatever
\* was archived when it began is either among them or behind the cursor.
WalkFits ==
    /\ IsInjective(walk.seen)
    /\ ~walk.open => walk.before \subseteq Range(walk.seen)
    /\ walk.open =>
          /\ \A t \in Range(walk.seen) : Shown(t)
          /\ \A t \in walk.before : t \in Archive /\ (Behind(t) \/ t \in Range(walk.seen))

LegacyInvariant ==
    LegacyTypes /\ QuestionsAsked /\ MessagesBelong /\ OneAnswerPerRun /\ WalkFits

\* What is appended to a sequence comes behind all that was there, once.
LEMMA Appended ==
    ASSUME NEW S, NEW s \in Seq(S), NEW e \in S
    PROVE  /\ Append(s, e) \in Seq(S)
           /\ DOMAIN Append(s, e) = 1..(Len(s) + 1) /\ DOMAIN s = 1..Len(s) /\ Len(s) \in Nat
           /\ Append(s, e)[Len(s) + 1] = e /\ \A i \in 1..Len(s) : Append(s, e)[i] = s[i]
           /\ Range(Append(s, e)) = Range(s) \cup {e}
           /\ IsInjective(s) /\ e \notin Range(s) => IsInjective(Append(s, e))
<1>1. /\ Append(s, e) \in Seq(S) /\ Len(Append(s, e)) = Len(s) + 1
      /\ \A i \in 1..Len(s) : Append(s, e)[i] = s[i]
    BY AppendProperties
<1>2. /\ DOMAIN Append(s, e) = 1..(Len(s) + 1) /\ DOMAIN s = 1..Len(s) /\ Len(s) \in Nat
    BY <1>1, LenProperties
<1>3. Append(s, e)[Len(s) + 1] = e
    BY <1>2
<1>4. Range(Append(s, e)) = Range(s) \cup {e}
    <2>1. ASSUME NEW x \in Range(Append(s, e))
          PROVE  x \in Range(s) \cup {e}
        BY <1>1, <1>2, <1>3 DEF Range
    <2>2. ASSUME NEW x \in Range(s)
          PROVE  x \in Range(Append(s, e))
        <3>1. PICK i \in 1..Len(s) : s[i] = x
            BY <1>2 DEF Range
        <3>2. i \in DOMAIN Append(s, e) /\ Append(s, e)[i] = x
            BY <1>1, <1>2, <3>1
        <3> QED BY <3>2 DEF Range
    <2>3. e \in Range(Append(s, e))
        <3>1. Len(s) + 1 \in DOMAIN Append(s, e)
            BY <1>2
        <3> QED BY <1>3, <3>1 DEF Range
    <2> QED BY <2>1, <2>2, <2>3
<1>5. ASSUME IsInjective(s), e \notin Range(s)
      PROVE  IsInjective(Append(s, e))
    <2> SUFFICES ASSUME NEW i \in DOMAIN Append(s, e), NEW j \in DOMAIN Append(s, e),
                        Append(s, e)[i] = Append(s, e)[j]
                 PROVE  i = j
        BY DEF IsInjective
    <2>1. CASE i \in 1..Len(s) /\ j \in 1..Len(s)
        BY <1>1, <1>2, <1>5, <2>1 DEF IsInjective
    <2>2. CASE i = Len(s) + 1 /\ j \in 1..Len(s)
        BY <1>1, <1>2, <1>3, <1>5, <2>2 DEF Range
    <2>3. CASE i \in 1..Len(s) /\ j = Len(s) + 1
        BY <1>1, <1>2, <1>3, <1>5, <2>3 DEF Range
    <2> QED BY <1>2, <2>1, <2>2, <2>3
<1> QED BY <1>1, <1>2, <1>3, <1>4, <1>5

\* Nothing has been stored yet.
LEMMA LegacyStarts == LegacyInit => LegacyInvariant
<1> SUFFICES ASSUME LegacyInit PROVE LegacyInvariant
    OBVIOUS
<1> USE DEF LegacyInit
<1>1. LegacyTypes
    BY LegacyAssumption, EmptySeq
       DEF LegacyTypes, ThreadRow, Message, Walk, NoWalk
<1>2. QuestionsAsked /\ MessagesBelong /\ OneAnswerPerRun
    BY DEF QuestionsAsked, MessagesBelong, OneAnswerPerRun, Range, IsInjective
<1>3. WalkFits
    BY DEF WalkFits, NoWalk, IsInjective
<1> QED BY <1>1, <1>2, <1>3 DEF LegacyInvariant

(***************************************************************************)
(* The transcripts.                                                        *)
(***************************************************************************)
Transcripts == LegacyTypes /\ QuestionsAsked /\ MessagesBelong /\ OneAnswerPerRun

\* A message that is new to the transcript of its run keeps the transcripts in order, if it is
\* a question, or if the question is there already.
LEMMA MessageKeeps ==
    ASSUME Transcripts, LegacyTypes', NEW t \in Thread, NEW m \in Message,
           m \notin Range(transcript[t]),
           transcript' = [transcript EXCEPT ![t] = Append(@, m)],
           m.role = "assistant" => Question(m.run) \in Range(transcript[t]),
           runRows'[m.run].status # "none", runRows'[m.run].thread = t,
           \A r \in LegacyRun : runRows[r].status # "none" =>
               runRows'[r].status # "none" /\ runRows'[r].thread = runRows[r].thread,
           \A r \in LegacyRun : runRows[r].status = "none" /\ runRows'[r].status # "none" =>
               m = Question(r)
    PROVE  Transcripts'
<1> DEFINE s == transcript[t]
<1>1. /\ s \in Seq(Message) /\ transcript'[t] = Append(s, m)
      /\ \A u \in Thread \ {t} : transcript'[u] = transcript[u]
    BY DEF Transcripts, LegacyTypes
<1> HIDE DEF s
<1>2. /\ DOMAIN Append(s, m) = 1..(Len(s) + 1) /\ DOMAIN s = 1..Len(s) /\ Len(s) \in Nat
      /\ Append(s, m)[Len(s) + 1] = m /\ \A i \in 1..Len(s) : Append(s, m)[i] = s[i]
      /\ Range(Append(s, m)) = Range(s) \cup {m}
      /\ IsInjective(s) => IsInjective(Append(s, m))
    BY <1>1, Appended DEF s
<1>3. \A u \in Thread : Range(transcript[u]) \subseteq Range(transcript'[u])
    BY <1>1, <1>2 DEF s
<1>4. m.run \in LegacyRun
    BY DEF Message
<1>5. QuestionsAsked'
    <2> SUFFICES ASSUME NEW r \in LegacyRun, runRows'[r].status # "none"
                 PROVE  /\ runRows'[r].thread \in Thread
                        /\ Question(r) \in Range(transcript'[runRows'[r].thread])
        BY DEF QuestionsAsked, Question
    <2>1. CASE runRows[r].status # "none"
        BY <1>3, <2>1 DEF Transcripts, QuestionsAsked
    <2>2. CASE runRows[r].status = "none"
        <3>1. m = Question(r) /\ m.run = r
            BY <2>2 DEF Question
        <3>2. m \in Range(transcript'[t])
            BY <1>1, <1>2
        <3> QED BY <3>1, <3>2
    <2> QED BY <2>1, <2>2
<1>6. MessagesBelong'
    <2> SUFFICES ASSUME NEW u \in Thread, NEW n \in Range(transcript'[u])
                 PROVE  runRows'[n.run].status # "none" /\ runRows'[n.run].thread = u
        BY DEF MessagesBelong
    <2>1. CASE n \in Range(transcript[u])
        <3>1. n.run \in LegacyRun
            <4>1. transcript[u] \in Seq(Message)
                BY DEF Transcripts, LegacyTypes
            <4>2. n \in Message
                BY <2>1, <4>1, RangeOfSeq DEF Range
            <4> QED BY <4>2 DEF Message
        <3> QED BY <2>1, <3>1 DEF Transcripts, MessagesBelong
    <2>2. CASE n \notin Range(transcript[u])
        <3>1. u = t /\ n = m
            BY <1>1, <1>2, <2>2 DEF s
        <3> QED BY <3>1
    <2> QED BY <2>1, <2>2
<1>7. OneAnswerPerRun'
    <2>1. ASSUME NEW u \in Thread, u # t
          PROVE  /\ IsInjective(transcript'[u])
                 /\ \A i \in DOMAIN transcript'[u] :
                        transcript'[u][i].role = "assistant" =>
                            \E j \in 1..(i - 1) :
                                transcript'[u][j] = [run |-> transcript'[u][i].run,
                                                     role |-> "user"]
        BY <1>1, <2>1 DEF Transcripts, OneAnswerPerRun
    <2>2. IsInjective(s)
        BY DEF Transcripts, OneAnswerPerRun, s
    <2>3. IsInjective(transcript'[t])
        BY <1>1, <1>2, <2>2
    <2>4. ASSUME NEW i \in DOMAIN transcript'[t], transcript'[t][i].role = "assistant"
          PROVE  \E j \in 1..(i - 1) :
                     transcript'[t][j] = [run |-> transcript'[t][i].run, role |-> "user"]
        <3>1. CASE i \in 1..Len(s)
            <4>1. s[i].role = "assistant" /\ s[i] = transcript'[t][i]
                BY <1>1, <1>2, <2>4, <3>1
            <4>2. PICK j \in 1..(i - 1) : s[j] = [run |-> s[i].run, role |-> "user"]
                BY <1>2, <3>1, <4>1 DEF Transcripts, OneAnswerPerRun, s
            <4>3. j \in 1..Len(s)
                BY <1>2, <3>1
            <4> QED BY <1>1, <1>2, <4>1, <4>2, <4>3, ZenonT(30)
        <3>2. CASE i = Len(s) + 1
            <4>1. m.role = "assistant" /\ transcript'[t][i] = m
                BY <1>1, <1>2, <2>4, <3>2
            <4>2. PICK j \in 1..Len(s) : s[j] = Question(m.run)
                BY <1>2, <4>1 DEF Range, s
            <4> QED BY <1>1, <1>2, <3>2, <4>1, <4>2 DEF Question
        <3> QED BY <1>1, <1>2, <2>4, <3>1, <3>2
    <2> QED BY <2>1, <2>3, <2>4 DEF OneAnswerPerRun
<1> QED BY <1>5, <1>6, <1>7 DEF Transcripts

(***************************************************************************)
(* The walk through the archive.                                           *)
(***************************************************************************)
\* Nobody moves within the archive or leaves it.
ArchiveStays ==
    \A t \in Thread : threads[t].status = "archived" =>
        threads'[t].status = "archived" /\ threads'[t].at = threads[t].at

\* Whatever the others do, the archive a client walks through only grows.
LEMMA WalkStays ==
    ASSUME WalkFits, walk.before \subseteq Thread, walk' = walk, ArchiveStays
    PROVE  WalkFits'
<1>1. ASSUME NEW t \in Archive
      PROVE  t \in Archive' /\ Place(t)' = Place(t)
    BY DEF Archive, ArchiveStays, Place
<1>2. ASSUME NEW t \in Archive
      PROVE  Behind(t)' <=> Behind(t)
    BY <1>1 DEF Behind
<1>3. ASSUME NEW t, Shown(t)
      PROVE  Shown(t)'
    BY <1>1, <1>2, <1>3 DEF Shown
<1> QED BY <1>1, <1>2, <1>3 DEF WalkFits

\* The order of the archive is that of its places.
LEMMA PlacesOrdered ==
    /\ \A p, q \in Nat \X Nat : Newer(p, q) => ~Newer(q, p)
    /\ \A p, q, r \in Nat \X Nat : ~Newer(p, q) /\ Newer(p, r) => ~Newer(r, q)
<1>1. ASSUME NEW p \in Nat \X Nat, NEW q \in Nat \X Nat, NEW r \in Nat \X Nat
      PROVE  /\ p[1] \in Nat /\ p[2] \in Nat /\ q[1] \in Nat /\ q[2] \in Nat
             /\ r[1] \in Nat /\ r[2] \in Nat
    OBVIOUS
<1>2. ASSUME NEW p \in Nat \X Nat, NEW q \in Nat \X Nat, Newer(p, q)
      PROVE  ~Newer(q, p)
    BY <1>1, <1>2 DEF Newer
<1>3. ASSUME NEW p \in Nat \X Nat, NEW q \in Nat \X Nat, NEW r \in Nat \X Nat,
             ~Newer(p, q), Newer(p, r)
      PROVE  ~Newer(r, q)
    BY <1>1, <1>3 DEF Newer
<1> QED BY <1>2, <1>3

\* A listing holds all that is unseen, each once.
LEMMA ListingComplete ==
    ASSUME LegacyTypes, NEW rows \in Listings
    PROVE  /\ rows \in Seq(Thread) /\ DOMAIN rows = 1..Len(rows) /\ Len(rows) \in Nat
           /\ IsInjective(rows) /\ Range(rows) = Unseen
           /\ \A i, j \in 1..Len(rows) : i < j => Newer(Place(rows[i]), Place(rows[j]))
<1> DEFINE n == Cardinality(Unseen)
<1>1. Unseen \subseteq Thread /\ IsFiniteSet(Thread)
    <2>1. IsFiniteSet(1..Threads)
        BY LegacyAssumption, FS_Interval
    <2> QED BY <2>1 DEF Unseen, Archive, Thread
<1>2. IsFiniteSet(Unseen) /\ n \in Nat
    BY <1>1, FS_Subset, FS_CardinalityType
<1> HIDE DEF n
<1>3. /\ rows \in [1..n -> Unseen]
      /\ \A i, j \in 1..n : i # j => rows[i] # rows[j]
      /\ \A i, j \in DOMAIN rows : i < j => Newer(Place(rows[i]), Place(rows[j]))
    BY DEF Listings, SetToSeqs, n
<1>4. rows \in Injection(1..n, Unseen)
    BY <1>3 DEF Injection, IsInjective
<1>5. rows \in Surjection(1..n, Unseen)
    <2>1. IsFiniteSet(1..n) /\ Cardinality(1..n) = n
        BY <1>2, FS_Interval
    <2> QED BY <1>2, <1>4, <2>1, FS_Injection DEF n
<1>6. rows \in Seq(Thread) /\ Len(rows) = n /\ DOMAIN rows = 1..n
    BY <1>1, <1>2, <1>3
<1>7. Range(rows) = Unseen
    BY <1>3, <1>5 DEF Range, Surjection
<1> QED BY <1>2, <1>3, <1>6, <1>7 DEF IsInjective

\* The sequence of two that share nothing repeats nothing.
LEMMA JoinedOnce ==
    ASSUME NEW S, NEW s \in Seq(S), NEW u \in Seq(S), IsInjective(s), IsInjective(u),
           Range(s) \cap Range(u) = {}
    PROVE  s \o u \in Seq(S) /\ IsInjective(s \o u) /\ Range(s \o u) = Range(s) \cup Range(u)
<1>1. /\ s \o u \in Seq(S) /\ Len(s \o u) = Len(s) + Len(u)
      /\ \A i \in 1..(Len(s) + Len(u)) : (s \o u)[i] = IF i <= Len(s) THEN s[i] ELSE u[i - Len(s)]
    BY ConcatProperties
<1>2. /\ Range(s \o u) = Range(s) \cup Range(u)
      /\ Len(s) \in Nat /\ Len(u) \in Nat /\ DOMAIN s = 1..Len(s) /\ DOMAIN u = 1..Len(u)
      /\ DOMAIN (s \o u) = 1..(Len(s) + Len(u))
    BY <1>1, LenProperties, RangeConcatenation
<1>3. ASSUME NEW i \in DOMAIN (s \o u), NEW j \in DOMAIN (s \o u), (s \o u)[i] = (s \o u)[j]
      PROVE  i = j
    <2>1. CASE i <= Len(s) /\ j <= Len(s)
        BY <1>1, <1>2, <1>3, <2>1 DEF IsInjective
    <2>2. CASE i > Len(s) /\ j > Len(s)
        <3>1. i - Len(s) \in DOMAIN u /\ j - Len(s) \in DOMAIN u
            BY <1>2, <2>2
        <3>2. u[i - Len(s)] = u[j - Len(s)]
            BY <1>1, <1>2, <1>3, <2>2
        <3>3. i - Len(s) = j - Len(s)
            BY <3>1, <3>2 DEF IsInjective
        <3> QED BY <1>2, <3>3
    <2>3. ASSUME NEW k \in DOMAIN s, NEW l \in DOMAIN u, s[k] = u[l]
          PROVE  FALSE
        BY <2>3 DEF Range
    <2>4. CASE i <= Len(s) /\ j > Len(s)
        <3>1. i \in DOMAIN s /\ j - Len(s) \in DOMAIN u
            BY <1>2, <2>4
        <3> QED BY <1>1, <1>2, <1>3, <2>3, <2>4, <3>1
    <2>5. CASE i > Len(s) /\ j <= Len(s)
        <3>1. j \in DOMAIN s /\ i - Len(s) \in DOMAIN u
            BY <1>2, <2>5
        <3> QED BY <1>1, <1>2, <1>3, <2>3, <2>5, <3>1
    <2> QED BY <1>2, <2>1, <2>2, <2>4, <2>5
<1> QED BY <1>1, <1>2, <1>3 DEF IsInjective

\* A page takes the newest of what is unseen, and the cursor stands at its last thread.
LEMMA PageKeeps ==
    ASSUME LegacyTypes, WalkFits, NextPage
    PROVE  walk' \in Walk /\ WalkFits'
<1>1. PICK rows \in Listings :
          LET more == Len(rows) > PageLimit
              page == IF more THEN SubSeq(rows, 1, PageLimit) ELSE rows
          IN  walk' = [walk EXCEPT !.seen = @ \o page, !.open = more,
                                   !.cursor = IF more THEN Place(Last(page)) ELSE NoRow]
    BY Zenon DEF NextPage
<1>2. walk.open /\ UNCHANGED threads /\ walk \in Walk
    BY DEF NextPage, LegacyTypes
<1>3. /\ rows \in Seq(Thread) /\ DOMAIN rows = 1..Len(rows) /\ Len(rows) \in Nat
      /\ IsInjective(rows) /\ Range(rows) = Unseen
      /\ \A i, j \in 1..Len(rows) : i < j => Newer(Place(rows[i]), Place(rows[j]))
    BY ListingComplete
<1>4. /\ \A t \in Range(walk.seen) : Shown(t)
      /\ \A t \in walk.before : t \in Archive /\ (Behind(t) \/ t \in Range(walk.seen))
      /\ IsInjective(walk.seen) /\ walk.seen \in Seq(Thread) /\ walk.before \subseteq Thread
    BY <1>2 DEF WalkFits, Walk
<1>5. /\ \A t \in Thread : Place(t) \in Nat \X Thread /\ Place(t) \in Nat \X Nat
      /\ Archive' = Archive /\ \A t : Place(t)' = Place(t)
    BY <1>2 DEF LegacyTypes, ThreadRow, Place, Thread, Archive
<1>6. CASE Len(rows) <= PageLimit
    <2>1. walk' = [walk EXCEPT !.seen = @ \o rows, !.open = FALSE, !.cursor = NoRow]
        <3>1. (Len(rows) > PageLimit) = FALSE
            BY <1>3, <1>6, LegacyAssumption
        <3> QED BY <1>1, <3>1, Zenon
    <2>2. Range(walk.seen) \cap Range(rows) = {}
        BY <1>3, <1>4 DEF Shown, Unseen
    <2>3. /\ walk.seen \o rows \in Seq(Thread) /\ IsInjective(walk.seen \o rows)
          /\ Range(walk.seen \o rows) = Range(walk.seen) \cup Unseen
        BY <1>3, <1>4, <2>2, JoinedOnce
    <2>4. /\ walk'.seen = walk.seen \o rows /\ ~walk'.open /\ walk'.before = walk.before
          /\ walk' \in Walk
        BY <1>2, <2>1, <2>3 DEF Walk
    <2>5. walk.before \subseteq Range(walk.seen) \cup Unseen
        BY <1>4 DEF Unseen
    <2> QED BY <2>3, <2>4, <2>5 DEF WalkFits
<1>7. CASE Len(rows) > PageLimit
    <2> DEFINE page == SubSeq(rows, 1, PageLimit)
               last == rows[PageLimit]
    <2>1. /\ page \in Seq(Thread) /\ Len(page) = PageLimit
          /\ \A i \in 1..PageLimit : page[i] = rows[i]
          /\ PageLimit \in 1..Len(rows) /\ last \in Thread /\ last \in Unseen
        <3>1. \A i \in 1..PageLimit : rows[i] \in Thread
            BY <1>3, <1>7, LegacyAssumption
        <3>2. PageLimit \in 1..Len(rows)
            BY <1>3, <1>7, LegacyAssumption
        <3>3. last \in Thread /\ last \in Range(rows)
            BY <1>3, <3>2 DEF Range
        <3> QED BY <1>3, <3>1, <3>2, <3>3, SubSeqProperties, LegacyAssumption
    <2>2. DOMAIN page = 1..PageLimit /\ Last(page) = last
        <3>1. DOMAIN page = 1..PageLimit
            BY <2>1, LenProperties
        <3> QED BY <2>1, <3>1 DEF Last
    <2>3. walk' = [walk EXCEPT !.seen = @ \o page, !.open = TRUE, !.cursor = Place(last)]
        <3>1. (Len(rows) > PageLimit) = TRUE
            BY <1>7
        <3> QED BY <1>1, <2>2, <3>1, Zenon
    <2> HIDE DEF page, last
    <2>4. IsInjective(page)
        <3> SUFFICES ASSUME NEW i \in 1..PageLimit, NEW j \in 1..PageLimit, page[i] = page[j]
                     PROVE  i = j
            BY <2>2 DEF IsInjective
        <3>1. i \in DOMAIN rows /\ j \in DOMAIN rows /\ rows[i] = rows[j]
            BY <1>3, <2>1
        <3> QED BY <1>3, <3>1 DEF IsInjective
    <2>5. /\ Range(page) = {rows[i] : i \in 1..PageLimit}
          /\ Range(page) \subseteq Unseen
        <3>1. Range(page) = {rows[i] : i \in 1..PageLimit}
            BY <2>1, <2>2 DEF Range
        <3> QED BY <1>3, <2>1, <3>1 DEF Range
    <2>6. Range(walk.seen) \cap Range(page) = {}
        BY <1>4, <2>5 DEF Shown, Unseen
    <2>7. /\ walk.seen \o page \in Seq(Thread) /\ IsInjective(walk.seen \o page)
          /\ Range(walk.seen \o page) = Range(walk.seen) \cup Range(page)
        BY <1>4, <2>1, <2>4, <2>6, JoinedOnce
    <2>8. /\ walk'.seen = walk.seen \o page /\ walk'.open /\ walk'.before = walk.before
          /\ walk'.cursor = Place(last) /\ walk' \in Walk
        BY <1>2, <1>5, <2>1, <2>3, <2>7 DEF Walk
    <2>9. Place(last) # NoRow
        BY <1>5, <2>1, LegacyAssumption
    <2>10. \A t : Behind(t)' <=> Newer(Place(last), Place(t))
        BY <1>5, <2>8, <2>9 DEF Behind
    <2>11. ASSUME NEW t \in Range(walk.seen)
           PROVE  Shown(t)'
        <3>1. t \in Thread /\ t \in Archive /\ walk.cursor # NoRow
              /\ ~Newer(walk.cursor, Place(t))
            BY <1>4 DEF Shown, Archive, Behind
        <3>2. Newer(walk.cursor, Place(last)) /\ walk.cursor \in Nat \X Nat
            BY <1>2, <2>1, <3>1 DEF Unseen, Behind, Walk, Thread
        <3>3. ~Newer(Place(last), Place(t))
            BY <1>5, <2>1, <3>1, <3>2, PlacesOrdered
        <3> QED BY <1>5, <2>10, <3>1, <3>3 DEF Shown
    <2>12. ASSUME NEW i \in 1..PageLimit
           PROVE  Shown(rows[i])'
        <3>1. i \in 1..Len(rows) /\ rows[i] \in Unseen /\ rows[i] \in Thread
            BY <1>3, <2>1 DEF Range
        <3>2. ~Newer(Place(last), Place(rows[i]))
            <4>1. CASE i < PageLimit
                <5>1. Newer(Place(rows[i]), Place(last))
                    BY <1>3, <2>1, <3>1, <4>1 DEF last
                <5> QED BY <1>5, <2>1, <3>1, <5>1, PlacesOrdered
            <4>2. CASE i = PageLimit
                BY <1>5, <2>1, <4>2, PlacesOrdered DEF last
            <4> QED BY <2>1, <4>1, <4>2
        <3> QED BY <1>5, <2>10, <3>1, <3>2 DEF Shown, Unseen
    <2>13. ASSUME NEW t \in walk.before
           PROVE  t \in Archive' /\ (Behind(t)' \/ t \in Range(walk'.seen))
        <3>1. CASE t \in Range(walk.seen)
            BY <1>4, <1>5, <2>7, <2>8, <3>1
        <3>2. CASE t \notin Range(walk.seen)
            <4>1. t \in Unseen
                BY <1>4, <3>2 DEF Unseen
            <4>2. PICK k \in 1..Len(rows) : t = rows[k]
                BY <1>3, <4>1 DEF Range
            <4>3. CASE k <= PageLimit
                <5>1. t \in Range(page)
                    BY <2>1, <2>5, <4>2, <4>3
                <5> QED BY <1>4, <1>5, <2>7, <2>8, <5>1
            <4>4. CASE k > PageLimit
                <5>1. Newer(Place(last), Place(t))
                    BY <1>3, <2>1, <4>2, <4>4 DEF last
                <5> QED BY <1>4, <1>5, <2>10, <5>1
            <4> QED BY <1>3, <2>1, <4>2, <4>3, <4>4
        <3> QED BY <3>1, <3>2
    <2>14. \A t \in Range(walk'.seen) : Shown(t)'
        BY <2>5, <2>7, <2>8, <2>11, <2>12
    <2> QED BY <2>7, <2>8, <2>13, <2>14 DEF WalkFits
<1> QED BY <1>3, <1>6, <1>7, LegacyAssumption

\* The client begins with the archive as it is, of which it has seen nothing.
LEMMA OpenKeeps ==
    ASSUME LegacyTypes, OpenWalk
    PROVE  walk' \in Walk /\ WalkFits'
<1>1. /\ walk'.open /\ walk'.before = Archive /\ walk'.seen = <<>> /\ walk'.cursor = NoRow
      /\ walk' \in Walk /\ UNCHANGED threads
    BY EmptySeq DEF OpenWalk, NoWalk, Walk, Archive
<1>2. Archive' = Archive /\ \A t : Behind(t)'
    BY <1>1 DEF Archive, Behind
<1>3. Range(walk'.seen) = {} /\ IsInjective(walk'.seen)
    BY <1>1 DEF Range, IsInjective
<1> QED BY <1>1, <1>2, <1>3 DEF WalkFits

(***************************************************************************)
(* The transactions.                                                       *)
(***************************************************************************)
\* No run changes its thread, and none that exists disappears.
RunsKept ==
    \A r \in LegacyRun : /\ runRows'[r].thread = runRows[r].thread
                         /\ runRows'[r].status = "none" <=> runRows[r].status = "none"

\* A run keeps its thread and has existed ever since; nothing else is asked of its row.
LEMMA RunsKeptKeeps ==
    ASSUME Transcripts, LegacyTypes', RunsKept, transcript' = transcript
    PROVE  Transcripts'
<1>1. \A t \in Thread : \A m \in Range(transcript[t]) : m.run \in LegacyRun
    <2> SUFFICES ASSUME NEW t \in Thread, NEW m \in Range(transcript[t])
                 PROVE  m.run \in LegacyRun
        OBVIOUS
    <2>1. transcript[t] \in Seq(Message)
        BY DEF Transcripts, LegacyTypes
    <2>2. m \in Message
        BY <2>1, RangeOfSeq DEF Range
    <2> QED BY <2>2 DEF Message
<1>2. QuestionsAsked' /\ MessagesBelong'
    BY <1>1 DEF Transcripts, RunsKept, QuestionsAsked, MessagesBelong, Question
<1>3. OneAnswerPerRun'
    BY DEF Transcripts, OneAnswerPerRun
<1> QED BY <1>2, <1>3 DEF Transcripts

\* Archiving, replacing and recovering touch rows of threads that are not archived.
LEMMA PutFits ==
    ASSUME LegacyTypes, NEW t \in Thread, NEW at \in Times
    PROVE  Put(t, at) \in ThreadRow
<1>1. threads[t] \in ThreadRow /\ at \in Nat
    BY LegacyAssumption DEF LegacyTypes
<1>2. PICK row \in ThreadRow : row = threads[t]
    BY <1>1
<1>3. [row EXCEPT !.status = "archived", !.at = at] \in ThreadRow
    BY <1>1 DEF ThreadRow
<1>4. [row EXCEPT !.status = "deleted"] \in ThreadRow
    BY DEF ThreadRow
<1> QED BY <1>2, <1>3, <1>4 DEF Put

\* A thread is archived and another takes its place.
LEMMA ReplaceKeeps ==
    ASSUME Transcripts, NEW k \in LegacyKey, NEW current \in Thread \cup {NoRow},
           NEW new \in Thread, NEW at \in Times, ReplaceThread(k, current, new, at)
    PROVE  Transcripts' /\ ArchiveStays /\ walk' = walk
<1>1. /\ threads[new].status = "none" /\ UNCHANGED <<transcript, runRows, walk>>
      /\ threads' = [t \in Thread |->
                        IF t = new THEN [threads[t] EXCEPT !.status = "active"]
                        ELSE IF t = current THEN Put(t, at) ELSE threads[t]]
    BY DEF ReplaceThread
<1>2. \A t \in Thread : threads[t] \in ThreadRow
    BY DEF Transcripts, LegacyTypes
<1>3. threads' \in [Thread -> ThreadRow]
    BY <1>1, <1>2, PutFits DEF ThreadRow, Transcripts
<1>4. current \in Thread => threads[current].status = "active"
    <2>1. current = ActiveThread
        BY DEF ReplaceThread
    <2> DEFINE active == {t \in Thread : threads[t].status = "active"}
    <2>2. ActiveThread = IF active = {} THEN NoRow ELSE CHOOSE t \in active : TRUE
        BY DEF ActiveThread
    <2>3. NoRow \notin Thread
        BY LegacyAssumption
    <2> QED BY <2>1, <2>2, <2>3
<1>5. ArchiveStays
    BY <1>1, <1>4 DEF ArchiveStays
<1>6. LegacyTypes' /\ RunsKept
    BY <1>1, <1>3 DEF Transcripts, LegacyTypes, RunsKept
<1> QED BY <1>1, <1>5, <1>6, RunsKeptKeeps

\* A run is created with its question.
LEMMA InsertRunKeeps ==
    ASSUME Transcripts, NEW k \in LegacyKey, NEW t \in Thread, NEW r \in LegacyRun,
           InsertRun(k, t, r)
    PROVE  Transcripts' /\ ArchiveStays /\ walk' = walk
<1>1. /\ threads[t].status = "active" /\ runRows[r].status = "none" /\ walk' = walk
      /\ runRows' = [runRows EXCEPT ![r] = [thread |-> t, status |-> "unfinished"]]
      /\ transcript' = [transcript EXCEPT ![t] = Append(@, Question(r))]
      /\ threads' = [threads EXCEPT ![t].last = r]
    BY DEF InsertRun, Question
<1>2. Question(r) \in Message /\ transcript[t] \in Seq(Message)
    BY DEF Question, Message, Transcripts, LegacyTypes
<1>3. Append(transcript[t], Question(r)) \in Seq(Message)
    BY <1>2, Appended
<1>4. threads' \in [Thread -> ThreadRow] /\ ArchiveStays
    BY <1>1 DEF Transcripts, LegacyTypes, ThreadRow, ArchiveStays
<1>5. LegacyTypes'
    BY <1>1, <1>3, <1>4 DEF Transcripts, LegacyTypes
<1>6. Question(r) \notin Range(transcript[t])
    BY <1>1 DEF Transcripts, MessagesBelong, Question
<1>7. /\ runRows'[r].status # "none" /\ runRows'[r].thread = t
      /\ \A o \in LegacyRun \ {r} : runRows'[o] = runRows[o]
    BY <1>1 DEF Transcripts, LegacyTypes
<1>8. Question(r).run = r /\ Question(r).role # "assistant"
    BY DEF Question
<1>9. Transcripts'
    BY <1>1, <1>2, <1>5, <1>6, <1>7, <1>8, MessageKeeps, ZenonT(30)
<1> QED BY <1>1, <1>4, <1>9

\* The status of a run changes.
LEMMA StatusKeeps ==
    ASSUME Transcripts, NEW r \in LegacyRun, SetRunStatus(r)
    PROVE  Transcripts' /\ ArchiveStays /\ walk' = walk
<1>1. /\ UNCHANGED <<threads, transcript, walk>> /\ runRows[r].status # "none"
      /\ runRows' = [runRows EXCEPT ![r].status = "unfinished"]
    BY DEF SetRunStatus
<1>2. LegacyTypes' /\ RunsKept
    BY <1>1 DEF Transcripts, LegacyTypes, RunsKept
<1> QED BY <1>1, <1>2, RunsKeptKeeps DEF ArchiveStays

\* An answer that is stored already is stored no second time.
LEMMA StoreEndKeeps ==
    ASSUME Transcripts, NEW r \in LegacyRun, NEW text \in BOOLEAN, StoreEnd(r, text)
    PROVE  Transcripts' /\ ArchiveStays /\ walk' = walk
<1> DEFINE t == runRows[r].thread
           m == [run |-> r, role |-> "assistant"]
<1>1. /\ UNCHANGED <<threads, walk>> /\ runRows[r].status = "unfinished"
      /\ runRows' = [runRows EXCEPT ![r].status = "ended"]
      /\ transcript' = [transcript EXCEPT ![t] = Answered(r, text)]
    BY DEF StoreEnd
<1>2. t \in Thread /\ Question(r) \in Range(transcript[t])
    BY <1>1 DEF Transcripts, QuestionsAsked
<1>3. m \in Message /\ transcript[t] \in Seq(Message)
    BY <1>2 DEF Message, Transcripts, LegacyTypes
<1>4. RunsKept /\ runRows' \in [LegacyRun -> [thread : Thread \cup {NoRow},
                                  status : {"none", "unfinished", "ended"}]]
    BY <1>1 DEF Transcripts, LegacyTypes, RunsKept
<1>5. ArchiveStays
    BY <1>1 DEF ArchiveStays
<1>6. CASE text /\ m \notin Range(transcript[t])
    <2>1. transcript' = [transcript EXCEPT ![t] = Append(@, m)]
        BY <1>1, <1>6 DEF Answered
    <2>2. LegacyTypes'
        <3>1. Append(transcript[t], m) \in Seq(Message)
            BY <1>3, Appended
        <3> QED BY <1>1, <1>4, <2>1, <3>1, ZenonT(30) DEF Transcripts, LegacyTypes
    <2>3. m.run = r /\ runRows'[r].status # "none" /\ runRows'[r].thread = t
        BY <1>1, <1>4 DEF RunsKept
    <2>4. Transcripts'
        BY <1>2, <1>3, <1>4, <1>6, <2>1, <2>2, <2>3, MessageKeeps DEF RunsKept
    <2> QED BY <1>1, <1>5, <2>4
<1>7. CASE ~(text /\ m \notin Range(transcript[t]))
    <2>1. Answered(r, text) = transcript[t]
        BY <1>7 DEF Answered
    <2>2. transcript' = transcript
        BY <1>1, <2>1 DEF Transcripts, LegacyTypes
    <2>3. LegacyTypes'
        BY <1>1, <1>4, <2>2 DEF Transcripts, LegacyTypes
    <2> QED BY <1>1, <1>4, <1>5, <2>2, <2>3, RunsKeptKeeps
<1> QED BY <1>6, <1>7

\* A restart ends the runs and archives the active threads.
LEMMA RecoveryKeeps ==
    ASSUME Transcripts, NEW at \in Times, RecoverAfterRestart(at)
    PROVE  Transcripts' /\ ArchiveStays /\ walk' = walk
<1>1. /\ UNCHANGED <<transcript, walk>>
      /\ runRows' = [r \in LegacyRun |-> IF runRows[r].status = "unfinished"
                                         THEN [runRows[r] EXCEPT !.status = "ended"]
                                         ELSE runRows[r]]
      /\ threads' = [t \in Thread |-> IF threads[t].status = "active" THEN Put(t, at)
                                      ELSE threads[t]]
    BY DEF RecoverAfterRestart
<1>2. threads' \in [Thread -> ThreadRow] /\ ArchiveStays
    <2>1. ASSUME NEW t \in Thread
          PROVE  Put(t, at) \in ThreadRow /\ threads[t] \in ThreadRow
        BY PutFits DEF Transcripts, LegacyTypes
    <2> QED BY <1>1, <2>1 DEF ArchiveStays
<1>3. /\ RunsKept
      /\ runRows' \in [LegacyRun -> [thread : Thread \cup {NoRow},
                                     status : {"none", "unfinished", "ended"}]]
    BY <1>1 DEF Transcripts, LegacyTypes, RunsKept
<1>4. LegacyTypes'
    BY <1>1, <1>2, <1>3 DEF Transcripts, LegacyTypes
<1> QED BY <1>1, <1>2, <1>3, <1>4, RunsKeptKeeps

\* Every call of the store, and every step of the client, keeps the invariant.
LEMMA LegacyKeeps ==
    ASSUME LegacyInvariant, [LegacyNext]_legacyVars
    PROVE  LegacyInvariant'
<1>1. Transcripts /\ WalkFits /\ LegacyTypes /\ walk.before \subseteq Thread
    BY DEF LegacyInvariant, Transcripts, LegacyTypes, Walk
<1>2. ASSUME Transcripts', ArchiveStays, walk' = walk
      PROVE  LegacyInvariant'
    BY <1>1, <1>2, WalkStays DEF LegacyInvariant, Transcripts
<1>3. ASSUME NEW k \in LegacyKey, NEW current \in Thread \cup {NoRow}, NEW new \in Thread,
             NEW at \in Times, ReplaceThread(k, current, new, at)
      PROVE  LegacyInvariant'
    BY <1>1, <1>2, <1>3, ReplaceKeeps
<1>4. ASSUME NEW k \in LegacyKey, NEW t \in Thread, NEW r \in LegacyRun, InsertRun(k, t, r)
      PROVE  LegacyInvariant'
    BY <1>1, <1>2, <1>4, InsertRunKeeps
<1>5. ASSUME NEW r \in LegacyRun, SetRunStatus(r)
      PROVE  LegacyInvariant'
    BY <1>1, <1>2, <1>5, StatusKeeps
<1>6. ASSUME NEW r \in LegacyRun, NEW text \in BOOLEAN, StoreEnd(r, text)
      PROVE  LegacyInvariant'
    BY <1>1, <1>2, <1>6, StoreEndKeeps
<1>7. ASSUME NEW at \in Times, RecoverAfterRestart(at)
      PROVE  LegacyInvariant'
    BY <1>1, <1>2, <1>7, RecoveryKeeps
<1>8. ASSUME UNCHANGED <<threads, transcript, runRows>>
      PROVE  /\ ArchiveStays /\ QuestionsAsked' /\ MessagesBelong' /\ OneAnswerPerRun'
             /\ walk' \in Walk => LegacyTypes'
    BY <1>1, <1>8 DEF Transcripts, LegacyTypes, ArchiveStays, QuestionsAsked, MessagesBelong,
       OneAnswerPerRun
<1>9. CASE \/ (\E r \in LegacyRun : ReadRun(r)) \/ InsertArtifact \/ UNCHANGED legacyVars
    <2>1. UNCHANGED <<threads, transcript, runRows>> /\ walk' = walk
        BY <1>9 DEF ReadRun, InsertArtifact, legacyVars
    <2>2. walk' \in Walk
        BY <1>1, <2>1 DEF LegacyTypes
    <2> QED BY <1>2, <1>8, <2>1, <2>2 DEF Transcripts
<1>10. CASE OpenWalk \/ NextPage
    <2>1. UNCHANGED <<threads, transcript, runRows>>
        BY <1>10, Zenon DEF OpenWalk, NextPage
    <2>2. walk' \in Walk /\ WalkFits'
        BY <1>1, <1>10, OpenKeeps, PageKeeps
    <2> QED BY <1>8, <2>1, <2>2 DEF LegacyInvariant
<1> QED BY <1>3, <1>4, <1>5, <1>6, <1>7, <1>9, <1>10, Zenon DEF LegacyNext

\* For any threads, runs, keys, times and page size: the transcripts are in order, and the walk
\* and the archive fit together.
THEOREM LegacyInvariance == LegacySpec => []LegacyInvariant
<1>1. LegacyInit => LegacyInvariant
    BY LegacyStarts
<1>2. LegacyInvariant /\ [LegacyNext]_legacyVars => LegacyInvariant'
    BY LegacyKeeps
<1> QED BY <1>1, <1>2, PTL DEF LegacySpec

\* What a client of the legacy store reads of the past is complete, without repetitions and in
\* order (list_threads, create_run, finish_run).
THEOREM HistoryStaysReadable == LegacySpec => []HistoryReadable
<1>1. LegacyInvariant => HistoryReadable
    BY DEF LegacyInvariant, WalkFits, HistoryReadable, PagesSeeEverything
<1> QED BY <1>1, LegacyInvariance, PTL

(***************************************************************************)
(* The rest of the store, for the types.                                   *)
(***************************************************************************)
Responses == [create_thread : [LegacyKey -> Thread \cup {NoRow}],
              create_run    : [LegacyKey -> LegacyRun \cup {NoRow}]]

TimesFit == \A t \in Thread : threads[t].at \in Times \cup {0}

\* The times were read from the clock, and what is answered and registered exists.
StoreFits ==
    /\ TimesFit /\ responses \in Responses
    /\ registering \in LegacyRun \cup {NoRow} /\ artifacts \subseteq LegacyRun

\* Archiving enters a time of the clock, and deleting none.
LEMMA PutTimes ==
    ASSUME LegacyTypes, TimesFit, NEW t \in Thread, NEW at \in Times
    PROVE  Put(t, at).at \in Times \cup {0}
<1>1. PICK row \in ThreadRow : row = threads[t] /\ row.at \in Times \cup {0}
    BY DEF LegacyTypes, TimesFit
<1>2. [row EXCEPT !.status = "archived", !.at = at].at = at
    BY DEF ThreadRow
<1>3. [row EXCEPT !.status = "deleted"].at = row.at
    BY DEF ThreadRow
<1> QED BY <1>1, <1>2, <1>3 DEF Put

\* Every call of the store keeps this: a thread gets a time only when it is archived, and an
\* artifact is entered for the run that its registration has read.
LEMMA StoreKeeps ==
    ASSUME LegacyTypes, StoreFits, [LegacyNext]_legacyVars
    PROVE  StoreFits'
<1>1. /\ TimesFit /\ responses \in Responses
      /\ registering \in LegacyRun \cup {NoRow} /\ artifacts \subseteq LegacyRun
    BY DEF StoreFits
<1>2. \A t \in Thread : threads[t] \in ThreadRow /\ threads[t].at \in Times \cup {0}
    BY <1>1 DEF LegacyTypes, TimesFit
<1>3. ASSUME NEW k \in LegacyKey, NEW current \in Thread \cup {NoRow}, NEW new \in Thread,
             NEW at \in Times, ReplaceThread(k, current, new, at)
      PROVE  StoreFits'
    <2>1. /\ UNCHANGED <<registering, artifacts>>
          /\ responses' = [responses EXCEPT !.create_thread[k] = new]
          /\ threads' = [t \in Thread |->
                            IF t = new THEN [threads[t] EXCEPT !.status = "active"]
                            ELSE IF t = current THEN Put(t, at) ELSE threads[t]]
        BY <1>3 DEF ReplaceThread
    <2>2. responses' \in Responses
        BY <1>1, <2>1 DEF Responses
    <2>3. ASSUME NEW t \in Thread
          PROVE  threads'[t].at \in Times \cup {0}
        <3>1. Put(t, at).at \in Times \cup {0}
            BY <1>1, PutTimes
        <3>2. [threads[t] EXCEPT !.status = "active"].at = threads[t].at
            BY <1>2 DEF ThreadRow
        <3> QED BY <1>2, <2>1, <3>1, <3>2
    <2> QED BY <1>1, <2>1, <2>2, <2>3 DEF StoreFits, TimesFit
<1>4. ASSUME NEW k \in LegacyKey, NEW t \in Thread, NEW r \in LegacyRun, InsertRun(k, t, r)
      PROVE  StoreFits'
    <2>1. /\ UNCHANGED <<registering, artifacts>>
          /\ responses' = [responses EXCEPT !.create_run[k] = r]
          /\ threads' = [threads EXCEPT ![t].last = r]
        BY <1>4 DEF InsertRun
    <2>2. responses' \in Responses
        BY <1>1, <2>1 DEF Responses
    <2>3. TimesFit'
        BY <1>2, <2>1 DEF TimesFit, LegacyTypes, ThreadRow
    <2> QED BY <1>1, <2>1, <2>2, <2>3 DEF StoreFits
<1>5. ASSUME NEW at \in Times, RecoverAfterRestart(at)
      PROVE  StoreFits'
    <2>1. /\ UNCHANGED <<responses, artifacts>> /\ registering' = NoRow
          /\ threads' = [t \in Thread |-> IF threads[t].status = "active" THEN Put(t, at)
                                          ELSE threads[t]]
        BY <1>5 DEF RecoverAfterRestart
    <2>2. \A t \in Thread : threads'[t].at \in Times \cup {0}
        BY <1>1, <1>2, <2>1, PutTimes
    <2> QED BY <1>1, <2>1, <2>2 DEF StoreFits, TimesFit
<1>6. ASSUME NEW r \in LegacyRun, ReadRun(r)
      PROVE  StoreFits'
    BY <1>1, <1>6 DEF ReadRun, StoreFits, TimesFit
<1>7. CASE InsertArtifact
    BY <1>1, <1>7 DEF InsertArtifact, StoreFits, TimesFit
<1>8. ASSUME UNCHANGED <<threads, responses, registering, artifacts>>
      PROVE  StoreFits'
    BY <1>1, <1>8 DEF StoreFits, TimesFit
<1>9. ASSUME NEW r \in LegacyRun, SetRunStatus(r) \/ \E text \in BOOLEAN : StoreEnd(r, text)
      PROVE  StoreFits'
    BY <1>8, <1>9 DEF SetRunStatus, StoreEnd
<1>10. CASE OpenWalk \/ NextPage
    <2>1. UNCHANGED <<threads, responses, registering, artifacts>>
        BY <1>10, Zenon DEF OpenWalk, NextPage
    <2> QED BY <1>8, <2>1
<1>11. CASE UNCHANGED legacyVars
    BY <1>8, <1>11 DEF legacyVars
<1> QED BY <1>3, <1>4, <1>5, <1>6, <1>7, <1>9, <1>10, <1>11, Zenon DEF LegacyNext

\* The store's columns, its responses and its artifacts hold runs, threads and times there
\* are, whatever the clock says and wherever a restart cuts a registration off
\* (register_artifact, recover_after_restart).
THEOREM LegacyTypeCorrect == LegacySpec => []LegacyTypeOK
<1>1. LegacyInit => StoreFits
    BY DEF LegacyInit, StoreFits, TimesFit, Responses
<1>2. LegacyInvariant /\ StoreFits /\ [LegacyNext]_legacyVars => StoreFits'
    BY StoreKeeps DEF LegacyInvariant
<1>3. LegacyInvariant /\ StoreFits => LegacyTypeOK
    <2> SUFFICES ASSUME LegacyInvariant, StoreFits PROVE LegacyTypeOK
        OBVIOUS
    <2>1. LegacyTypes
        BY DEF LegacyInvariant
    <2>2. ASSUME NEW t \in Thread
          PROVE  /\ threads[t].status \in {"none", "active", "archived", "deleted"}
                 /\ threads[t].at \in Times \cup {0} /\ threads[t].last \in LegacyRun \cup {NoRow}
        <3>1. threads[t] \in ThreadRow
            BY <2>1 DEF LegacyTypes
        <3> QED BY <3>1 DEF ThreadRow, StoreFits, TimesFit
    <2>3. ASSUME NEW t \in Thread, NEW i \in DOMAIN transcript[t]
          PROVE  /\ transcript[t][i].run \in LegacyRun
                 /\ transcript[t][i].role \in {"user", "assistant"}
        <3>1. transcript[t] \in Seq(Message)
            BY <2>1 DEF LegacyTypes
        <3>2. transcript[t][i] \in Message
            BY <3>1
        <3> QED BY <3>2 DEF Message
    <2>4. \A r \in LegacyRun : /\ runRows[r].thread \in Thread \cup {NoRow}
                               /\ runRows[r].status \in {"none", "unfinished", "ended"}
        BY <2>1 DEF LegacyTypes
    <2>5. \A k \in LegacyKey : /\ responses.create_thread[k] \in Thread \cup {NoRow}
                               /\ responses.create_run[k] \in LegacyRun \cup {NoRow}
        BY DEF StoreFits, Responses
    <2>6. walk.open \in BOOLEAN /\ walk.before \subseteq Thread
        BY <2>1 DEF LegacyTypes, Walk
    <2> QED BY <2>2, <2>3, <2>4, <2>5, <2>6 DEF LegacyTypeOK, StoreFits
<1> QED BY <1>1, <1>2, <1>3, LegacyInvariance, PTL DEF LegacySpec

-----------------------------------------------------------------------------
(***************************************************************************)
(* The services together.                                                  *)
(***************************************************************************)
\* In the sum each part behaves as it does alone, so that what is proved of a part is true of
\* the program they make up: no operation of one part writes the state of another.
THEOREM ServicesSideBySide ==
    Spec => /\ HydSpec /\ AgentSpec /\ LegacySpec
            /\ AccSpec /\ ColSpec /\ SelSpec
<1>1. Init => HydInit /\ AgentInit /\ LegacyInit /\ AccInit /\ ColInit /\ SelInit
    BY DEF Init
<1>2. ASSUME [Next]_vars
      PROVE  /\ [HydNext]_hydVars /\ [AgentNext]_agentVars /\ [LegacyNext]_legacyVars
             /\ [AccNext]_accVars /\ [ColNext]_colVars /\ [SelNext]_selVars
    <2>1. CASE UNCHANGED vars
        BY <2>1 DEF vars
    <2>2. CASE Next
        BY <2>2 DEF Next, CatalogStep, AgentStep, LegacyStep, AccountStep, CollectorStep,
           SelectionStep
    <2> QED BY <1>2, <2>1, <2>2
<1>3. Spec => HydSpec /\ AgentSpec /\ LegacySpec
    BY <1>1, <1>2, PTL DEF Spec, HydSpec, AgentSpec, LegacySpec
<1>4. Spec => AccSpec /\ ColSpec /\ SelSpec
    BY <1>1, <1>2, PTL DEF Spec, AccSpec, ColSpec, SelSpec
<1> QED BY <1>3, <1>4, PTL

\* Nothing is bought twice, neither by hydrations nor by the collector, in the services as a
\* whole.
THEOREM NothingBoughtTwice == Spec => []PaidOnce
<1> QED BY ServicesSideBySide, RequestsLeaveOnce, CollectorKeepsItsCaps, PTL DEF PaidOnce

\* The state of every part of the services has its type, for any accounts, runs, pages, offers
\* and messages: what a part keeps is among what its code can put there.
THEOREM ServicesTypes == Spec => []TypeOK
<1>1. AgentInvariant => AgentTypeOK
    BY DEF AgentInvariant
<1>2. HydSpec /\ AgentSpec /\ LegacySpec => [](HydTypeOK /\ AgentTypeOK /\ LegacyTypeOK)
    BY <1>1, HydTypeCorrect, AgentInvariance, LegacyTypeCorrect, PTL
<1>3. AccSpec /\ ColSpec /\ SelSpec => [](AccTypeOK /\ ColTypeOK /\ SelTypeOK)
    BY AccountsTypes, CollectorTypes, SelectionTypes, PTL
<1> QED BY <1>2, <1>3, ServicesSideBySide, PTL DEF TypeOK
=============================================================================
