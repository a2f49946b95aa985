---------------------------- MODULE SessionStore ----------------------------
(***************************************************************************)
(* The PostgreSQL session store (app/database/session_store.py): threads,  *)
(* runs, run results, messages and idempotency keys of one user.  Each     *)
(* operator below is one committed transaction; the module that composes   *)
(* it decides when a transaction commits relative to everything else.      *)
(*                                                                         *)
(* One user is enough: create_run and replace_thread lock the user's row,  *)
(* and no row of one user is read on behalf of another.                    *)
(***************************************************************************)
EXTENDS Naturals, Sequences, FiniteSets

CONSTANTS
    Thread,     \* thread ids that may ever be issued (uuid4 values)
    Run,        \* run ids that may ever be issued (uuid4 values)
    Key,        \* client_request_id values
    NoThread,   \* None, where a thread id is expected
    NoRun       \* None, where a run id is expected

ASSUME StoreAssumption ==
    /\ NoThread \notin Thread
    /\ NoRun \notin Run

VARIABLES
    threadStatus,   \* threads.status; "deleted" once an empty thread is dropped
    runStatus,      \* runs.status; "absent" until create_run inserts the row
    threadOf,       \* runs.thread_id
    result,         \* the run_results row: the status it was written with, or "none"
    messages,       \* messages of a thread in ordinal order: <<role, run>>
    idemRun,        \* idempotency_keys of operation "create_run"
    idemThread      \* idempotency_keys of operation "create_thread"

db == <<threadStatus, runStatus, threadOf, result, messages, idemRun, idemThread>>

ActiveStatuses   == {"starting", "running", "cancelling"}
FinishStatuses   == {"succeeded", "failed", "cancelled"}
TerminalStatuses == FinishStatuses \cup {"interrupted"}
ThreadStatuses   == {"absent", "active", "archived", "deleted"}

StoreTypeOK ==
    /\ threadStatus \in [Thread -> ThreadStatuses]
    /\ runStatus \in [Run -> {"absent"} \cup ActiveStatuses \cup TerminalStatuses]
    /\ threadOf \in [Run -> Thread \cup {NoThread}]
    /\ result \in [Run -> {"none"} \cup FinishStatuses]
    /\ messages \in [Thread -> Seq({"user", "assistant"} \X Run)]
    /\ idemRun \in [Key -> Run \cup {NoRun}]
    /\ idemThread \in [Key -> Thread \cup {NoThread}]

(***************************************************************************)
(* A user starts with no thread, or with the active thread an earlier      *)
(* session of the client created.                                          *)
(***************************************************************************)
StoreInit ==
    /\ \E S \in {{}} \cup {{t} : t \in Thread} :
            threadStatus = [t \in Thread |-> IF t \in S THEN "active" ELSE "absent"]
    /\ runStatus = [r \in Run |-> "absent"]
    /\ threadOf = [r \in Run |-> NoThread]
    /\ result = [r \in Run |-> "none"]
    /\ messages = [t \in Thread |-> <<>>]
    /\ idemRun = [k \in Key |-> NoRun]
    /\ idemThread = [k \in Key |-> NoThread]

-----------------------------------------------------------------------------
RunsOf(t)     == {r \in Run : threadOf[r] = t}
Unfinished(t) == {r \in RunsOf(t) : runStatus[r] \in ActiveStatuses}
ActiveThreads == {t \in Thread : threadStatus[t] = "active"}

\* SELECT ... WHERE status = 'active' for the user, or None.
ActiveThread == IF ActiveThreads = {} THEN NoThread ELSE CHOOSE t \in ActiveThreads : TRUE

\* threads.last_run_id: the run of the newest user message.
LastRun(t) ==
    LET asked == {i \in DOMAIN messages[t] : messages[t][i][1] = "user"}
    IN  IF asked = {} THEN NoRun
        ELSE messages[t][CHOOSE i \in asked : \A j \in asked : j <= i][2]

-----------------------------------------------------------------------------
\* Faulty variant: the check for an unfinished run is dropped.
MayCreateRunUnchecked(k, t) == idemRun[k] # NoRun \/ threadStatus[t] = "active"

\* create_run commits: a replayed key inserts nothing, otherwise the thread
\* must be active and without an unfinished run.
MayCreateRun(k, t) ==
    \/ idemRun[k] # NoRun
    \/ /\ threadStatus[t] = "active"
       /\ Unfinished(t) = {}

\* Faulty variant: the idempotency key is not stored with the run.
CreateRunKeyless(k, t, r) ==
    /\ MayCreateRun(k, t)
    /\ runStatus[r] = "absent"
    /\ runStatus' = [runStatus EXCEPT ![r] = "starting"]
    /\ threadOf' = [threadOf EXCEPT ![r] = t]
    /\ messages' = [messages EXCEPT ![t] = Append(@, <<"user", r>>)]
    /\ UNCHANGED <<threadStatus, result, idemRun, idemThread>>

CreateRun(k, t, r) ==
    /\ MayCreateRun(k, t)
    /\ IF idemRun[k] # NoRun
       THEN UNCHANGED db
       ELSE /\ runStatus[r] = "absent"
            /\ runStatus' = [runStatus EXCEPT ![r] = "starting"]
            /\ threadOf' = [threadOf EXCEPT ![r] = t]
            /\ messages' = [messages EXCEPT ![t] = Append(@, <<"user", r>>)]
            /\ idemRun' = [idemRun EXCEPT ![k] = r]
            /\ UNCHANGED <<threadStatus, result, idemThread>>

\* set_run_status: an UPDATE with no condition on the current status.
SetRunStatus(r, status) ==
    /\ runStatus' = [runStatus EXCEPT ![r] = status]
    /\ UNCHANGED <<threadStatus, threadOf, result, messages, idemRun, idemThread>>

\* Faulty variant: a second run_results row replaces the first.
MayFinishRunAgain(r) == TRUE

\* finish_run on a row that is not terminal; said tells whether there is text to
\* keep.  A second run_results row for the run breaks the primary key.
MayFinishRun(r) == runStatus[r] \in TerminalStatuses \/ result[r] = "none"

FinishRun(r, status, said) ==
    IF runStatus[r] \in TerminalStatuses
    THEN UNCHANGED db
    ELSE /\ MayFinishRun(r)
         /\ runStatus' = [runStatus EXCEPT ![r] = status]
         /\ result' = [result EXCEPT ![r] = status]
         /\ messages' = [messages EXCEPT ![threadOf[r]] =
                            IF said THEN Append(@, <<"assistant", r>>) ELSE @]
         /\ UNCHANGED <<threadStatus, threadOf, idemRun, idemThread>>

\* Faulty variant: the active thread is archived whatever its runs are doing.
MayReplaceThreadUnchecked(k, current) == idemThread[k] # NoThread \/ ActiveThread = current

\* replace_thread: the client's view of the active thread must be current and the
\* thread quiet; a thread with content is archived, an empty one deleted.
MayReplaceThread(k, current) ==
    \/ idemThread[k] # NoThread
    \/ /\ ActiveThread = current
       /\ current # NoThread => Unfinished(current) = {}

\* Faulty variant: a status the schema does not know.
RetiredUnknownStatus(t) == IF RunsOf(t) = {} THEN "deleted" ELSE "replaced"

Retired(t) == IF RunsOf(t) = {} THEN "deleted" ELSE "archived"

ReplaceThread(k, current, new) ==
    /\ MayReplaceThread(k, current)
    /\ IF idemThread[k] # NoThread
       THEN UNCHANGED db
       ELSE /\ threadStatus[new] = "absent"
            /\ threadStatus' = [t \in Thread |->
                    IF t = new THEN "active"
                    ELSE IF t = current THEN Retired(t) ELSE threadStatus[t]]
            /\ idemThread' = [idemThread EXCEPT ![k] = new]
            /\ UNCHANGED <<runStatus, threadOf, result, messages, idemRun>>

\* Faulty variant: only runs seen running are interrupted.
RecoverOnlyRunning ==
    /\ runStatus' = [r \in Run |->
            IF runStatus[r] = "running" THEN "interrupted" ELSE runStatus[r]]
    /\ threadStatus' = [t \in Thread |->
            IF threadStatus[t] = "active" THEN Retired(t) ELSE threadStatus[t]]
    /\ UNCHANGED <<threadOf, result, messages, idemRun, idemThread>>

\* recover_after_restart: unfinished runs are interrupted (no result row), the
\* active thread is archived, or deleted when it has no content.
RecoverAfterRestart ==
    /\ runStatus' = [r \in Run |->
            IF runStatus[r] \in ActiveStatuses THEN "interrupted" ELSE runStatus[r]]
    /\ threadStatus' = [t \in Thread |->
            IF threadStatus[t] = "active" THEN Retired(t) ELSE threadStatus[t]]
    /\ UNCHANGED <<threadOf, result, messages, idemRun, idemThread>>
=============================================================================
