---------------------------- MODULE RunRegistry -----------------------------
(***************************************************************************)
(* The run registry (app/api/run_registry.py) over the session store: API  *)
(* requests that start a run, replace the active thread or cancel a run,   *)
(* and the asyncio task that executes each run, in one process that may    *)
(* shut down or crash and be restarted.                                    *)
(*                                                                         *)
(* A coroutine runs alone between two awaits, so one action here is the    *)
(* code from one suspension to the next.  A database call is two actions:  *)
(* the commit, and the resumption of whoever waits for it.  EventBroker    *)
(* and lock operations that find the lock free do not suspend.             *)
(***************************************************************************)
EXTENDS SessionStore

CONSTANTS
    Req,        \* API requests, each served once
    NoReq,      \* a free lock
    MaxFaults,  \* bound: database calls that fail
    MaxStops    \* bound: shutdowns and crashes of the process

ASSUME RegistryAssumption ==
    /\ NoReq \notin Req
    /\ MaxFaults \in Nat
    /\ MaxStops \in Nat

VARIABLES
    \* the process and its registry
    server,       \* "up", "closing" (close() called) or "down"
    closeWait,    \* runs whose tasks close() gathers
    activeTasks,  \* active_tasks: thread -> run of its handle
    userLock, threadLock,
    \* the handle and task of each run
    hstatus,      \* handle.status
    tpc,          \* where the task is suspended
    cancelled,    \* task.cancel() was called and not yet delivered
    awaits,       \* the finish_run call the task waits for
    saved,        \* its outcome
    finishing,    \* finish_run calls not committed yet (asyncio.shield keeps them)
    stream,       \* the events published for the run
    \* each API request
    kind, pc, key, thr, run, seen,
    \* bounds
    faults, stops

procVars == <<server, closeWait>>
lockVars == <<userLock, threadLock>>
taskVars == <<hstatus, tpc, cancelled, awaits, saved, finishing>>
reqVars  == <<kind, pc, key, thr, run, seen>>
bounds   == <<faults, stops>>
vars == <<db, procVars, activeTasks, lockVars, taskVars, stream, reqVars, bounds>>

-----------------------------------------------------------------------------
TerminalEvents == {"RUN_FINISHED", "RUN_ERROR", "TASK_CANCELLED"}
Events == TerminalEvents \cup {"RUN_STARTED", "TEXT_MESSAGE_END", "thread_archived"}

\* Where a task is: "created" has not run yet, "starting"/"started" is before and
\* after the commit of status running, "saving" waits for a finish_run; "killed"
\* was cancelled before its first step, "dead" went down with its process.
LivePCs == {"created", "starting", "started", "agent", "saving"}
TaskPCs == LivePCs \cup {"none", "ended", "killed", "dead"}
Live(r)      == tpc[r] \in LivePCs
Started(r)   == tpc[r] \notin {"none", "created", "killed"}  \* started_event is set
DoneEvent(r) == tpc[r] = "ended"                             \* done_event is set

\* Where a request is.  It holds its thread's lock at ThreadPCs, the user's lock
\* from "idem" on when it is not a cancel.
FinalPCs == {"ok", "error", "lost"}
WaitPCs  == {"check", "decide", "mark", "marked", "await", "drain", "recheck"}
ThreadPCs == WaitPCs \cup {"insert", "inserted", "await_start"}
UserPCs   == ThreadPCs \cup {"idem", "read_active", "want_thread", "replace", "announce"}
ReqPCs == UserPCs \cup FinalPCs \cup {"idle", "want_user", "read_run"}

RegistryTypeOK ==
    /\ server \in {"up", "closing", "down"}
    /\ closeWait \in SUBSET Run
    /\ activeTasks \in [Thread -> Run \cup {NoRun}]
    /\ userLock \in Req \cup {NoReq}
    /\ threadLock \in [Thread -> Req \cup {NoReq}]
    /\ faults \in 0..MaxFaults
    /\ stops \in 0..MaxStops

TaskTypeOK ==
    /\ hstatus \in [Run -> {"none", "starting", "running", "cancelling"} \cup FinishStatuses]
    /\ tpc \in [Run -> TaskPCs]
    /\ cancelled \in [Run -> BOOLEAN]
    /\ awaits \in [Run -> {"none"} \cup FinishStatuses]
    /\ saved \in [Run -> {"none", "ok", "error"}]
    /\ finishing \in [Run -> SUBSET FinishStatuses]
    /\ stream \in [Run -> Seq(Events)]

RequestTypeOK ==
    /\ kind \in [Req -> {"none", "start", "create", "cancel"}]
    /\ pc \in [Req -> ReqPCs]
    /\ key \in [Req -> Key \cup {NoReq}]
    /\ thr \in [Req -> Thread \cup {NoThread}]
    /\ run \in [Req -> Run \cup {NoRun}]
    /\ seen \in [Req -> {"none", "absent"} \cup ActiveStatuses \cup TerminalStatuses]

TypeOK == StoreTypeOK /\ RegistryTypeOK /\ TaskTypeOK /\ RequestTypeOK

Init ==
    /\ StoreInit
    /\ server = "up"
    /\ closeWait = {}
    /\ activeTasks = [t \in Thread |-> NoRun]
    /\ userLock = NoReq
    /\ threadLock = [t \in Thread |-> NoReq]
    /\ hstatus = [r \in Run |-> "none"]
    /\ tpc = [r \in Run |-> "none"]
    /\ cancelled = [r \in Run |-> FALSE]
    /\ awaits = [r \in Run |-> "none"]
    /\ saved = [r \in Run |-> "none"]
    /\ finishing = [r \in Run |-> {}]
    /\ stream = [r \in Run |-> <<>>]
    /\ kind = [q \in Req |-> "none"]
    /\ pc = [q \in Req |-> "idle"]
    /\ key = [q \in Req |-> NoReq]
    /\ thr = [q \in Req |-> NoThread]
    /\ run = [q \in Req |-> NoRun]
    /\ seen = [q \in Req |-> "none"]
    /\ faults = 0
    /\ stops = 0

-----------------------------------------------------------------------------
Goto(q, p) == pc' = [pc EXCEPT ![q] = p]

\* Leaving the `async with` blocks.
ReleaseThread(q) == threadLock' = [t \in Thread |-> IF threadLock[t] = q THEN NoReq
                                                    ELSE threadLock[t]]
\* Leaving the user's block.
ReleaseUser(q)   == userLock' = IF userLock = q THEN NoReq ELSE userLock

Return(q, p) == Goto(q, p) /\ ReleaseThread(q) /\ ReleaseUser(q)

\* broker.publish: one terminal event per stream, every other event is appended.
Terminal(r) == \E i \in DOMAIN stream[r] : stream[r][i] \in TerminalEvents
Publish(r, events) == stream' = [stream EXCEPT ![r] = @ \o events]

(***************************************************************************)
(* Requests arrive.  Fresh ids are bounded by the sets Run and Thread: a   *)
(* request that may need one arrives only while one is left for it.        *)
(***************************************************************************)
Arrive(q, op, k, t, r, p) ==
    /\ server # "down"
    /\ pc[q] = "idle"
    /\ kind' = [kind EXCEPT ![q] = op]
    /\ key' = [key EXCEPT ![q] = k]
    /\ thr' = [thr EXCEPT ![q] = t]
    /\ run' = [run EXCEPT ![q] = r]
    /\ Goto(q, p)
    /\ UNCHANGED <<db, procVars, activeTasks, lockVars, taskVars, stream, seen, bounds>>

InFlight(op) == {q \in Req : kind[q] = op /\ pc[q] \notin FinalPCs}

\* start_run, l.161: refused once close() has been called.
ArriveStart(q, k, t) ==
    /\ Cardinality({r \in Run : runStatus[r] = "absent"}) > Cardinality(InFlight("start"))
    /\ threadStatus[t] # "absent"
    /\ Arrive(q, "start", k, t, NoRun, IF server = "closing" THEN "error" ELSE "want_user")

ArriveCreate(q, k, current) ==
    /\ Cardinality({t \in Thread : threadStatus[t] = "absent"}) > Cardinality(InFlight("create"))
    /\ current # NoThread => threadStatus[current] # "absent"
    /\ Arrive(q, "create", k, current, NoRun, "want_user")

ArriveCancel(q, r) ==
    /\ runStatus[r] # "absent"
    /\ Arrive(q, "cancel", NoReq, threadOf[r], r, "read_run")

LockUser(q) ==
    /\ pc[q] = "want_user"
    /\ userLock = NoReq
    /\ userLock' = q
    /\ Goto(q, "idem")
    /\ UNCHANGED <<db, procVars, activeTasks, threadLock, taskVars, stream,
                   kind, key, thr, run, seen, bounds>>

\* idempotent_response: a known key is answered from the table.
ReadIdem(q) ==
    /\ pc[q] = "idem"
    /\ \/ /\ kind[q] = "start" /\ idemRun[key[q]] # NoRun
          /\ run' = [run EXCEPT ![q] = idemRun[key[q]]]
          /\ Return(q, "ok")
          /\ UNCHANGED thr
       \/ /\ kind[q] = "create" /\ idemThread[key[q]] # NoThread
          /\ thr' = [thr EXCEPT ![q] = idemThread[key[q]]]
          /\ Return(q, "ok")
          /\ UNCHANGED run
       \/ /\ kind[q] = "start" /\ idemRun[key[q]] = NoRun
          /\ Goto(q, "want_thread")
          /\ UNCHANGED <<lockVars, thr, run>>
       \/ /\ kind[q] = "create" /\ idemThread[key[q]] = NoThread
          /\ Goto(q, "read_active")
          /\ UNCHANGED <<lockVars, thr, run>>
    /\ UNCHANGED <<db, procVars, activeTasks, taskVars, stream, kind, key, seen, bounds>>

\* create_thread, l.219-235: the client must name the active thread.
ReadActive(q) ==
    /\ pc[q] = "read_active"
    /\ IF ActiveThread # thr[q] THEN Return(q, "error")
       ELSE /\ Goto(q, IF thr[q] = NoThread THEN "replace" ELSE "want_thread")
            /\ UNCHANGED lockVars
    /\ UNCHANGED <<db, procVars, activeTasks, taskVars, stream, kind, key, thr, run, seen, bounds>>

\* cancel_run, l.263: the status is read before the thread lock is taken.
ReadRun(q) ==
    /\ pc[q] = "read_run"
    /\ seen' = [seen EXCEPT ![q] = runStatus[run[q]]]
    /\ Goto(q, IF runStatus[run[q]] \in TerminalStatuses THEN "ok" ELSE "want_thread")
    /\ UNCHANGED <<db, procVars, activeTasks, lockVars, taskVars, stream,
                   kind, key, thr, run, bounds>>

-----------------------------------------------------------------------------
\* The thread lock is acquired and the registry looked up in the same step.
TakesLock(q, op) ==
    /\ pc[q] = "want_thread"
    /\ kind[q] = op
    /\ threadLock[thr[q]] = NoReq

Handle(q) == activeTasks[thr[q]]

\* start_run and create_thread: a handle found is cancelled and waited for;
\* create_thread leaves the lock at once when there is none.
LockToReplace(q) ==
    /\ \/ TakesLock(q, "start")
       \/ TakesLock(q, "create") /\ Handle(q) # NoRun
    /\ threadLock' = [threadLock EXCEPT ![thr[q]] = q]
    /\ run' = [run EXCEPT ![q] = Handle(q)]
    /\ Goto(q, IF Handle(q) = NoRun THEN "insert" ELSE "check")
    /\ UNCHANGED <<db, procVars, activeTasks, userLock, taskVars, stream,
                   kind, key, thr, seen, bounds>>

LockNothingToReplace(q) ==
    /\ TakesLock(q, "create")
    /\ Handle(q) = NoRun
    /\ Goto(q, "replace")
    /\ UNCHANGED <<db, procVars, activeTasks, lockVars, taskVars, stream,
                   kind, key, thr, run, seen, bounds>>

\* cancel_run, l.274-282: the handle must be the named run's; a handle already
\* cancelling is answered without another cancel().
LockToCancel(q) ==
    /\ TakesLock(q, "cancel")
    /\ Handle(q) = run[q]
    /\ hstatus[run[q]] # "cancelling"
    /\ hstatus' = [hstatus EXCEPT ![run[q]] = "cancelling"]
    /\ threadLock' = [threadLock EXCEPT ![thr[q]] = q]
    /\ Goto(q, "mark")
    /\ UNCHANGED <<db, procVars, activeTasks, userLock, tpc, cancelled, awaits, saved, finishing,
                   stream, kind, key, thr, run, seen, bounds>>

LockNothingToCancel(q) ==
    /\ TakesLock(q, "cancel")
    /\ Handle(q) # run[q] \/ hstatus[run[q]] = "cancelling"
    /\ Goto(q, IF Handle(q) # run[q] THEN "error" ELSE "ok")
    /\ UNCHANGED <<db, procVars, activeTasks, lockVars, taskVars, stream,
                   kind, key, thr, run, seen, bounds>>

(***************************************************************************)
(* _cancel_and_wait, shared by start_run and create_thread; cancel_run     *)
(* shares "mark" and "marked".                                             *)
(***************************************************************************)
CheckStatus(q) ==
    /\ pc[q] = "check"
    /\ seen' = [seen EXCEPT ![q] = runStatus[run[q]]]
    /\ Goto(q, "decide")
    /\ UNCHANGED <<db, procVars, activeTasks, lockVars, taskVars, stream,
                   kind, key, thr, run, bounds>>

Decide(q) ==
    /\ pc[q] = "decide"
    /\ LET marks == seen[q] \notin TerminalStatuses /\ hstatus[run[q]] # "cancelling"
       IN  /\ hstatus' = IF marks THEN [hstatus EXCEPT ![run[q]] = "cancelling"] ELSE hstatus
           /\ Goto(q, IF marks THEN "mark"
                      ELSE IF seen[q] \in TerminalStatuses THEN "drain" ELSE "await")
    /\ UNCHANGED <<db, procVars, activeTasks, lockVars, tpc, cancelled, awaits, saved, finishing,
                   stream, kind, key, thr, run, seen, bounds>>

MarkCancelling(q) ==
    /\ pc[q] = "mark"
    /\ SetRunStatus(run[q], "cancelling")
    /\ Goto(q, "marked")
    /\ UNCHANGED <<procVars, activeTasks, lockVars, taskVars, stream,
                   kind, key, thr, run, seen, bounds>>

\* Faulty variant: cancel_run answers "cancelling" without cancelling the task.
CancelTaskOnPaper(q) ==
    /\ pc[q] = "marked"
    /\ IF kind[q] = "cancel" THEN Return(q, "ok") /\ UNCHANGED cancelled
       ELSE /\ Goto(q, "await")
            /\ cancelled' = [cancelled EXCEPT ![run[q]] = @ \/ Live(run[q])]
            /\ UNCHANGED lockVars
    /\ UNCHANGED <<db, procVars, activeTasks, hstatus, tpc, awaits, saved, finishing, stream,
                   kind, key, thr, run, seen, bounds>>

\* task.cancel() does nothing to a task that is done.
CancelTask(q) ==
    /\ pc[q] = "marked"
    /\ cancelled' = [cancelled EXCEPT ![run[q]] = @ \/ Live(run[q])]
    /\ IF kind[q] = "cancel" THEN Return(q, "ok")
       ELSE Goto(q, "await") /\ UNCHANGED lockVars
    /\ UNCHANGED <<db, procVars, activeTasks, hstatus, tpc, awaits, saved, finishing, stream,
                   kind, key, thr, run, seen, bounds>>

\* The old run is out of the way: start_run goes on under the thread lock,
\* create_thread releases it first.
Proceed(q) ==
    IF kind[q] = "start" THEN Goto(q, "insert") /\ UNCHANGED lockVars
    ELSE Goto(q, "replace") /\ ReleaseThread(q) /\ UNCHANGED userLock

\* Faulty variant: a run whose row is terminal is not waited for.
AwaitDoneUnlessTerminal(q) ==
    /\ pc[q] \in {"await", "drain"}
    /\ pc[q] = "await" => DoneEvent(run[q])
    /\ IF pc[q] = "drain" THEN Proceed(q) ELSE Goto(q, "recheck") /\ UNCHANGED lockVars
    /\ UNCHANGED <<db, procVars, activeTasks, taskVars, stream, kind, key, thr, run, seen, bounds>>

AwaitDone(q) ==
    /\ pc[q] \in {"await", "drain"}
    /\ DoneEvent(run[q])
    /\ IF pc[q] = "drain" THEN Proceed(q) ELSE Goto(q, "recheck") /\ UNCHANGED lockVars
    /\ UNCHANGED <<db, procVars, activeTasks, taskVars, stream, kind, key, thr, run, seen, bounds>>

\* 409 RUN_REPLACEMENT_TIMEOUT
AwaitTimeout(q) ==
    /\ pc[q] \in {"await", "drain"}
    /\ ~DoneEvent(run[q])
    /\ Return(q, "error")
    /\ UNCHANGED <<db, procVars, activeTasks, taskVars, stream, kind, key, thr, run, seen, bounds>>

\* 409 RUN_CANCELLATION_FAILED unless the row is terminal by now.
Recheck(q) ==
    /\ pc[q] = "recheck"
    /\ IF runStatus[run[q]] \in TerminalStatuses THEN Proceed(q) ELSE Return(q, "error")
    /\ UNCHANGED <<db, procVars, activeTasks, taskVars, stream, kind, key, thr, run, seen, bounds>>

-----------------------------------------------------------------------------
\* create_run commits, or is refused (404, THREAD_ARCHIVED, RUN_REPLACEMENT_TIMEOUT).
InsertRun(q, r) ==
    /\ pc[q] = "insert"
    /\ runStatus[r] = "absent"
    /\ CreateRun(key[q], thr[q], r)
    /\ run' = [run EXCEPT ![q] = IF idemRun[key[q]] = NoRun THEN r ELSE idemRun[key[q]]]
    /\ IF idemRun[key[q]] = NoRun THEN Goto(q, "inserted") /\ UNCHANGED lockVars
       ELSE Return(q, "ok")
    /\ UNCHANGED <<procVars, activeTasks, taskVars, stream, kind, key, thr, seen, bounds>>

InsertRefused(q) ==
    /\ pc[q] = "insert"
    /\ ~MayCreateRun(key[q], thr[q])
    /\ Return(q, "error")
    /\ UNCHANGED <<db, procVars, activeTasks, taskVars, stream, kind, key, thr, run, seen, bounds>>

\* ensure_stream, the handle, create_task; then wait for started_event.
Spawn(q) ==
    /\ pc[q] = "inserted"
    /\ activeTasks' = [activeTasks EXCEPT ![thr[q]] = run[q]]
    /\ hstatus' = [hstatus EXCEPT ![run[q]] = "starting"]
    /\ tpc' = [tpc EXCEPT ![run[q]] = "created"]
    /\ Goto(q, "await_start")
    /\ UNCHANGED <<db, procVars, lockVars, cancelled, awaits, saved, finishing, stream,
                   kind, key, thr, run, seen, bounds>>

AwaitStarted(q) ==
    /\ pc[q] = "await_start"
    /\ Started(run[q])
    /\ Return(q, "ok")
    /\ UNCHANGED <<db, procVars, activeTasks, taskVars, stream, kind, key, thr, run, seen, bounds>>

\* replace_thread commits; the last run of the archived thread is remembered.
CommitReplace(q, new) ==
    /\ pc[q] = "replace"
    /\ threadStatus[new] = "absent"
    /\ ReplaceThread(key[q], thr[q], new)
    /\ LET archived == IF thr[q] = NoThread THEN NoRun ELSE LastRun(thr[q])
       IN  /\ run' = [run EXCEPT ![q] = archived]
           /\ IF archived = NoRun THEN Return(q, "ok") ELSE Goto(q, "announce") /\ UNCHANGED lockVars
    /\ thr' = [thr EXCEPT ![q] = idemThread'[key[q]]]
    /\ UNCHANGED <<procVars, activeTasks, taskVars, stream, kind, key, seen, bounds>>

ReplaceRefused(q) ==
    /\ pc[q] = "replace"
    /\ ~MayReplaceThread(key[q], thr[q])
    /\ Return(q, "error")
    /\ UNCHANGED <<db, procVars, activeTasks, taskVars, stream, kind, key, thr, run, seen, bounds>>

AnnounceArchived(q) ==
    /\ pc[q] = "announce"
    /\ Publish(run[q], <<"thread_archived">>)
    /\ Return(q, "ok")
    /\ UNCHANGED <<db, procVars, activeTasks, taskVars, kind, key, thr, run, seen, bounds>>

(***************************************************************************)
(* The task of a run.  A task whose cancel() is pending is resumed with    *)
(* CancelledError and nothing else (DeliverCancel).                        *)
(***************************************************************************)
Resumes(r, p) == tpc[r] = p /\ ~cancelled[r]

TaskFrame == UNCHANGED <<procVars, lockVars, reqVars, bounds>>

BeginTask(r) ==
    /\ Resumes(r, "created")
    /\ hstatus' = [hstatus EXCEPT ![r] = "running"]
    /\ tpc' = [tpc EXCEPT ![r] = "starting"]
    /\ UNCHANGED <<db, activeTasks, cancelled, awaits, saved, finishing, stream>>
    /\ TaskFrame

CommitRunning(r) ==
    /\ tpc[r] = "starting"
    /\ SetRunStatus(r, "running")
    /\ tpc' = [tpc EXCEPT ![r] = "started"]
    /\ UNCHANGED <<activeTasks, hstatus, cancelled, awaits, saved, finishing, stream>>
    /\ TaskFrame

EnterAgent(r) ==
    /\ Resumes(r, "started")
    /\ tpc' = [tpc EXCEPT ![r] = "agent"]
    /\ Publish(r, <<"RUN_STARTED">>)
    /\ UNCHANGED <<db, activeTasks, hstatus, cancelled, awaits, saved, finishing>>
    /\ TaskFrame

\* The call store.finish_run(status) is issued behind asyncio.shield.
Saves(r, status) ==
    /\ tpc' = [tpc EXCEPT ![r] = "saving"]
    /\ awaits' = [awaits EXCEPT ![r] = status]
    /\ saved' = [saved EXCEPT ![r] = "none"]
    /\ finishing' = [finishing EXCEPT ![r] = @ \cup {status}]

\* The agent returns its answer, or raises.
AgentEnds(r, status) ==
    /\ Resumes(r, "agent")
    /\ Saves(r, status)
    /\ UNCHANGED <<db, activeTasks, hstatus, cancelled, stream>>
    /\ TaskFrame

\* finish_run runs in a task of its own: its commit, or the error it ends with.
Settles(r, status, outcome) ==
    /\ finishing' = [finishing EXCEPT ![r] = @ \ {status}]
    /\ saved' = IF tpc[r] = "saving" /\ awaits[r] = status
                THEN [saved EXCEPT ![r] = outcome] ELSE saved

CommitFinish(r, status) ==
    /\ status \in finishing[r]
    /\ \E said \in BOOLEAN : FinishRun(r, status, said)
    /\ Settles(r, status, "ok")
    /\ UNCHANGED <<activeTasks, hstatus, tpc, cancelled, awaits, stream>>
    /\ TaskFrame

FinishConflict(r, status) ==
    /\ status \in finishing[r]
    /\ ~MayFinishRun(r)
    /\ Settles(r, status, "error")
    /\ UNCHANGED <<db, activeTasks, hstatus, tpc, cancelled, awaits, stream>>
    /\ TaskFrame

\* Faulty variant: the handle stays registered.
FinallyRegistered(r) ==
    /\ tpc' = [tpc EXCEPT ![r] = "ended"]
    /\ UNCHANGED activeTasks

\* The `finally` block: unregister by identity, set done_event.
Finally(r) ==
    /\ tpc' = [tpc EXCEPT ![r] = "ended"]
    /\ activeTasks' = [t \in Thread |-> IF activeTasks[t] = r THEN NoRun ELSE activeTasks[t]]

TerminalEventOf == [succeeded |-> "RUN_FINISHED", failed |-> "RUN_ERROR",
                    cancelled |-> "TASK_CANCELLED"]

\* TEXT_MESSAGE_END belongs to a message that was started.
Closing(r) == IF stream[r] = <<>> THEN <<>> ELSE <<"TEXT_MESSAGE_END">>

\* Faulty variant: the terminal event does not wait for finish_run.
EndTaskUnsaved(r) ==
    /\ Resumes(r, "saving")
    /\ Publish(r, Closing(r) \o <<TerminalEventOf[awaits[r]]>>)
    /\ hstatus' = [hstatus EXCEPT ![r] = awaits[r]]
    /\ Finally(r)
    /\ UNCHANGED <<db, cancelled, awaits, saved, finishing>>
    /\ TaskFrame

\* finish_run returned: publish the terminal event and clean up without suspending.
EndTask(r) ==
    /\ Resumes(r, "saving")
    /\ saved[r] = "ok"
    /\ Publish(r, Closing(r) \o <<TerminalEventOf[awaits[r]]>>)
    /\ hstatus' = [hstatus EXCEPT ![r] = awaits[r]]
    /\ Finally(r)
    /\ UNCHANGED <<db, cancelled, awaits, saved, finishing>>
    /\ TaskFrame

\* Faulty variant: every error of finish_run is answered by recording a failure.
SaveFailedRetries(r) ==
    /\ Resumes(r, "saving")
    /\ saved[r] = "error"
    /\ Saves(r, "failed")
    /\ UNCHANGED <<db, activeTasks, hstatus, cancelled, stream>>
    /\ TaskFrame

\* finish_run raised: `except Exception` records a failure, but an error of that
\* handler (or of the CancelledError handler) leaves through `finally`.
SaveFailed(r) ==
    /\ Resumes(r, "saving")
    /\ saved[r] = "error"
    /\ IF awaits[r] = "succeeded"
       THEN Saves(r, "failed") /\ UNCHANGED activeTasks
       ELSE Finally(r) /\ UNCHANGED <<awaits, saved, finishing>>
    /\ UNCHANGED <<db, hstatus, cancelled, stream>>
    /\ TaskFrame

\* CancelledError is thrown at the await: before the first step the coroutine body
\* never runs; inside an except handler it leaves through `finally`; anywhere
\* else the CancelledError handler starts.  A shielded finish_run keeps running.
DeliverCancel(r) ==
    /\ cancelled[r]
    /\ Live(r)
    /\ cancelled' = [cancelled EXCEPT ![r] = FALSE]
    /\ IF tpc[r] = "created"
       THEN /\ tpc' = [tpc EXCEPT ![r] = "killed"]
            /\ UNCHANGED <<activeTasks, awaits, saved, finishing>>
       ELSE IF tpc[r] = "saving" /\ awaits[r] # "succeeded"
       THEN Finally(r) /\ UNCHANGED <<awaits, saved, finishing>>
       ELSE Saves(r, "cancelled") /\ UNCHANGED activeTasks
    /\ UNCHANGED <<db, hstatus, stream>>
    /\ TaskFrame

(***************************************************************************)
(* Database calls that raise.                                              *)
(***************************************************************************)
Fault == faults < MaxFaults /\ faults' = faults + 1

DatabasePCs == {"idem", "read_active", "read_run", "check", "mark", "recheck", "insert", "replace"}

RequestFault(q) ==
    /\ Fault
    /\ pc[q] \in DatabasePCs
    /\ Return(q, "error")
    /\ UNCHANGED <<db, procVars, activeTasks, taskVars, stream, kind, key, thr, run, seen, stops>>

StartingFault(r) ==
    /\ Fault
    /\ Resumes(r, "starting")
    /\ Saves(r, "failed")
    /\ UNCHANGED <<db, procVars, activeTasks, lockVars, hstatus, cancelled, stream, reqVars, stops>>

FinishFault(r, status) ==
    /\ Fault
    /\ status \in finishing[r]
    /\ Settles(r, status, "error")
    /\ UNCHANGED <<db, procVars, activeTasks, lockVars, hstatus, tpc, cancelled, awaits, stream,
                   reqVars, stops>>

(***************************************************************************)
(* The process.                                                            *)
(***************************************************************************)
Stop == stops < MaxStops /\ stops' = stops + 1

\* close(): cancel every registered task that is not done, and gather them.
Close ==
    /\ Stop
    /\ server = "up"
    /\ server' = "closing"
    /\ LET open == {r \in Run : Live(r) /\ \E t \in Thread : activeTasks[t] = r}
       IN  /\ closeWait' = open
           /\ hstatus' = [r \in Run |-> IF r \in open THEN "cancelling" ELSE hstatus[r]]
           /\ cancelled' = [r \in Run |-> cancelled[r] \/ r \in open]
    /\ UNCHANGED <<db, activeTasks, lockVars, tpc, awaits, saved, finishing, stream, reqVars, faults>>

\* What was in memory is gone; a request being served gets no answer.
LoseMemory ==
    /\ server' = "down"
    /\ closeWait' = {}
    /\ activeTasks' = [t \in Thread |-> NoRun]
    /\ userLock' = NoReq
    /\ threadLock' = [t \in Thread |-> NoReq]
    /\ tpc' = [r \in Run |-> IF Live(r) THEN "dead" ELSE tpc[r]]
    /\ cancelled' = [r \in Run |-> FALSE]
    /\ finishing' = [r \in Run |-> {}]
    /\ stream' = [r \in Run |-> <<>>]
    /\ pc' = [q \in Req |-> IF pc[q] \in FinalPCs \cup {"idle"} THEN pc[q] ELSE "lost"]
    /\ UNCHANGED <<db, hstatus, awaits, saved, kind, key, thr, run, seen, faults>>

\* After the gather: broker.close, store.close and the end of the process.
Exit ==
    /\ server = "closing"
    /\ \A r \in closeWait : ~Live(r)
    /\ LoseMemory
    /\ UNCHANGED stops

Crash ==
    /\ Stop
    /\ server # "down"
    /\ LoseMemory

Restart ==
    /\ server = "down"
    /\ server' = "up"
    /\ RecoverAfterRestart
    /\ UNCHANGED <<closeWait, activeTasks, lockVars, taskVars, stream, reqVars, bounds>>

-----------------------------------------------------------------------------
Arrival ==
    \E q \in Req :
        \/ \E k \in Key, t \in Thread : ArriveStart(q, k, t)
        \/ \E k \in Key, t \in Thread \cup {NoThread} : ArriveCreate(q, k, t)
        \/ \E r \in Run : ArriveCancel(q, r)

RequestStep(q) ==
    \/ LockUser(q) \/ ReadIdem(q) \/ ReadActive(q) \/ ReadRun(q)
    \/ LockToReplace(q) \/ LockNothingToReplace(q)
    \/ LockToCancel(q) \/ LockNothingToCancel(q)
    \/ CheckStatus(q) \/ Decide(q) \/ MarkCancelling(q) \/ CancelTask(q)
    \/ AwaitDone(q) \/ Recheck(q)
    \/ (\E r \in Run : InsertRun(q, r)) \/ InsertRefused(q) \/ Spawn(q) \/ AwaitStarted(q)
    \/ (\E t \in Thread : CommitReplace(q, t)) \/ ReplaceRefused(q) \/ AnnounceArchived(q)

TaskStep(r) ==
    \/ BeginTask(r) \/ CommitRunning(r) \/ EnterAgent(r)
    \/ (\E status \in {"succeeded", "failed"} : AgentEnds(r, status))
    \/ (\E status \in FinishStatuses : CommitFinish(r, status) \/ FinishConflict(r, status))
    \/ EndTask(r) \/ SaveFailed(r) \/ DeliverCancel(r)

FaultStep ==
    \/ \E q \in Req : RequestFault(q)
    \/ \E r \in Run : StartingFault(r) \/ \E status \in FinishStatuses : FinishFault(r, status)

ProcessStep == Close \/ Exit \/ Crash \/ Restart

\* Every request has its answer and every task is over: the model rests here.
Quiescent ==
    /\ server # "down"
    /\ \A q \in Req : pc[q] \in FinalPCs \cup {"idle"}
    /\ \A r \in Run : ~Live(r) /\ finishing[r] = {}
    /\ UNCHANGED vars

Next ==
    \/ Arrival
    \/ \E q \in Req : RequestStep(q) \/ AwaitTimeout(q)
    \/ \E r \in Run : TaskStep(r)
    \/ FaultStep
    \/ ProcessStep
    \/ Quiescent

Spec == Init /\ [][Next]_vars

(***************************************************************************)
(* The event loop resumes whatever can be resumed, the database answers,   *)
(* and the agent ends (its recursion limit and its provider timeouts       *)
(* bound every run); nothing forces a request to arrive, a timeout to      *)
(* fire, or anything to fail.                                              *)
(***************************************************************************)
Fairness ==
    /\ \A q \in Req : WF_vars(RequestStep(q))
    /\ \A r \in Run : WF_vars(TaskStep(r))

FairSpec == Spec /\ Fairness

-----------------------------------------------------------------------------
(***************************************************************************)
(* Safety.                                                                 *)
(***************************************************************************)
\* At most one task executes per thread at any time, whatever requests, cancels and
\* restarts interleave (docs/frontend-task-api-contract.md:41 and :655; the thread
\* lock and _cancel_and_wait, run_registry.py:169-204).
OneTaskPerThread ==
    \A r1, r2 \in Run : Live(r1) /\ Live(r2) /\ threadOf[r1] = threadOf[r2] => r1 = r2

\* The store never holds two unfinished runs of one thread, although set_run_status
\* can make a finished run unfinished again (session_store.py:374-387, 436-460).
OneUnfinishedRunPerThread ==
    \A t \in Thread : \A r1, r2 \in Unfinished(t) : r1 = r2

\* Nothing can still write to an archived thread: no unfinished run, no live task, no
\* cancel about to mark one of its runs (session plan :69; replace_thread, l.263-277).
ArchivedIsQuiet ==
    \A t \in Thread : threadStatus[t] = "archived" =>
        /\ Unfinished(t) = {}
        /\ \A r \in RunsOf(t) : ~Live(r)
        /\ \A q \in Req : ~(pc[q] = "mark" /\ thr[q] = t)

\* An assistant message directly follows the user message of the same run: a late
\* finish_run never lands behind the next run's question (ordinals, l.388-418, 499-519).
TurnsInOrder ==
    \A t \in Thread : \A i \in DOMAIN messages[t] :
        messages[t][i][1] = "assistant" =>
            i > 1 /\ messages[t][i - 1] = <<"user", messages[t][i][2]>>

\* A terminal event is published only after the result it announces is stored; after a
\* cancel the stored result may be the success that won the race (l.486-549).
StoredBeforeAnnounced ==
    \A r \in Run : \A i \in DOMAIN stream[r] :
        /\ stream[r][i] = "RUN_FINISHED" => result[r] = "succeeded"
        /\ stream[r][i] = "RUN_ERROR" => result[r] = "failed"
        /\ stream[r][i] = "TASK_CANCELLED" => result[r] \in {"cancelled", "succeeded"}

\* Two requests with one client_request_id that are answered name the same run, also
\* across a restart (docs/frontend-task-api-contract.md:156; l.165-167, 196-197).
SameKeySameRun ==
    \A q1, q2 \in Req :
        /\ kind[q1] = "start" /\ kind[q2] = "start"
        /\ pc[q1] = "ok" /\ pc[q2] = "ok"
        /\ key[q1] = key[q2]
        => run[q1] = run[q2]

\* A cancel answered "cancelling" has reached the task: it is being delivered, or the
\* task is past it (docs/frontend-task-api-contract.md:219; cancel_run, l.277-282).
CancelReachesTask ==
    \A q \in Req :
        /\ kind[q] = "cancel" /\ pc[q] = "ok"
        /\ seen[q] \in ActiveStatuses
        => \/ cancelled[run[q]]
           \/ ~Live(run[q])
           \/ tpc[run[q]] = "saving" /\ awaits[run[q]] = "cancelled"

\* A task that ran to its end has published its terminal event
\* (docs/frontend-task-api-contract.md:384: each run has exactly one).
EndedRunAnnounced ==
    \A r \in Run : tpc[r] = "ended" => Terminal(r)

\* A terminal status is final (session plan :67: a run has only one terminal status).
TerminalStatusIsFinal ==
    [][\A r \in Run : runStatus[r] \in TerminalStatuses => runStatus'[r] = runStatus[r]]_vars

\* The result a run was given stays: no late finish_run, cancel or restart writes another
\* (one run_results row per run, session_store.py:488-498).
ResultIsFinal == [][\A r \in Run : result[r] # "none" => result'[r] = result[r]]_vars

(***************************************************************************)
(* Liveness.                                                               *)
(***************************************************************************)
\* Every request that arrives is answered: the locks are always released and nobody
\* waits for a task that cannot end.
RequestsReturn == \A q \in Req : pc[q] \notin {"idle"} \cup FinalPCs ~> pc[q] \in FinalPCs

\* A task that starts comes to its end with its handle unregistered.
TasksEnd == \A r \in Run : Live(r) ~> ~Live(r) /\ \A t \in Thread : activeTasks[t] # r

(***************************************************************************)
(* The registry and the store implement the contract.  A run is closed     *)
(* when its result row is written or a restart interrupts it: the status   *)
(* column alone would reopen a run that a late cancel marks "cancelling".  *)
(***************************************************************************)
PhaseOf(r) ==
    IF runStatus[r] = "absent" THEN "none"
    ELSE IF result[r] # "none" \/ runStatus[r] = "interrupted" THEN "closed" ELSE "open"

Promise == INSTANCE RunContract WITH
    life <- threadStatus, phase <- [r \in Run |-> PhaseOf(r)], home <- threadOf

Implements == Promise!Contract
=============================================================================
