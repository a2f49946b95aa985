------------------------- MODULE RegistryInvariant --------------------------
(***************************************************************************)
(* An inductive invariant of RunRegistry.  The safety invariants are not   *)
(* inductive: why a thread has one unfinished run rests on who holds which *)
(* lock at which point of a request, on what a handle found under the      *)
(* thread lock says about the store, and on what outlives a crash.         *)
(***************************************************************************)
EXTENDS RunRegistry

\* A row that a process of this lifetime has written and no restart has interrupted.
Known(r) == runStatus[r] \notin {"absent", "interrupted"}

HandlePCs == WaitPCs \cup {"inserted", "await_start"}

\* A request is only where its kind of operation can be, with the arguments it needs.
RequestsFit ==
    \A q \in Req :
        /\ pc[q] \in {"insert", "inserted", "await_start"} => kind[q] = "start"
        /\ pc[q] \in {"read_active", "replace", "announce"} => kind[q] = "create"
        /\ pc[q] \in {"want_user", "idem", "check", "decide", "await", "drain", "recheck"}
               => kind[q] \in {"start", "create"}
        /\ pc[q] # "idle" => kind[q] # "none"
        /\ pc[q] = "read_run" => kind[q] = "cancel"
        /\ pc[q] \in ThreadPCs \cup {"want_thread"} => thr[q] \in Thread
        /\ kind[q] \in {"start", "create"} => key[q] \in Key
        /\ kind[q] = "start" => thr[q] \in Thread
        /\ kind[q] = "cancel" =>
              run[q] \in Run /\ runStatus[run[q]] # "absent" /\ thr[q] = threadOf[run[q]]

\* The columns of a run's row agree, and its result row follows its status.
RowsConsistent ==
    /\ \A r \in Run :
        /\ runStatus[r] = "absent" => result[r] = "none"
        /\ runStatus[r] # "absent" => threadOf[r] \in Thread
        /\ runStatus[r] \in FinishStatuses => result[r] # "none"
    /\ \A t, u \in ActiveThreads : t = u

\* What is in memory is about runs of this process: the handles,
HandlesKnown ==
    \A t \in Thread : activeTasks[t] # NoRun =>
        Known(activeTasks[t]) /\ threadOf[activeTasks[t]] = t

\* the tasks and the shielded finish_run calls; before its first save a task's row is active,
TasksKnown ==
    \A r \in Run :
        /\ Live(r) \/ finishing[r] # {} => Known(r)
        /\ tpc[r] = "saving" => awaits[r] \in FinishStatuses
        /\ tpc[r] \in {"created", "starting"} =>
              runStatus[r] \in ActiveStatuses /\ finishing[r] = {}

\* and the runs that requests work on; a run just inserted has no task yet.
WaitersKnown ==
    \A q \in Req :
        /\ pc[q] \in HandlePCs =>
              run[q] \in Run /\ Known(run[q]) /\ threadOf[run[q]] = thr[q]
        /\ pc[q] = "inserted" =>
              runStatus[run[q]] \in ActiveStatuses /\ ~Live(run[q]) /\ finishing[run[q]] = {}

\* A process that is down has no memory.
NothingWhenDown ==
    server = "down" =>
        /\ \A q \in Req : pc[q] \in FinalPCs \cup {"idle"}
        /\ \A r \in Run : ~Live(r) /\ finishing[r] = {}
        /\ \A t \in Thread : activeTasks[t] = NoRun

MemoryKnown == HandlesKnown /\ TasksKnown /\ WaitersKnown /\ NothingWhenDown

\* The locks exclude: where a request holds one, nobody else does.
LocksHeld ==
    \A q \in Req :
        /\ pc[q] \in ThreadPCs => threadLock[thr[q]] = q
        /\ pc[q] \in UserPCs /\ kind[q] # "cancel" => userLock = q

\* A registered handle is the one run of its thread that may be unfinished, and its
\* task has not come to its `finally`.
HandleOwnsThread ==
    \A t \in Thread : activeTasks[t] # NoRun =>
        Unfinished(t) \subseteq {activeTasks[t]} /\ tpc[activeTasks[t]] # "ended"

\* A task that executes is the registered one of its thread.
LiveIsRegistered == \A r \in Run : Live(r) => activeTasks[threadOf[r]] = r

\* What a request knows under the thread lock: the handle it found is the thread's or
\* gone, and nothing is registered when it inserts.
ViewHolds(q) ==
    /\ pc[q] \in WaitPCs => activeTasks[thr[q]] \in {run[q], NoRun}
    /\ pc[q] \in {"insert", "inserted"} => activeTasks[thr[q]] = NoRun
    /\ pc[q] \in HandlePCs => Unfinished(thr[q]) \subseteq {run[q]}
    /\ pc[q] = "recheck" => tpc[run[q]] = "ended"

LockedView == \A q \in Req : ViewHolds(q)

\* An archived thread, and a thread about to be replaced, has no handle and nobody
\* working on its handle.
RetiredRule ==
    /\ \A t \in Thread : threadStatus[t] = "archived" =>
        /\ Unfinished(t) = {}
        /\ activeTasks[t] = NoRun
        /\ \A q \in Req : pc[q] \in HandlePCs => thr[q] # t
    /\ \A q \in Req : pc[q] = "replace" /\ thr[q] \in Thread =>
        /\ activeTasks[thr[q]] = NoRun
        /\ \A p \in Req : pc[p] \in HandlePCs => thr[p] # thr[q]

\* The parts, together.
Inductive ==
    /\ TypeOK
    /\ RequestsFit
    /\ RowsConsistent
    /\ MemoryKnown
    /\ LocksHeld
    /\ HandleOwnsThread
    /\ LiveIsRegistered
    /\ LockedView
    /\ OneUnfinishedRunPerThread
    /\ RetiredRule

-----------------------------------------------------------------------------
(***************************************************************************)
(* What the tables and the streams remember.  These parts follow from the  *)
(* ones above and from each other: what a task has announced was stored by *)
(* a finish_run call it issued, and nothing else writes a result row.      *)
(***************************************************************************)
\* The results that the finish_run calls of a saving task may write: a cancel does not
\* take back the success it interrupts, every other call stands alone.
MayWrite(r) ==
    {awaits[r]} \cup IF awaits[r] = "cancelled" THEN {"succeeded"} ELSE {}

\* Nothing is stored before the first finish_run call; after it the row holds what an
\* issued call wrote, and a call that failed to store a success has left no trace.
ResultFits(r) ==
    /\ tpc[r] \in LivePCs \ {"saving"} => finishing[r] = {} /\ result[r] = "none"
    /\ tpc[r] = "saving" =>
        /\ finishing[r] \subseteq MayWrite(r)
        /\ result[r] \in MayWrite(r) \cup {"none"}
        /\ saved[r] = "ok" => result[r] # "none"
        /\ awaits[r] = "succeeded" /\ "succeeded" \in finishing[r] => result[r] = "none"
        /\ awaits[r] = "succeeded" /\ saved[r] = "error" => finishing[r] = {} /\ result[r] = "none"

ResultsAreTheTasks == \A r \in Run : ResultFits(r)

\* A run without a row has never had a task; one inserted and not spawned neither, and
\* no result.
FreshRuns ==
    /\ \A r \in Run : runStatus[r] = "absent" => tpc[r] = "none"
    /\ \A q \in Req : pc[q] = "inserted" => result[run[q]] = "none" /\ tpc[run[q]] = "none"

\* The key of a start_run that has got past its insert names its run.
KeysRemembered ==
    \A q \in Req :
        kind[q] = "start" /\ pc[q] \in {"inserted", "await_start", "ok"} =>
            run[q] \in Run /\ idemRun[key[q]] = run[q]

\* The question of a run without a result is the last message of its thread.
QuestionIsLast ==
    \A r \in Run :
        runStatus[r] \in ActiveStatuses /\ result[r] = "none" =>
            LET asked == messages[threadOf[r]]
            IN  asked # <<>> /\ asked[Len(asked)] = <<"user", r>>

Recorded ==
    /\ ResultsAreTheTasks
    /\ FreshRuns
    /\ KeysRemembered
    /\ QuestionIsLast
    /\ StoredBeforeAnnounced
    /\ TurnsInOrder

\* A cancel has reached the task of r: it is being delivered or the task is past it.
Reached(r) == cancelled[r] \/ ~Live(r) \/ (tpc[r] = "saving" /\ awaits[r] = "cancelled")

\* A cancel answered "cancelling", and a request about to cancel the task of r.
Answered(q) == kind[q] = "cancel" /\ pc[q] = "ok" /\ seen[q] \in ActiveStatuses
Marking(q, r) == pc[q] \in {"mark", "marked"} /\ run[q] = r

\* Whoever has a handle, or had one when it was answered, has it of a run with a task.
HandlesSpawned ==
    /\ \A t \in Thread : activeTasks[t] # NoRun => tpc[activeTasks[t]] # "none"
    /\ \A r \in Run : hstatus[r] = "cancelling" => tpc[r] # "none"
    /\ \A q \in Req : pc[q] \in WaitPCs \/ Answered(q) => tpc[run[q]] # "none"

\* While no database call has failed, a handle that says "cancelling" is of a task that
\* the cancel has reached, or will by the request that is marking the row.
CancelsDelivered ==
    faults = 0 =>
        /\ \A r \in Run : hstatus[r] = "cancelling" =>
              Reached(r) \/ \E q \in Req : Marking(q, r)
        /\ \A q \in Req : Answered(q) => Reached(run[q])

\* Every part: what TLC checks and the proofs show of every reachable state.
Invariant == Inductive /\ Recorded /\ HandlesSpawned /\ CancelsDelivered
=============================================================================
