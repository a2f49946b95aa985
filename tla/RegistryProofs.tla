--------------------------- MODULE RegistryProofs ----------------------------
(***************************************************************************)
(* The inductive invariant of RunRegistry and what follows from it.        *)
(*                                                                         *)
(* First what every step keeps, up to the locks: TypeOK, a lemma per part  *)
(* of it; rows are never removed (RowsStay), and handles, tasks and        *)
(* waiting requests are about runs that the process of this lifetime wrote *)
(* (MemoryKnown); the locks are held by who is inside them (LocksHeld), so *)
(* that the unfinished run of a thread is its handle's and what a request  *)
(* learnt under the lock stays true (Registered, Settled).  In each proof  *)
(* the actions that touch the part's variables have a step of their own    *)
(* and the others share a frame.                                           *)
(*                                                                         *)
(* Then retired threads stay quiet, and the parts are together an          *)
(* inductive invariant, from which the theorems and the refinement of      *)
(* RunContract follow.                                                     *)
(***************************************************************************)
EXTENDS RegistryInvariant, SequenceTheorems, WellFoundedInduction, TLAPS

(***************************************************************************)
(* The type invariant.                                                     *)
(***************************************************************************)
\* A nonempty set of message ordinals has a last one.
LEMMA NewestExists ==
    ASSUME NEW n \in Nat, NEW S \in SUBSET (1..n), S # {}
    PROVE  \E i \in S : \A j \in S : j <= i
<1> DEFINE T == {n - i : i \in S}
<1>1. T \subseteq Nat /\ T # {}
    <2>1. \A i \in S : i \in 1..n /\ n - i \in Nat
        OBVIOUS
    <2>2. PICK i \in S : TRUE
        OBVIOUS
    <2>3. n - i \in T
        OBVIOUS
    <2> QED BY <2>1, <2>3
<1>2. PICK x \in T : \A y \in T : ~(<<y, x>> \in OpToRel(<, Nat))
    BY <1>1, NatLessThanWellFounded, WFMin
<1>3. \A y \in T : ~(y < x)
    BY <1>1, <1>2 DEF OpToRel
<1>4. PICK i \in S : x = n - i
    OBVIOUS
<1>5. \A j \in S : j <= i
    BY <1>3, <1>4
<1> QED BY <1>5

\* threads.last_run_id names a run or nothing.
LEMMA LastRunType ==
    ASSUME StoreTypeOK, NEW t \in Thread
    PROVE  LastRun(t) \in Run \cup {NoRun}
<1> DEFINE asked == {i \in DOMAIN messages[t] : messages[t][i][1] = "user"}
<1>1. messages[t] \in Seq({"user", "assistant"} \X Run)
    BY DEF StoreTypeOK
<1>2. DOMAIN messages[t] = 1..Len(messages[t]) /\ Len(messages[t]) \in Nat
    BY <1>1
<1>3. CASE asked = {}
    BY <1>3 DEF LastRun
<1>4. CASE asked # {}
    <2>1. \E i \in asked : \A j \in asked : j <= i
        BY <1>2, <1>4, NewestExists
    <2>2. PICK i \in asked : LastRun(t) = messages[t][i][2]
        BY <2>1, <1>4, Zenon DEF LastRun
    <2>3. messages[t][i] \in {"user", "assistant"} \X Run
        BY <1>1, <1>2
    <2> QED BY <2>2, <2>3
<1> QED BY <1>3, <1>4

\* create_run,
LEMMA CreateRunTyped ==
    ASSUME StoreTypeOK, NEW k \in Key, NEW t \in Thread, NEW r \in Run, CreateRun(k, t, r)
    PROVE  StoreTypeOK'
<1>1. CASE UNCHANGED db
    BY <1>1 DEF StoreTypeOK, db
<1>2. CASE ~UNCHANGED db
    <2>1. messages' = [messages EXCEPT ![t] = Append(@, <<"user", r>>)]
        BY <1>2 DEF CreateRun
    <2>2. Append(messages[t], <<"user", r>>) \in Seq({"user", "assistant"} \X Run)
        BY AppendProperties DEF StoreTypeOK
    <2>3. messages' \in [Thread -> Seq({"user", "assistant"} \X Run)]
        BY <2>1, <2>2 DEF StoreTypeOK
    <2> QED BY <1>2, <2>3 DEF StoreTypeOK, CreateRun, ActiveStatuses
<1> QED BY <1>1, <1>2

\* set_run_status,
LEMMA SetRunStatusTyped ==
    ASSUME StoreTypeOK, NEW r, NEW status \in ActiveStatuses, SetRunStatus(r, status)
    PROVE  StoreTypeOK'
    BY DEF StoreTypeOK, SetRunStatus

\* finish_run,
LEMMA FinishRunTyped ==
    ASSUME StoreTypeOK, NEW r \in Run, NEW status \in FinishStatuses, NEW said \in BOOLEAN,
           FinishRun(r, status, said)
    PROVE  StoreTypeOK'
<1>1. CASE runStatus[r] \in TerminalStatuses
    BY <1>1 DEF FinishRun, StoreTypeOK, db
<1>2. CASE runStatus[r] \notin TerminalStatuses
    <2> DEFINE t == threadOf[r]
    <2>1. messages' = [messages EXCEPT ![t] = IF said THEN Append(@, <<"assistant", r>>) ELSE @]
        BY <1>2 DEF FinishRun
    <2>2. ASSUME t \in Thread
          PROVE  Append(messages[t], <<"assistant", r>>) \in Seq({"user", "assistant"} \X Run)
        BY <2>2, AppendProperties DEF StoreTypeOK
    <2>3. messages' \in [Thread -> Seq({"user", "assistant"} \X Run)]
        BY <2>1, <2>2 DEF StoreTypeOK
    <2> QED BY <1>2, <2>3 DEF StoreTypeOK, FinishRun, TerminalStatuses
<1> QED BY <1>1, <1>2

\* replace_thread
LEMMA ReplaceThreadTyped ==
    ASSUME StoreTypeOK, NEW k \in Key, NEW current, NEW new \in Thread,
           ReplaceThread(k, current, new)
    PROVE  StoreTypeOK'
    BY DEF StoreTypeOK, ReplaceThread, Retired, ThreadStatuses, db

\* and recover_after_restart keep the tables well typed.
LEMMA RecoverTyped ==
    ASSUME StoreTypeOK, RecoverAfterRestart
    PROVE  StoreTypeOK'
    BY DEF StoreTypeOK, RecoverAfterRestart, Retired, ThreadStatuses, TerminalStatuses

\* Every step keeps the tables well typed.
LEMMA StoreTypeStep ==
    ASSUME TypeOK, RequestsFit, [Next]_vars
    PROVE  StoreTypeOK'
<1>1. ASSUME NEW q \in Req, NEW k \in Key, NEW t \in Thread, ArriveStart(q, k, t)
      PROVE  UNCHANGED db
    BY <1>1 DEF ArriveStart, Arrive, Goto, db
<1>2. ASSUME NEW q \in Req, NEW k \in Key, NEW t \in Thread \cup {NoThread}, ArriveCreate(q, k, t)
      PROVE  UNCHANGED db
    BY <1>2 DEF ArriveCreate, Arrive, Goto, db
<1>3. ASSUME NEW q \in Req, NEW r \in Run, ArriveCancel(q, r)
      PROVE  UNCHANGED db
    BY <1>3 DEF ArriveCancel, Arrive, Goto, db
<1>4. ASSUME NEW q \in Req, MarkCancelling(q)
      PROVE  StoreTypeOK'
    BY <1>4, SetRunStatusTyped DEF MarkCancelling, ActiveStatuses, TypeOK
<1>5. ASSUME NEW q \in Req,
         \/ LockUser(q) \/ ReadIdem(q) \/ ReadActive(q) \/ ReadRun(q) \/ LockToReplace(q)
         \/ LockNothingToReplace(q) \/ LockToCancel(q) \/ LockNothingToCancel(q)
         \/ CheckStatus(q) \/ Decide(q) \/ CancelTask(q) \/ AwaitDone(q) \/ Recheck(q)
         \/ InsertRefused(q) \/ Spawn(q) \/ AwaitStarted(q) \/ ReplaceRefused(q)
         \/ AnnounceArchived(q) \/ AwaitTimeout(q) \/ RequestFault(q)
      PROVE  UNCHANGED db
    BY <1>5 DEF LockUser, ReadIdem, ReadActive, ReadRun, LockToReplace, LockNothingToReplace,
        LockToCancel, LockNothingToCancel, CheckStatus, Decide, CancelTask, AwaitDone, Recheck,
        InsertRefused, Spawn, AwaitStarted, ReplaceRefused, AnnounceArchived, AwaitTimeout,
        RequestFault, Goto, TakesLock, Proceed, Publish, Fault, db
<1>6. ASSUME NEW q \in Req, NEW r \in Run, InsertRun(q, r)
      PROVE  StoreTypeOK'
    BY <1>6, CreateRunTyped DEF InsertRun, RequestTypeOK, RequestsFit, TypeOK
<1>7. ASSUME NEW q \in Req, NEW t \in Thread, CommitReplace(q, t)
      PROVE  StoreTypeOK'
    BY <1>7, ReplaceThreadTyped DEF CommitReplace, RequestTypeOK, RequestsFit, TypeOK
<1>8. ASSUME NEW r \in Run, CommitRunning(r)
      PROVE  StoreTypeOK'
    BY <1>8, SetRunStatusTyped DEF CommitRunning, ActiveStatuses, TypeOK
<1>9. ASSUME NEW r \in Run,
         \/ BeginTask(r) \/ EnterAgent(r) \/ EndTask(r) \/ SaveFailed(r) \/ DeliverCancel(r)
         \/ StartingFault(r)
      PROVE  UNCHANGED db
    BY <1>9 DEF BeginTask, EnterAgent, EndTask, SaveFailed, DeliverCancel, StartingFault,
        Resumes, TaskFrame, Finally, Saves, Fault, db
<1>10. ASSUME NEW r \in Run, NEW status \in FinishStatuses, CommitFinish(r, status)
      PROVE  StoreTypeOK'
    BY <1>10, FinishRunTyped DEF CommitFinish, TypeOK
<1>11. ASSUME NEW r \in Run, NEW status \in FinishStatuses,
         \/ AgentEnds(r, status) \/ FinishConflict(r, status) \/ FinishFault(r, status)
      PROVE  UNCHANGED db
    BY <1>11 DEF AgentEnds, FinishConflict, FinishFault, Saves, Resumes, TaskFrame, Settles,
        Fault, db
<1>12. CASE Restart
    BY <1>12, RecoverTyped DEF Restart, TypeOK
<1>13. ASSUME Close \/ Exit \/ Crash
      PROVE  UNCHANGED db
    BY <1>13 DEF Close, Exit, Crash, Stop, LoseMemory, db
<1>14. ASSUME UNCHANGED vars PROVE UNCHANGED db
    BY <1>14 DEF vars, db
<1>15. CASE UNCHANGED db
    BY <1>15 DEF db, StoreTypeOK, TypeOK
<1> QED BY <1>1, <1>2, <1>3, <1>4, <1>5, <1>6, <1>7, <1>8, <1>9, <1>10, <1>11, <1>12, <1>13,
        <1>14, <1>15
    DEF Next, Arrival, RequestStep, TaskStep, FaultStep, ProcessStep, Quiescent, FinishStatuses

\* Leaving the lock blocks.
LEMMA ReturnTyped ==
    ASSUME RegistryTypeOK, NEW q \in Req, NEW p, Return(q, p)
    PROVE  /\ userLock' \in Req \cup {NoReq}
           /\ threadLock' \in [Thread -> Req \cup {NoReq}]
    BY DEF RegistryTypeOK, Return, ReleaseThread, ReleaseUser

\* A request that is past _cancel_and_wait releases locks it holds, if any.
LEMMA ProceedTyped ==
    ASSUME RegistryTypeOK, NEW q \in Req, Proceed(q)
    PROVE  /\ userLock' \in Req \cup {NoReq}
           /\ threadLock' \in [Thread -> Req \cup {NoReq}]
    BY DEF RegistryTypeOK, Proceed, ReleaseThread, lockVars

\* Every step keeps the registry and the locks well typed.
LEMMA RegistryTypeStep ==
    ASSUME TypeOK, [Next]_vars
    PROVE  RegistryTypeOK'
<1>1. ASSUME NEW q \in Req, NEW k \in Key, NEW t \in Thread, ArriveStart(q, k, t)
      PROVE  UNCHANGED <<procVars, activeTasks, lockVars, bounds>>
    BY <1>1 DEF ArriveStart, Arrive, Goto, procVars, lockVars, bounds
<1>2. ASSUME NEW q \in Req, NEW k \in Key, NEW t \in Thread \cup {NoThread}, ArriveCreate(q, k, t)
      PROVE  UNCHANGED <<procVars, activeTasks, lockVars, bounds>>
    BY <1>2 DEF ArriveCreate, Arrive, Goto, procVars, lockVars, bounds
<1>3. ASSUME NEW q \in Req, NEW r \in Run, ArriveCancel(q, r)
      PROVE  UNCHANGED <<procVars, activeTasks, lockVars, bounds>>
    BY <1>3 DEF ArriveCancel, Arrive, Goto, procVars, lockVars, bounds
<1>4. ASSUME NEW q \in Req, LockUser(q)
      PROVE  RegistryTypeOK'
    BY <1>4 DEF LockUser, TypeOK, RegistryTypeOK, procVars, bounds
<1>5. ASSUME NEW q \in Req,
         \/ ReadIdem(q) \/ ReadActive(q) \/ CancelTask(q) \/ InsertRefused(q)
         \/ AwaitStarted(q) \/ ReplaceRefused(q) \/ AnnounceArchived(q) \/ AwaitTimeout(q)
      PROVE  RegistryTypeOK'
    BY <1>5, ReturnTyped DEF ReadIdem, ReadActive, CancelTask, InsertRefused, AwaitStarted,
        ReplaceRefused, AnnounceArchived, AwaitTimeout, TypeOK, RegistryTypeOK, procVars,
        lockVars, bounds
<1>6. ASSUME NEW q \in Req,
         \/ LockToReplace(q) \/ LockToCancel(q)
      PROVE  RegistryTypeOK'
    BY <1>6 DEF LockToReplace, LockToCancel, TypeOK, RegistryTypeOK, procVars, bounds
<1>7. ASSUME NEW q \in Req,
         \/ AwaitDone(q) \/ Recheck(q)
      PROVE  RegistryTypeOK'
    BY <1>7, ProceedTyped, ReturnTyped DEF AwaitDone, Recheck, TypeOK, RegistryTypeOK, procVars,
        lockVars, bounds
<1>8. ASSUME NEW q \in Req, Spawn(q)
      PROVE  RegistryTypeOK'
    BY <1>8 DEF Spawn, TypeOK, RegistryTypeOK, RequestTypeOK, procVars, lockVars, bounds
<1>9. ASSUME NEW q \in Req, RequestFault(q)
      PROVE  RegistryTypeOK'
    BY <1>9, RegistryAssumption, ReturnTyped DEF RequestFault, Fault, TypeOK, RegistryTypeOK,
        procVars
<1>10. ASSUME NEW q \in Req,
         \/ ReadRun(q) \/ LockNothingToReplace(q) \/ LockNothingToCancel(q) \/ CheckStatus(q)
         \/ Decide(q) \/ MarkCancelling(q)
      PROVE  UNCHANGED <<procVars, activeTasks, lockVars, bounds>>
    BY <1>10 DEF ReadRun, LockNothingToReplace, LockNothingToCancel, CheckStatus, Decide,
        MarkCancelling, Goto, TakesLock, SetRunStatus, procVars, lockVars, bounds
<1>11. ASSUME NEW q \in Req, NEW r \in Run, InsertRun(q, r)
      PROVE  RegistryTypeOK'
    BY <1>11, ReturnTyped DEF InsertRun, TypeOK, RegistryTypeOK, procVars, lockVars, bounds
<1>12. ASSUME NEW q \in Req, NEW t \in Thread, CommitReplace(q, t)
      PROVE  RegistryTypeOK'
    BY <1>12, ReturnTyped DEF CommitReplace, TypeOK, RegistryTypeOK, procVars, lockVars, bounds
<1>13. ASSUME NEW r \in Run,
         \/ EndTask(r) \/ SaveFailed(r) \/ DeliverCancel(r)
      PROVE  RegistryTypeOK'
    BY <1>13 DEF EndTask, SaveFailed, DeliverCancel, Finally, TaskFrame, TypeOK, RegistryTypeOK,
        procVars, lockVars, bounds
<1>14. ASSUME NEW r \in Run, StartingFault(r)
      PROVE  RegistryTypeOK'
    BY <1>14, RegistryAssumption DEF StartingFault, Fault, TypeOK, RegistryTypeOK, procVars,
        lockVars
<1>15. ASSUME NEW r \in Run,
         \/ BeginTask(r) \/ CommitRunning(r) \/ EnterAgent(r)
      PROVE  UNCHANGED <<procVars, activeTasks, lockVars, bounds>>
    BY <1>15 DEF BeginTask, CommitRunning, EnterAgent, Resumes, TaskFrame, SetRunStatus,
        procVars, lockVars, bounds
<1>16. ASSUME NEW r \in Run, NEW status \in FinishStatuses, FinishFault(r, status)
      PROVE  RegistryTypeOK'
    BY <1>16, RegistryAssumption DEF FinishFault, Fault, TypeOK, RegistryTypeOK, procVars,
        lockVars
<1>17. ASSUME NEW r \in Run, NEW status \in FinishStatuses,
         \/ AgentEnds(r, status) \/ CommitFinish(r, status) \/ FinishConflict(r, status)
      PROVE  UNCHANGED <<procVars, activeTasks, lockVars, bounds>>
    BY <1>17 DEF AgentEnds, CommitFinish, FinishConflict, Saves, Resumes, TaskFrame, FinishRun,
        Settles, procVars, lockVars, bounds
<1>18. CASE Close
    BY <1>18, RegistryAssumption DEF Close, Stop, TypeOK, RegistryTypeOK, lockVars
<1>19. ASSUME Exit \/ Crash
      PROVE  RegistryTypeOK'
    BY <1>19, RegistryAssumption DEF Exit, Crash, Stop, LoseMemory, TypeOK, RegistryTypeOK
<1>20. CASE Restart
    BY <1>20 DEF Restart, TypeOK, RegistryTypeOK, lockVars, bounds
<1>21. ASSUME UNCHANGED vars PROVE UNCHANGED <<procVars, activeTasks, lockVars, bounds>>
    BY <1>21 DEF vars, procVars, lockVars, bounds
<1>22. CASE UNCHANGED <<procVars, activeTasks, lockVars, bounds>>
    BY <1>22 DEF procVars, lockVars, bounds, RegistryTypeOK, TypeOK
<1> QED BY <1>1, <1>2, <1>3, <1>4, <1>5, <1>6, <1>7, <1>8, <1>9, <1>10, <1>11, <1>12, <1>13,
        <1>14, <1>15, <1>16, <1>17, <1>18, <1>19, <1>20, <1>21, <1>22
    DEF Next, Arrival, RequestStep, TaskStep, FaultStep, ProcessStep, Quiescent, FinishStatuses

\* What a task publishes is a sequence of events,
LEMMA EventSequences ==
    /\ <<>> \in Seq(Events)
    /\ \A e \in Events : <<e>> \in Seq(Events) /\ <<"TEXT_MESSAGE_END">> \o <<e>> \in Seq(Events)
    BY DEF Events

\* and publishing it keeps every stream one.
LEMMA PublishTyped ==
    ASSUME TaskTypeOK, NEW r, NEW events \in Seq(Events), Publish(r, events)
    PROVE  stream' \in [Run -> Seq(Events)]
<1>1. ASSUME r \in Run PROVE stream[r] \o events \in Seq(Events)
    BY <1>1, ConcatProperties DEF TaskTypeOK
<1> QED BY <1>1 DEF Publish, TaskTypeOK

\* A task that issues finish_run stays well typed.
LEMMA SavesTyped ==
    ASSUME TaskTypeOK, NEW r \in Run, NEW status \in FinishStatuses, Saves(r, status)
    PROVE  /\ tpc' \in [Run -> TaskPCs]
           /\ awaits' \in [Run -> {"none"} \cup FinishStatuses]
           /\ saved' \in [Run -> {"none", "ok", "error"}]
           /\ finishing' \in [Run -> SUBSET FinishStatuses]
    BY DEF TaskTypeOK, Saves, TaskPCs, LivePCs

\* Every step keeps the tasks and their streams well typed.
LEMMA TaskTypeStep ==
    ASSUME TypeOK, TasksKnown, [Next]_vars
    PROVE  TaskTypeOK'
<1>1. ASSUME NEW q \in Req, NEW k \in Key, NEW t \in Thread, ArriveStart(q, k, t)
      PROVE  UNCHANGED <<taskVars, stream>>
    BY <1>1 DEF ArriveStart, Arrive, Goto, taskVars
<1>2. ASSUME NEW q \in Req, NEW k \in Key, NEW t \in Thread \cup {NoThread}, ArriveCreate(q, k, t)
      PROVE  UNCHANGED <<taskVars, stream>>
    BY <1>2 DEF ArriveCreate, Arrive, Goto, taskVars
<1>3. ASSUME NEW q \in Req, NEW r \in Run, ArriveCancel(q, r)
      PROVE  UNCHANGED <<taskVars, stream>>
    BY <1>3 DEF ArriveCancel, Arrive, Goto, taskVars
<1>4. ASSUME NEW q \in Req, LockToCancel(q)
      PROVE  TaskTypeOK'
    BY <1>4 DEF LockToCancel, TypeOK, TaskTypeOK
<1>5. ASSUME NEW q \in Req, Decide(q)
      PROVE  TaskTypeOK'
    BY <1>5 DEF Decide, TypeOK, TaskTypeOK
<1>6. ASSUME NEW q \in Req, CancelTask(q)
      PROVE  TaskTypeOK'
    BY <1>6 DEF CancelTask, TypeOK, TaskTypeOK
<1>7. ASSUME NEW q \in Req, Spawn(q)
      PROVE  TaskTypeOK'
    BY <1>7 DEF Spawn, TaskPCs, LivePCs, TypeOK, TaskTypeOK
<1>8. ASSUME NEW q \in Req, AnnounceArchived(q)
      PROVE  TaskTypeOK'
    BY <1>8, EventSequences, PublishTyped DEF AnnounceArchived, taskVars, Events, TypeOK,
        TaskTypeOK
<1>9. ASSUME NEW q \in Req,
         \/ LockUser(q) \/ ReadIdem(q) \/ ReadActive(q) \/ ReadRun(q) \/ LockToReplace(q)
         \/ LockNothingToReplace(q) \/ LockNothingToCancel(q) \/ CheckStatus(q)
         \/ MarkCancelling(q) \/ AwaitDone(q) \/ Recheck(q) \/ InsertRefused(q)
         \/ AwaitStarted(q) \/ ReplaceRefused(q) \/ AwaitTimeout(q) \/ RequestFault(q)
      PROVE  UNCHANGED <<taskVars, stream>>
    BY <1>9 DEF LockUser, ReadIdem, ReadActive, ReadRun, LockToReplace, LockNothingToReplace,
        LockNothingToCancel, CheckStatus, MarkCancelling, AwaitDone, Recheck, InsertRefused,
        AwaitStarted, ReplaceRefused, AwaitTimeout, RequestFault, Goto, TakesLock, SetRunStatus,
        Proceed, Fault, taskVars
<1>10. ASSUME NEW q \in Req, NEW r \in Run, InsertRun(q, r)
      PROVE  UNCHANGED <<taskVars, stream>>
    BY <1>10 DEF InsertRun, CreateRun, Goto, taskVars
<1>11. ASSUME NEW q \in Req, NEW t \in Thread, CommitReplace(q, t)
      PROVE  UNCHANGED <<taskVars, stream>>
    BY <1>11 DEF CommitReplace, ReplaceThread, Goto, taskVars
<1>12. ASSUME NEW r \in Run, BeginTask(r)
      PROVE  TaskTypeOK'
    BY <1>12 DEF BeginTask, TaskPCs, LivePCs, TypeOK, TaskTypeOK
<1>13. ASSUME NEW r \in Run, CommitRunning(r)
      PROVE  TaskTypeOK'
    BY <1>13 DEF CommitRunning, TaskPCs, LivePCs, TypeOK, TaskTypeOK
<1>14. ASSUME NEW r \in Run, EnterAgent(r)
      PROVE  TaskTypeOK'
    BY <1>14, EventSequences, PublishTyped DEF EnterAgent, TaskPCs, LivePCs, Events, TypeOK,
        TaskTypeOK
<1>15. ASSUME NEW r \in Run, EndTask(r)
      PROVE  TaskTypeOK'
    <2>1. awaits[r] \in FinishStatuses
        BY <1>15 DEF EndTask, Resumes, TasksKnown
    <2>2. Closing(r) \o <<TerminalEventOf[awaits[r]]>> \in Seq(Events)
        <3>1. TerminalEventOf[awaits[r]] \in Events
            BY <2>1 DEF TerminalEventOf, FinishStatuses, TerminalEvents, Events
        <3>2. <<>> \o <<TerminalEventOf[awaits[r]]>> = <<TerminalEventOf[awaits[r]]>>
            BY <3>1, EventSequences
        <3> QED BY <3>1, <3>2, EventSequences DEF Closing
    <2> QED BY <1>15, <2>1, <2>2, PublishTyped DEF EndTask, Finally, TaskPCs, TypeOK, TaskTypeOK
<1>16. ASSUME NEW r \in Run, SaveFailed(r)
      PROVE  TaskTypeOK'
    <2>1. CASE Saves(r, "failed")
        BY <1>16, <2>1, SavesTyped DEF SaveFailed, FinishStatuses, TypeOK, TaskTypeOK
    <2>2. CASE Finally(r) /\ UNCHANGED <<awaits, saved, finishing>>
        BY <1>16, <2>2 DEF SaveFailed, Finally, TaskPCs, TypeOK, TaskTypeOK
    <2> QED BY <1>16, <2>1, <2>2 DEF SaveFailed
<1>17. ASSUME NEW r \in Run, DeliverCancel(r)
      PROVE  TaskTypeOK'
    <2>1. CASE Saves(r, "cancelled")
        BY <1>17, <2>1, SavesTyped DEF DeliverCancel, FinishStatuses, TypeOK, TaskTypeOK
    <2>2. CASE tpc' = [tpc EXCEPT ![r] = "killed"] /\ UNCHANGED <<awaits, saved, finishing>>
        BY <1>17, <2>2 DEF DeliverCancel, TaskPCs, TypeOK, TaskTypeOK
    <2>3. CASE Finally(r) /\ UNCHANGED <<awaits, saved, finishing>>
        BY <1>17, <2>3 DEF DeliverCancel, Finally, TaskPCs, TypeOK, TaskTypeOK
    <2> QED BY <1>17, <2>1, <2>2, <2>3 DEF DeliverCancel
<1>18. ASSUME NEW r \in Run, StartingFault(r)
      PROVE  TaskTypeOK'
    BY <1>18 DEF StartingFault, Saves, TaskPCs, LivePCs, FinishStatuses, TypeOK, TaskTypeOK
<1>19. ASSUME NEW r \in Run, NEW status \in FinishStatuses, AgentEnds(r, status)
      PROVE  TaskTypeOK'
    BY <1>19 DEF AgentEnds, Saves, TaskPCs, LivePCs, FinishStatuses, TypeOK, TaskTypeOK
<1>20. ASSUME NEW r \in Run, NEW status \in FinishStatuses,
         \/ CommitFinish(r, status) \/ FinishConflict(r, status) \/ FinishFault(r, status)
      PROVE  TaskTypeOK'
    BY <1>20 DEF CommitFinish, FinishConflict, FinishFault, Settles, TypeOK, TaskTypeOK
<1>21. CASE Close
    BY <1>21 DEF Close, TypeOK, TaskTypeOK
<1>22. ASSUME Exit \/ Crash
      PROVE  TaskTypeOK'
    BY <1>22, EventSequences, ZenonT(30) DEF Exit, Crash, LoseMemory, TaskPCs, TypeOK, TaskTypeOK
<1>23. ASSUME Restart
      PROVE  UNCHANGED <<taskVars, stream>>
    BY <1>23 DEF Restart, RecoverAfterRestart, taskVars
<1>24. ASSUME UNCHANGED vars PROVE UNCHANGED <<taskVars, stream>>
    BY <1>24 DEF vars, taskVars
<1>25. CASE UNCHANGED <<taskVars, stream>>
    BY <1>25 DEF taskVars, TaskTypeOK, TypeOK
<1> QED BY <1>1, <1>2, <1>3, <1>4, <1>5, <1>6, <1>7, <1>8, <1>9, <1>10, <1>11, <1>12, <1>13,
        <1>14, <1>15, <1>16, <1>17, <1>18, <1>19, <1>20, <1>21, <1>22, <1>23, <1>24, <1>25
    DEF Next, Arrival, RequestStep, TaskStep, FaultStep, ProcessStep, Quiescent, FinishStatuses

\* Every step keeps the requests well typed.
LEMMA RequestTypeStep ==
    ASSUME TypeOK, RequestsFit, WaitersKnown, [Next]_vars
    PROVE  RequestTypeOK'
<1>1. ASSUME NEW q \in Req, NEW k \in Key, NEW t \in Thread, ArriveStart(q, k, t)
      PROVE  RequestTypeOK'
    BY <1>1 DEF ArriveStart, Arrive, Goto, ReqPCs, UserPCs, ThreadPCs, WaitPCs, FinalPCs, TypeOK,
        RequestTypeOK
<1>2. ASSUME NEW q \in Req, NEW k \in Key, NEW t \in Thread \cup {NoThread}, ArriveCreate(q, k, t)
      PROVE  RequestTypeOK'
    BY <1>2 DEF ArriveCreate, Arrive, Goto, ReqPCs, UserPCs, ThreadPCs, WaitPCs, FinalPCs, TypeOK,
        RequestTypeOK
<1>3. ASSUME NEW q \in Req, NEW r \in Run, ArriveCancel(q, r)
      PROVE  RequestTypeOK'
    BY <1>3 DEF ArriveCancel, Arrive, StoreTypeOK, Goto, ReqPCs, UserPCs, ThreadPCs, WaitPCs,
        FinalPCs, TypeOK, RequestTypeOK
<1>4. ASSUME NEW q \in Req, LockUser(q)
      PROVE  RequestTypeOK'
    BY <1>4 DEF LockUser, Goto, ReqPCs, UserPCs, ThreadPCs, WaitPCs, FinalPCs, TypeOK,
        RequestTypeOK
<1>5. ASSUME NEW q \in Req, ReadIdem(q)
      PROVE  RequestTypeOK'
    BY <1>5, ZenonT(30) DEF ReadIdem, Return, StoreTypeOK, RequestsFit, Goto, ReqPCs, UserPCs, ThreadPCs,
        WaitPCs, FinalPCs, TypeOK, RequestTypeOK
<1>6. ASSUME NEW q \in Req, ReadActive(q)
      PROVE  RequestTypeOK'
    BY <1>6 DEF ReadActive, Return, Goto, ReqPCs, UserPCs, ThreadPCs, WaitPCs, FinalPCs, TypeOK,
        RequestTypeOK
<1>7. ASSUME NEW q \in Req, ReadRun(q)
      PROVE  RequestTypeOK'
    BY <1>7 DEF ReadRun, StoreTypeOK, RequestsFit, Goto, ReqPCs, UserPCs, ThreadPCs, WaitPCs,
        FinalPCs, TypeOK, RequestTypeOK
<1>8. ASSUME NEW q \in Req, LockToReplace(q)
      PROVE  RequestTypeOK'
    BY <1>8 DEF LockToReplace, TakesLock, Handle, RegistryTypeOK, RequestsFit, Goto, ReqPCs,
        UserPCs, ThreadPCs, WaitPCs, FinalPCs, TypeOK, RequestTypeOK
<1>9. ASSUME NEW q \in Req,
         \/ LockNothingToReplace(q) \/ LockToCancel(q) \/ LockNothingToCancel(q)
      PROVE  RequestTypeOK'
    BY <1>9 DEF LockNothingToReplace, LockToCancel, LockNothingToCancel, Goto, ReqPCs, UserPCs,
        ThreadPCs, WaitPCs, FinalPCs, TypeOK, RequestTypeOK
<1>10. ASSUME NEW q \in Req, CheckStatus(q)
      PROVE  RequestTypeOK'
    BY <1>10 DEF CheckStatus, StoreTypeOK, WaitersKnown, HandlePCs, Goto, ReqPCs, UserPCs,
        ThreadPCs, WaitPCs, FinalPCs, TypeOK, RequestTypeOK
<1>11. ASSUME NEW q \in Req,
         \/ Decide(q) \/ MarkCancelling(q) \/ CancelTask(q)
      PROVE  RequestTypeOK'
    BY <1>11 DEF Decide, MarkCancelling, CancelTask, Return, Goto, ReqPCs, UserPCs, ThreadPCs,
        WaitPCs, FinalPCs, TypeOK, RequestTypeOK
<1>12. ASSUME NEW q \in Req,
         \/ AwaitDone(q) \/ Recheck(q) \/ AwaitTimeout(q)
      PROVE  RequestTypeOK'
    BY <1>12 DEF AwaitDone, Recheck, AwaitTimeout, Proceed, Return, Goto, ReqPCs, UserPCs,
        ThreadPCs, WaitPCs, FinalPCs, TypeOK, RequestTypeOK
<1>13. ASSUME NEW q \in Req,
         \/ InsertRefused(q) \/ Spawn(q) \/ AwaitStarted(q) \/ ReplaceRefused(q)
         \/ AnnounceArchived(q)
      PROVE  RequestTypeOK'
    BY <1>13 DEF InsertRefused, Spawn, AwaitStarted, ReplaceRefused, AnnounceArchived, Return,
        Goto, ReqPCs, UserPCs, ThreadPCs, WaitPCs, FinalPCs, TypeOK, RequestTypeOK
<1>14. ASSUME NEW q \in Req, RequestFault(q)
      PROVE  RequestTypeOK'
    BY <1>14 DEF RequestFault, Return, Goto, ReqPCs, UserPCs, ThreadPCs, WaitPCs, FinalPCs,
        TypeOK, RequestTypeOK
<1>15. ASSUME NEW q \in Req, NEW r \in Run, InsertRun(q, r)
      PROVE  RequestTypeOK'
    BY <1>15 DEF InsertRun, Return, StoreTypeOK, RequestsFit, Goto, ReqPCs, UserPCs, ThreadPCs,
        WaitPCs, FinalPCs, TypeOK, RequestTypeOK
<1>16. ASSUME NEW q \in Req, NEW t \in Thread, CommitReplace(q, t)
      PROVE  RequestTypeOK'
    <2>1. run' \in [Req -> Run \cup {NoRun}]
        BY <1>16, LastRunType DEF CommitReplace, TypeOK, RequestTypeOK
    <2>2. key[q] \in Key
        BY <1>16 DEF CommitReplace, RequestsFit
    <2>3. idemThread'[key[q]] \in Thread \cup {NoThread}
        BY <1>16, <2>2, StoreTypeStep DEF StoreTypeOK
    <2> QED BY <1>16, <2>1, <2>3
            DEF CommitReplace, Goto, Return, ReqPCs, UserPCs, FinalPCs, TypeOK, RequestTypeOK
<1>17. ASSUME NEW r \in Run,
         \/ BeginTask(r) \/ CommitRunning(r) \/ EnterAgent(r) \/ EndTask(r) \/ SaveFailed(r)
         \/ DeliverCancel(r) \/ StartingFault(r)
      PROVE  UNCHANGED reqVars
    BY <1>17 DEF BeginTask, CommitRunning, EnterAgent, EndTask, SaveFailed, DeliverCancel,
        StartingFault, Resumes, TaskFrame, SetRunStatus, Finally, Saves, Fault, reqVars
<1>18. ASSUME NEW r \in Run, NEW status \in FinishStatuses,
         \/ AgentEnds(r, status) \/ CommitFinish(r, status) \/ FinishConflict(r, status)
         \/ FinishFault(r, status)
      PROVE  UNCHANGED reqVars
    BY <1>18 DEF AgentEnds, CommitFinish, FinishConflict, FinishFault, Saves, Resumes,
        TaskFrame, FinishRun, Settles, Fault, reqVars
<1>19. ASSUME Exit \/ Crash
      PROVE  RequestTypeOK'
    BY <1>19 DEF Exit, Crash, LoseMemory, Goto, ReqPCs, UserPCs, ThreadPCs, WaitPCs, FinalPCs,
        TypeOK, RequestTypeOK
<1>20. ASSUME Close \/ Restart
      PROVE  UNCHANGED reqVars
    BY <1>20 DEF Close, Restart, Stop, RecoverAfterRestart, reqVars
<1>21. ASSUME UNCHANGED vars PROVE UNCHANGED reqVars
    BY <1>21 DEF vars, reqVars
<1>22. CASE UNCHANGED reqVars
    BY <1>22 DEF reqVars, RequestTypeOK, TypeOK
<1> QED BY <1>1, <1>2, <1>3, <1>4, <1>5, <1>6, <1>7, <1>8, <1>9, <1>10, <1>11, <1>12, <1>13,
        <1>14, <1>15, <1>16, <1>17, <1>18, <1>19, <1>20, <1>21, <1>22
    DEF Next, Arrival, RequestStep, TaskStep, FaultStep, ProcessStep, Quiescent, FinishStatuses


-----------------------------------------------------------------------------
(***************************************************************************)
(* What memory says about the store.                                       *)
(***************************************************************************)
\* A run's row is never removed and never moves to another thread.
LEMMA RowsStay ==
    ASSUME TypeOK, [Next]_vars
    PROVE  \A r \in Run : runStatus[r] # "absent" =>
              runStatus'[r] # "absent" /\ threadOf'[r] = threadOf[r]
<1> DEFINE Kept == \A r \in Run : runStatus[r] # "absent" =>
                      runStatus'[r] # "absent" /\ threadOf'[r] = threadOf[r]
<1>1. ASSUME NEW q \in Req, NEW k \in Key, NEW t \in Thread, ArriveStart(q, k, t)
      PROVE  UNCHANGED <<runStatus, threadOf>>
    BY <1>1 DEF ArriveStart, Arrive, Goto, db
<1>2. ASSUME NEW q \in Req, NEW k \in Key, NEW t \in Thread \cup {NoThread}, ArriveCreate(q, k, t)
      PROVE  UNCHANGED <<runStatus, threadOf>>
    BY <1>2 DEF ArriveCreate, Arrive, Goto, db
<1>3. ASSUME NEW q \in Req, NEW r \in Run, ArriveCancel(q, r)
      PROVE  UNCHANGED <<runStatus, threadOf>>
    BY <1>3 DEF ArriveCancel, Arrive, Goto, db
<1>4. ASSUME NEW q \in Req, MarkCancelling(q)
      PROVE  Kept
    BY <1>4 DEF MarkCancelling, SetRunStatus, StoreTypeOK, TypeOK
<1>5. ASSUME NEW q \in Req,
         \/ LockUser(q) \/ ReadIdem(q) \/ ReadActive(q) \/ ReadRun(q) \/ LockToReplace(q)
         \/ LockNothingToReplace(q) \/ LockToCancel(q) \/ LockNothingToCancel(q)
         \/ CheckStatus(q) \/ Decide(q) \/ CancelTask(q) \/ AwaitDone(q) \/ Recheck(q)
         \/ InsertRefused(q) \/ Spawn(q) \/ AwaitStarted(q) \/ ReplaceRefused(q)
         \/ AnnounceArchived(q) \/ AwaitTimeout(q) \/ RequestFault(q)
      PROVE  UNCHANGED <<runStatus, threadOf>>
    BY <1>5 DEF LockUser, ReadIdem, ReadActive, ReadRun, LockToReplace, LockNothingToReplace,
        LockToCancel, LockNothingToCancel, CheckStatus, Decide, CancelTask, AwaitDone, Recheck,
        InsertRefused, Spawn, AwaitStarted, ReplaceRefused, AnnounceArchived, AwaitTimeout,
        RequestFault, Goto, TakesLock, Proceed, Publish, Fault, db
<1>6. ASSUME NEW q \in Req, NEW r \in Run, InsertRun(q, r)
      PROVE  Kept
    BY <1>6 DEF InsertRun, CreateRun, db, StoreTypeOK, TypeOK
<1>7. ASSUME NEW q \in Req, NEW t \in Thread, CommitReplace(q, t)
      PROVE  Kept
    BY <1>7 DEF CommitReplace, ReplaceThread, db
<1>8. ASSUME NEW r \in Run, CommitRunning(r)
      PROVE  Kept
    BY <1>8 DEF CommitRunning, SetRunStatus, StoreTypeOK, TypeOK
<1>9. ASSUME NEW r \in Run,
         \/ BeginTask(r) \/ EnterAgent(r) \/ EndTask(r) \/ SaveFailed(r) \/ DeliverCancel(r)
         \/ StartingFault(r)
      PROVE  UNCHANGED <<runStatus, threadOf>>
    BY <1>9 DEF BeginTask, EnterAgent, EndTask, SaveFailed, DeliverCancel, StartingFault,
        Resumes, TaskFrame, Finally, Saves, Fault, db
<1>10. ASSUME NEW r \in Run, NEW status \in FinishStatuses, CommitFinish(r, status)
      PROVE  Kept
    BY <1>10 DEF CommitFinish, FinishRun, db, StoreTypeOK, TypeOK, FinishStatuses
<1>11. ASSUME NEW r \in Run, NEW status \in FinishStatuses,
         \/ AgentEnds(r, status) \/ FinishConflict(r, status) \/ FinishFault(r, status)
      PROVE  UNCHANGED <<runStatus, threadOf>>
    BY <1>11 DEF AgentEnds, FinishConflict, FinishFault, Saves, Resumes, TaskFrame, Settles,
        Fault, db
<1>12. CASE Restart
    BY <1>12 DEF Restart, RecoverAfterRestart
<1>13. ASSUME Close \/ Exit \/ Crash
      PROVE  UNCHANGED <<runStatus, threadOf>>
    BY <1>13 DEF Close, Exit, Crash, Stop, LoseMemory, db
<1>14. ASSUME UNCHANGED vars PROVE UNCHANGED <<runStatus, threadOf>>
    BY <1>14 DEF vars, db
<1>15. CASE UNCHANGED <<runStatus, threadOf>>
    BY <1>15
<1> QED BY <1>1, <1>2, <1>3, <1>4, <1>5, <1>6, <1>7, <1>8, <1>9, <1>10, <1>11, <1>12, <1>13,
        <1>14, <1>15
    DEF Next, Arrival, RequestStep, TaskStep, FaultStep, ProcessStep, Quiescent, FinishStatuses

\* Every request stays where its kind can be.
LEMMA RequestsFitStep ==
    ASSUME TypeOK, RequestsFit, RowsConsistent, [Next]_vars
    PROVE  RequestsFit'
<1>1. ASSUME NEW q \in Req, NEW k \in Key, NEW t \in Thread, ArriveStart(q, k, t)
      PROVE  RequestsFit'
    BY <1>1 DEF ArriveStart, Arrive, db, Goto, RequestsFit, RequestTypeOK, TypeOK, ThreadPCs,
        WaitPCs, FinalPCs
<1>2. ASSUME NEW q \in Req, NEW k \in Key, NEW t \in Thread \cup {NoThread}, ArriveCreate(q, k, t)
      PROVE  RequestsFit'
    BY <1>2 DEF ArriveCreate, Arrive, db, Goto, RequestsFit, RequestTypeOK, TypeOK, ThreadPCs,
        WaitPCs, FinalPCs
<1>3. ASSUME NEW q \in Req, NEW r \in Run, ArriveCancel(q, r)
      PROVE  RequestsFit'
    BY <1>3 DEF ArriveCancel, Arrive, db, Goto, RequestsFit, RequestTypeOK, TypeOK, ThreadPCs,
        WaitPCs, FinalPCs
<1>4. ASSUME NEW q \in Req, LockUser(q)
      PROVE  RequestsFit'
    BY <1>4 DEF LockUser, db, Goto, RequestsFit, RequestTypeOK, TypeOK, ThreadPCs, WaitPCs,
        FinalPCs
<1>5. ASSUME NEW q \in Req, ReadIdem(q)
      PROVE  RequestsFit'
    BY <1>5 DEF ReadIdem, Return, db, Goto, RequestsFit, RequestTypeOK, TypeOK, ThreadPCs,
        WaitPCs, FinalPCs
<1>6. ASSUME NEW q \in Req, ReadActive(q)
      PROVE  RequestsFit'
    BY <1>6 DEF ReadActive, Return, db, Goto, RequestsFit, RequestTypeOK, TypeOK, ThreadPCs,
        WaitPCs, FinalPCs
<1>7. ASSUME NEW q \in Req, ReadRun(q)
      PROVE  RequestsFit'
    BY <1>7 DEF ReadRun, db, RowsConsistent, Goto, RequestsFit, RequestTypeOK, TypeOK, ThreadPCs,
        WaitPCs, FinalPCs
<1>8. ASSUME NEW q \in Req,
         \/ LockToReplace(q) \/ LockNothingToReplace(q) \/ LockToCancel(q)
         \/ LockNothingToCancel(q)
      PROVE  RequestsFit'
    BY <1>8 DEF LockToReplace, LockNothingToReplace, LockToCancel, LockNothingToCancel, TakesLock,
        db, Goto, RequestsFit, RequestTypeOK, TypeOK, ThreadPCs, WaitPCs, FinalPCs
<1>9. ASSUME NEW q \in Req,
         \/ CheckStatus(q) \/ Decide(q) \/ CancelTask(q)
      PROVE  RequestsFit'
    BY <1>9 DEF CheckStatus, Decide, CancelTask, Return, db, Goto, RequestsFit, RequestTypeOK,
        TypeOK, ThreadPCs, WaitPCs, FinalPCs
<1>10. ASSUME NEW q \in Req, MarkCancelling(q)
      PROVE  RequestsFit'
    BY <1>10, RowsStay DEF MarkCancelling, Goto, RequestsFit, RequestTypeOK, TypeOK, ThreadPCs,
        WaitPCs, FinalPCs
<1>11. ASSUME NEW q \in Req,
         \/ AwaitDone(q) \/ Recheck(q) \/ AwaitTimeout(q)
      PROVE  RequestsFit'
    BY <1>11 DEF AwaitDone, Recheck, AwaitTimeout, Proceed, Return, db, Goto, RequestsFit,
        RequestTypeOK, TypeOK, ThreadPCs, WaitPCs, FinalPCs
<1>12. ASSUME NEW q \in Req,
         \/ InsertRefused(q) \/ ReplaceRefused(q)
      PROVE  RequestsFit'
    BY <1>12 DEF InsertRefused, ReplaceRefused, Return, db, Goto, RequestsFit, RequestTypeOK,
        TypeOK, ThreadPCs, WaitPCs, FinalPCs
<1>13. ASSUME NEW q \in Req,
         \/ Spawn(q) \/ AwaitStarted(q) \/ AnnounceArchived(q)
      PROVE  RequestsFit'
    BY <1>13 DEF Spawn, AwaitStarted, AnnounceArchived, Return, db, Goto, RequestsFit,
        RequestTypeOK, TypeOK, ThreadPCs, WaitPCs, FinalPCs
<1>14. ASSUME NEW q \in Req, RequestFault(q)
      PROVE  RequestsFit'
    BY <1>14 DEF RequestFault, DatabasePCs, Return, db, Goto, RequestsFit, RequestTypeOK, TypeOK,
        ThreadPCs, WaitPCs, FinalPCs
<1>15. ASSUME NEW q \in Req, NEW r \in Run, InsertRun(q, r)
      PROVE  RequestsFit'
    BY <1>15, RowsStay DEF InsertRun, Return, Goto, RequestsFit, RequestTypeOK, TypeOK, ThreadPCs,
        WaitPCs, FinalPCs
<1>16. ASSUME NEW q \in Req, NEW t \in Thread, CommitReplace(q, t)
      PROVE  RequestsFit'
    BY <1>16, RowsStay DEF CommitReplace, Return, Goto, RequestsFit, RequestTypeOK, TypeOK,
        ThreadPCs, WaitPCs, FinalPCs
<1>17. ASSUME NEW r \in Run, CommitRunning(r)
      PROVE  RequestsFit'
    BY <1>17, RowsStay DEF CommitRunning, TaskFrame, reqVars, Goto, RequestsFit, RequestTypeOK,
        TypeOK
<1>18. ASSUME NEW r \in Run,
         \/ BeginTask(r) \/ EnterAgent(r) \/ EndTask(r) \/ SaveFailed(r) \/ DeliverCancel(r)
         \/ StartingFault(r)
      PROVE  UNCHANGED <<reqVars, runStatus, threadOf>>
    BY <1>18 DEF BeginTask, EnterAgent, EndTask, SaveFailed, DeliverCancel, StartingFault,
        Resumes, TaskFrame, Finally, Saves, Fault, db, reqVars
<1>19. ASSUME NEW r \in Run, NEW status \in FinishStatuses, CommitFinish(r, status)
      PROVE  RequestsFit'
    BY <1>19, RowsStay DEF CommitFinish, TaskFrame, reqVars, Goto, RequestsFit, RequestTypeOK,
        TypeOK
<1>20. ASSUME NEW r \in Run, NEW status \in FinishStatuses,
         \/ AgentEnds(r, status) \/ FinishConflict(r, status) \/ FinishFault(r, status)
      PROVE  UNCHANGED <<reqVars, runStatus, threadOf>>
    BY <1>20 DEF AgentEnds, FinishConflict, FinishFault, Saves, Resumes, TaskFrame, Settles,
        Fault, db, reqVars
<1>21. ASSUME Exit \/ Crash
      PROVE  RequestsFit'
    BY <1>21 DEF Exit, Crash, LoseMemory, db, Goto, RequestsFit, RequestTypeOK, TypeOK, ThreadPCs,
        WaitPCs, FinalPCs
<1>22. CASE Restart
    BY <1>22, RowsStay DEF Restart, reqVars, Goto, RequestsFit, RequestTypeOK, TypeOK
<1>23. ASSUME Close
      PROVE  UNCHANGED <<reqVars, runStatus, threadOf>>
    BY <1>23 DEF Close, Stop, db, reqVars
<1>24. ASSUME UNCHANGED vars PROVE UNCHANGED <<reqVars, runStatus, threadOf>>
    BY <1>24 DEF vars, db, reqVars
<1>25. CASE UNCHANGED <<reqVars, runStatus, threadOf>>
    BY <1>25 DEF reqVars, RequestsFit
<1> QED BY <1>1, <1>2, <1>3, <1>4, <1>5, <1>6, <1>7, <1>8, <1>9, <1>10, <1>11, <1>12, <1>13,
        <1>14, <1>15, <1>16, <1>17, <1>18, <1>19, <1>20, <1>21, <1>22, <1>23, <1>24, <1>25
    DEF Next, Arrival, RequestStep, TaskStep, FaultStep, ProcessStep, Quiescent, FinishStatuses

\* replace_thread leaves one active thread.
LEMMA ReplaceThreadRows ==
    ASSUME TypeOK, RowsConsistent, NEW k \in Key, NEW current, NEW new \in Thread,
           ReplaceThread(k, current, new)
    PROVE  RowsConsistent'
<1>1. CASE UNCHANGED db
    BY <1>1 DEF db, RowsConsistent, ActiveThreads
<1>2. CASE ~UNCHANGED db
    <2>1. ActiveThread = current
        BY <1>2 DEF ReplaceThread, MayReplaceThread
    <2>2. ActiveThreads \subseteq {current}
        BY <2>1 DEF ActiveThread, RowsConsistent
    <2>3. \A t \in Thread : threadStatus[t] = "active" => t = current
        BY <2>2 DEF ActiveThreads
    <2>4. ASSUME NEW t \in Thread, t # new PROVE threadStatus'[t] # "active"
        BY <1>2, <2>3, <2>4 DEF ReplaceThread, Retired
    <2>5. \A t, u \in ActiveThreads' : t = u
        BY <2>4 DEF ActiveThreads
    <2> QED BY <1>2, <2>5 DEF ReplaceThread, RowsConsistent
<1> QED BY <1>1, <1>2

\* Every step keeps the rows consistent.
LEMMA RowsConsistentStep ==
    ASSUME TypeOK, RequestsFit, RowsConsistent, TasksKnown, WaitersKnown, [Next]_vars
    PROVE  RowsConsistent'
<1>1. ASSUME NEW q \in Req, NEW k \in Key, NEW t \in Thread, ArriveStart(q, k, t)
      PROVE  UNCHANGED db
    BY <1>1 DEF ArriveStart, Arrive, Goto, db
<1>2. ASSUME NEW q \in Req, NEW k \in Key, NEW t \in Thread \cup {NoThread}, ArriveCreate(q, k, t)
      PROVE  UNCHANGED db
    BY <1>2 DEF ArriveCreate, Arrive, Goto, db
<1>3. ASSUME NEW q \in Req, NEW r \in Run, ArriveCancel(q, r)
      PROVE  UNCHANGED db
    BY <1>3 DEF ArriveCancel, Arrive, Goto, db
<1>4. ASSUME NEW q \in Req, MarkCancelling(q)
      PROVE  RowsConsistent'
    BY <1>4 DEF MarkCancelling, SetRunStatus, FinishStatuses, HandlePCs, WaitPCs, WaitersKnown,
        Known, RowsConsistent, StoreTypeOK, TypeOK, ActiveThreads
<1>5. ASSUME NEW q \in Req,
         \/ LockUser(q) \/ ReadIdem(q) \/ ReadActive(q) \/ ReadRun(q) \/ LockToReplace(q)
         \/ LockNothingToReplace(q) \/ LockToCancel(q) \/ LockNothingToCancel(q)
         \/ CheckStatus(q) \/ Decide(q) \/ CancelTask(q) \/ AwaitDone(q) \/ Recheck(q)
         \/ InsertRefused(q) \/ Spawn(q) \/ AwaitStarted(q) \/ ReplaceRefused(q)
         \/ AnnounceArchived(q) \/ AwaitTimeout(q) \/ RequestFault(q)
      PROVE  UNCHANGED db
    BY <1>5 DEF LockUser, ReadIdem, ReadActive, ReadRun, LockToReplace, LockNothingToReplace,
        LockToCancel, LockNothingToCancel, CheckStatus, Decide, CancelTask, AwaitDone, Recheck,
        InsertRefused, Spawn, AwaitStarted, ReplaceRefused, AnnounceArchived, AwaitTimeout,
        RequestFault, Goto, TakesLock, Proceed, Publish, Fault, db
<1>6. ASSUME NEW q \in Req, NEW r \in Run, InsertRun(q, r)
      PROVE  RowsConsistent'
    BY <1>6 DEF InsertRun, CreateRun, MayCreateRun, db, ActiveStatuses, FinishStatuses,
        RequestsFit, RowsConsistent, StoreTypeOK, TypeOK, ActiveThreads
<1>7. ASSUME NEW q \in Req, NEW t \in Thread, CommitReplace(q, t)
      PROVE  RowsConsistent'
    BY <1>7, ReplaceThreadRows DEF CommitReplace, RequestsFit
<1>8. ASSUME NEW r \in Run, CommitRunning(r)
      PROVE  RowsConsistent'
    BY <1>8 DEF CommitRunning, SetRunStatus, FinishStatuses, TasksKnown, Known, Live, LivePCs,
        RowsConsistent, StoreTypeOK, TypeOK, ActiveThreads
<1>9. ASSUME NEW r \in Run,
         \/ BeginTask(r) \/ EnterAgent(r) \/ EndTask(r) \/ SaveFailed(r) \/ DeliverCancel(r)
         \/ StartingFault(r)
      PROVE  UNCHANGED db
    BY <1>9 DEF BeginTask, EnterAgent, EndTask, SaveFailed, DeliverCancel, StartingFault,
        Resumes, TaskFrame, Finally, Saves, Fault, db
<1>10. ASSUME NEW r \in Run, NEW status \in FinishStatuses, CommitFinish(r, status)
      PROVE  RowsConsistent'
    BY <1>10 DEF CommitFinish, FinishRun, db, FinishStatuses, TasksKnown, Known, RowsConsistent,
        StoreTypeOK, TypeOK, ActiveThreads
<1>11. ASSUME NEW r \in Run, NEW status \in FinishStatuses,
         \/ AgentEnds(r, status) \/ FinishConflict(r, status) \/ FinishFault(r, status)
      PROVE  UNCHANGED db
    BY <1>11 DEF AgentEnds, FinishConflict, FinishFault, Saves, Resumes, TaskFrame, Settles,
        Fault, db
<1>12. CASE Restart
    BY <1>12 DEF Restart, RecoverAfterRestart, ActiveStatuses, FinishStatuses, Retired,
        RowsConsistent, StoreTypeOK, TypeOK, ActiveThreads
<1>13. ASSUME Close \/ Exit \/ Crash
      PROVE  UNCHANGED db
    BY <1>13 DEF Close, Exit, Crash, Stop, LoseMemory, db
<1>14. ASSUME UNCHANGED vars PROVE UNCHANGED db
    BY <1>14 DEF vars, db
<1>15. CASE UNCHANGED db
    BY <1>15 DEF db, RowsConsistent, ActiveThreads
<1> QED BY <1>1, <1>2, <1>3, <1>4, <1>5, <1>6, <1>7, <1>8, <1>9, <1>10, <1>11, <1>12, <1>13,
        <1>14, <1>15
    DEF Next, Arrival, RequestStep, TaskStep, FaultStep, ProcessStep, Quiescent, FinishStatuses

\* A run of this process is not interrupted before the process is gone.
LEMMA KnownStays ==
    ASSUME TypeOK, [Next]_vars
    PROVE  server = "down" \/ \A r \in Run : Known(r) => Known(r)'
<1> DEFINE Kept == server = "down" \/ \A r \in Run : Known(r) => Known(r)'
<1>1. ASSUME NEW q \in Req, NEW k \in Key, NEW t \in Thread, ArriveStart(q, k, t)
      PROVE  UNCHANGED runStatus
    BY <1>1 DEF ArriveStart, Arrive, Goto, db
<1>2. ASSUME NEW q \in Req, NEW k \in Key, NEW t \in Thread \cup {NoThread}, ArriveCreate(q, k, t)
      PROVE  UNCHANGED runStatus
    BY <1>2 DEF ArriveCreate, Arrive, Goto, db
<1>3. ASSUME NEW q \in Req, NEW r \in Run, ArriveCancel(q, r)
      PROVE  UNCHANGED runStatus
    BY <1>3 DEF ArriveCancel, Arrive, Goto, db
<1>4. ASSUME NEW q \in Req, MarkCancelling(q)
      PROVE  Kept
    BY <1>4 DEF MarkCancelling, SetRunStatus, Known, StoreTypeOK, TypeOK
<1>5. ASSUME NEW q \in Req,
         \/ LockUser(q) \/ ReadIdem(q) \/ ReadActive(q) \/ ReadRun(q) \/ LockToReplace(q)
         \/ LockNothingToReplace(q) \/ LockToCancel(q) \/ LockNothingToCancel(q)
         \/ CheckStatus(q) \/ Decide(q) \/ CancelTask(q) \/ AwaitDone(q) \/ Recheck(q)
         \/ InsertRefused(q) \/ Spawn(q) \/ AwaitStarted(q) \/ ReplaceRefused(q)
         \/ AnnounceArchived(q) \/ AwaitTimeout(q) \/ RequestFault(q)
      PROVE  UNCHANGED runStatus
    BY <1>5 DEF LockUser, ReadIdem, ReadActive, ReadRun, LockToReplace, LockNothingToReplace,
        LockToCancel, LockNothingToCancel, CheckStatus, Decide, CancelTask, AwaitDone, Recheck,
        InsertRefused, Spawn, AwaitStarted, ReplaceRefused, AnnounceArchived, AwaitTimeout,
        RequestFault, Goto, TakesLock, Proceed, Publish, Fault, db
<1>6. ASSUME NEW q \in Req, NEW r \in Run, InsertRun(q, r)
      PROVE  Kept
    BY <1>6 DEF InsertRun, CreateRun, db, Known, StoreTypeOK, TypeOK
<1>7. ASSUME NEW q \in Req, NEW t \in Thread, CommitReplace(q, t)
      PROVE  Kept
    BY <1>7 DEF CommitReplace, ReplaceThread, db, Known
<1>8. ASSUME NEW r \in Run, CommitRunning(r)
      PROVE  Kept
    BY <1>8 DEF CommitRunning, SetRunStatus, Known, StoreTypeOK, TypeOK
<1>9. ASSUME NEW r \in Run,
         \/ BeginTask(r) \/ EnterAgent(r) \/ EndTask(r) \/ SaveFailed(r) \/ DeliverCancel(r)
         \/ StartingFault(r)
      PROVE  UNCHANGED runStatus
    BY <1>9 DEF BeginTask, EnterAgent, EndTask, SaveFailed, DeliverCancel, StartingFault,
        Resumes, TaskFrame, Finally, Saves, Fault, db
<1>10. ASSUME NEW r \in Run, NEW status \in FinishStatuses, CommitFinish(r, status)
      PROVE  Kept
    BY <1>10 DEF CommitFinish, FinishRun, db, Known, FinishStatuses, StoreTypeOK, TypeOK
<1>11. ASSUME NEW r \in Run, NEW status \in FinishStatuses,
         \/ AgentEnds(r, status) \/ FinishConflict(r, status) \/ FinishFault(r, status)
      PROVE  UNCHANGED runStatus
    BY <1>11 DEF AgentEnds, FinishConflict, FinishFault, Saves, Resumes, TaskFrame, Settles,
        Fault, db
<1>12. CASE Restart
    BY <1>12 DEF Restart
<1>13. ASSUME Close \/ Exit \/ Crash
      PROVE  UNCHANGED runStatus
    BY <1>13 DEF Close, Exit, Crash, Stop, LoseMemory, db
<1>14. ASSUME UNCHANGED vars PROVE UNCHANGED runStatus
    BY <1>14 DEF vars, db
<1>15. CASE UNCHANGED runStatus
    BY <1>15 DEF Known
<1> QED BY <1>1, <1>2, <1>3, <1>4, <1>5, <1>6, <1>7, <1>8, <1>9, <1>10, <1>11, <1>12, <1>13,
        <1>14, <1>15
    DEF Next, Arrival, RequestStep, TaskStep, FaultStep, ProcessStep, Quiescent, FinishStatuses

\* Every registered handle is about a run of this process.
LEMMA HandlesKnownStep ==
    ASSUME TypeOK, HandlesKnown, WaitersKnown, NothingWhenDown, [Next]_vars
    PROVE  HandlesKnown'
<1>1. ASSUME NEW q \in Req, NEW k \in Key, NEW t \in Thread, ArriveStart(q, k, t)
      PROVE  UNCHANGED <<activeTasks, runStatus, threadOf>>
    BY <1>1 DEF ArriveStart, Arrive, Goto, db
<1>2. ASSUME NEW q \in Req, NEW k \in Key, NEW t \in Thread \cup {NoThread}, ArriveCreate(q, k, t)
      PROVE  UNCHANGED <<activeTasks, runStatus, threadOf>>
    BY <1>2 DEF ArriveCreate, Arrive, Goto, db
<1>3. ASSUME NEW q \in Req, NEW r \in Run, ArriveCancel(q, r)
      PROVE  UNCHANGED <<activeTasks, runStatus, threadOf>>
    BY <1>3 DEF ArriveCancel, Arrive, Goto, db
<1>4. ASSUME NEW q \in Req, MarkCancelling(q)
      PROVE  HandlesKnown'
    BY <1>4, KnownStays, RowsStay DEF InsertRun, CommitReplace, MarkCancelling, NothingWhenDown,
        FinalPCs, Known, HandlesKnown, RegistryTypeOK, TypeOK
<1>5. ASSUME NEW q \in Req, Spawn(q)
      PROVE  HandlesKnown'
    BY <1>5 DEF Spawn, WaitersKnown, HandlePCs, RequestTypeOK, db, Known, HandlesKnown,
        RegistryTypeOK, TypeOK
<1>6. ASSUME NEW q \in Req,
         \/ LockUser(q) \/ ReadIdem(q) \/ ReadActive(q) \/ ReadRun(q) \/ LockToReplace(q)
         \/ LockNothingToReplace(q) \/ LockToCancel(q) \/ LockNothingToCancel(q)
         \/ CheckStatus(q) \/ Decide(q) \/ CancelTask(q) \/ AwaitDone(q) \/ Recheck(q)
         \/ InsertRefused(q) \/ AwaitStarted(q) \/ ReplaceRefused(q) \/ AnnounceArchived(q)
         \/ AwaitTimeout(q) \/ RequestFault(q)
      PROVE  UNCHANGED <<activeTasks, runStatus, threadOf>>
    BY <1>6 DEF LockUser, ReadIdem, ReadActive, ReadRun, LockToReplace, LockNothingToReplace,
        LockToCancel, LockNothingToCancel, CheckStatus, Decide, CancelTask, AwaitDone, Recheck,
        InsertRefused, AwaitStarted, ReplaceRefused, AnnounceArchived, AwaitTimeout,
        RequestFault, Goto, TakesLock, Proceed, Publish, Fault, db
<1>7. ASSUME NEW q \in Req, NEW r \in Run, InsertRun(q, r)
      PROVE  HandlesKnown'
    BY <1>7, KnownStays, RowsStay DEF InsertRun, CommitReplace, MarkCancelling, NothingWhenDown,
        FinalPCs, Known, HandlesKnown, RegistryTypeOK, TypeOK
<1>8. ASSUME NEW q \in Req, NEW t \in Thread, CommitReplace(q, t)
      PROVE  HandlesKnown'
    BY <1>8, KnownStays, RowsStay DEF InsertRun, CommitReplace, MarkCancelling, NothingWhenDown,
        FinalPCs, Known, HandlesKnown, RegistryTypeOK, TypeOK
<1>9. ASSUME NEW r \in Run, CommitRunning(r)
      PROVE  HandlesKnown'
    BY <1>9, KnownStays, RowsStay DEF CommitRunning, NothingWhenDown, Live, LivePCs, Known,
        HandlesKnown, RegistryTypeOK, TypeOK
<1>10. ASSUME NEW r \in Run,
         \/ EndTask(r) \/ SaveFailed(r) \/ DeliverCancel(r)
      PROVE  HandlesKnown'
    BY <1>10 DEF EndTask, SaveFailed, DeliverCancel, Finally, TaskFrame, db, Known, HandlesKnown,
        RegistryTypeOK, TypeOK
<1>11. ASSUME NEW r \in Run,
         \/ BeginTask(r) \/ EnterAgent(r) \/ StartingFault(r)
      PROVE  UNCHANGED <<activeTasks, runStatus, threadOf>>
    BY <1>11 DEF BeginTask, EnterAgent, StartingFault, Resumes, TaskFrame, Saves, Fault, db
<1>12. ASSUME NEW r \in Run, NEW status \in FinishStatuses, CommitFinish(r, status)
      PROVE  HandlesKnown'
    BY <1>12, KnownStays, RowsStay DEF CommitFinish, NothingWhenDown, Known, HandlesKnown,
        RegistryTypeOK, TypeOK
<1>13. ASSUME NEW r \in Run, NEW status \in FinishStatuses,
         \/ AgentEnds(r, status) \/ FinishConflict(r, status) \/ FinishFault(r, status)
      PROVE  UNCHANGED <<activeTasks, runStatus, threadOf>>
    BY <1>13 DEF AgentEnds, FinishConflict, FinishFault, Saves, Resumes, TaskFrame, Settles,
        Fault, db
<1>14. ASSUME Exit \/ Crash
      PROVE  HandlesKnown'
    BY <1>14 DEF Exit, Crash, LoseMemory, HandlesKnown
<1>15. CASE Restart
    BY <1>15 DEF Restart, NothingWhenDown, HandlesKnown
<1>16. ASSUME Close
      PROVE  UNCHANGED <<activeTasks, runStatus, threadOf>>
    BY <1>16 DEF Close, Stop, db
<1>17. ASSUME UNCHANGED vars PROVE UNCHANGED <<activeTasks, runStatus, threadOf>>
    BY <1>17 DEF vars, db
<1>18. CASE UNCHANGED <<activeTasks, runStatus, threadOf>>
    BY <1>18 DEF HandlesKnown, Known
<1> QED BY <1>1, <1>2, <1>3, <1>4, <1>5, <1>6, <1>7, <1>8, <1>9, <1>10, <1>11, <1>12, <1>13,
        <1>14, <1>15, <1>16, <1>17, <1>18
    DEF Next, Arrival, RequestStep, TaskStep, FaultStep, ProcessStep, Quiescent, FinishStatuses

\* Every task is about a run of this process, active until it first saves.
LEMMA TasksKnownStep ==
    ASSUME TypeOK, TasksKnown, WaitersKnown, NothingWhenDown, [Next]_vars
    PROVE  TasksKnown'
<1>1. ASSUME NEW q \in Req, NEW k \in Key, NEW t \in Thread, ArriveStart(q, k, t)
      PROVE  UNCHANGED <<tpc, finishing, awaits, runStatus>>
    BY <1>1 DEF ArriveStart, Arrive, Goto, db, taskVars
<1>2. ASSUME NEW q \in Req, NEW k \in Key, NEW t \in Thread \cup {NoThread}, ArriveCreate(q, k, t)
      PROVE  UNCHANGED <<tpc, finishing, awaits, runStatus>>
    BY <1>2 DEF ArriveCreate, Arrive, Goto, db, taskVars
<1>3. ASSUME NEW q \in Req, NEW r \in Run, ArriveCancel(q, r)
      PROVE  UNCHANGED <<tpc, finishing, awaits, runStatus>>
    BY <1>3 DEF ArriveCancel, Arrive, Goto, db, taskVars
<1>4. ASSUME NEW q \in Req, MarkCancelling(q)
      PROVE  TasksKnown'
    BY <1>4 DEF MarkCancelling, SetRunStatus, WaitersKnown, HandlePCs, WaitPCs, taskVars, Live,
        LivePCs, Known, ActiveStatuses, TasksKnown, TaskTypeOK, StoreTypeOK, TypeOK
<1>5. ASSUME NEW q \in Req, Spawn(q)
      PROVE  TasksKnown'
    BY <1>5 DEF Spawn, WaitersKnown, HandlePCs, db, Live, LivePCs, Known, ActiveStatuses,
        TasksKnown, TaskTypeOK, StoreTypeOK, TypeOK
<1>6. ASSUME NEW q \in Req,
         \/ LockUser(q) \/ ReadIdem(q) \/ ReadActive(q) \/ ReadRun(q) \/ LockToReplace(q)
         \/ LockNothingToReplace(q) \/ LockToCancel(q) \/ LockNothingToCancel(q)
         \/ CheckStatus(q) \/ Decide(q) \/ CancelTask(q) \/ AwaitDone(q) \/ Recheck(q)
         \/ InsertRefused(q) \/ AwaitStarted(q) \/ ReplaceRefused(q) \/ AnnounceArchived(q)
         \/ AwaitTimeout(q) \/ RequestFault(q)
      PROVE  UNCHANGED <<tpc, finishing, awaits, runStatus>>
    BY <1>6 DEF LockUser, ReadIdem, ReadActive, ReadRun, LockToReplace, LockNothingToReplace,
        LockToCancel, LockNothingToCancel, CheckStatus, Decide, CancelTask, AwaitDone, Recheck,
        InsertRefused, AwaitStarted, ReplaceRefused, AnnounceArchived, AwaitTimeout,
        RequestFault, Goto, TakesLock, Proceed, Publish, Fault, db, taskVars
<1>7. ASSUME NEW q \in Req, NEW r \in Run, InsertRun(q, r)
      PROVE  TasksKnown'
    BY <1>7 DEF InsertRun, CreateRun, db, taskVars, Live, LivePCs, Known, ActiveStatuses,
        TasksKnown, TaskTypeOK, StoreTypeOK, TypeOK
<1>8. ASSUME NEW q \in Req, NEW t \in Thread, CommitReplace(q, t)
      PROVE  TasksKnown'
    BY <1>8 DEF CommitReplace, ReplaceThread, db, taskVars, Live, LivePCs, Known, ActiveStatuses,
        TasksKnown, TaskTypeOK, StoreTypeOK, TypeOK
<1>9. ASSUME NEW r \in Run, BeginTask(r)
      PROVE  TasksKnown'
    BY <1>9 DEF BeginTask, Resumes, db, Live, LivePCs, Known, ActiveStatuses, TasksKnown,
        TaskTypeOK, StoreTypeOK, TypeOK
<1>10. ASSUME NEW r \in Run, CommitRunning(r)
      PROVE  TasksKnown'
    BY <1>10 DEF CommitRunning, SetRunStatus, Live, LivePCs, Known, ActiveStatuses, TasksKnown,
        TaskTypeOK, StoreTypeOK, TypeOK
<1>11. ASSUME NEW r \in Run, EnterAgent(r)
      PROVE  TasksKnown'
    BY <1>11 DEF EnterAgent, Resumes, db, Live, LivePCs, Known, ActiveStatuses, TasksKnown,
        TaskTypeOK, StoreTypeOK, TypeOK
<1>12. ASSUME NEW r \in Run, EndTask(r)
      PROVE  TasksKnown'
    BY <1>12 DEF EndTask, Resumes, Finally, db, Live, LivePCs, Known, ActiveStatuses, TasksKnown,
        TaskTypeOK, StoreTypeOK, TypeOK
<1>13. ASSUME NEW r \in Run, SaveFailed(r)
      PROVE  TasksKnown'
    BY <1>13 DEF SaveFailed, Resumes, Saves, Finally, FinishStatuses, db, Live, LivePCs, Known,
        ActiveStatuses, TasksKnown, TaskTypeOK, StoreTypeOK, TypeOK
<1>14. ASSUME NEW r \in Run, DeliverCancel(r)
      PROVE  TasksKnown'
    BY <1>14 DEF DeliverCancel, Saves, Finally, FinishStatuses, db, Live, LivePCs, Known,
        ActiveStatuses, TasksKnown, TaskTypeOK, StoreTypeOK, TypeOK
<1>15. ASSUME NEW r \in Run, StartingFault(r)
      PROVE  TasksKnown'
    BY <1>15 DEF StartingFault, Resumes, Saves, FinishStatuses, db, Live, LivePCs, Known,
        ActiveStatuses, TasksKnown, TaskTypeOK, StoreTypeOK, TypeOK
<1>16. ASSUME NEW r \in Run, NEW status \in FinishStatuses, AgentEnds(r, status)
      PROVE  TasksKnown'
    BY <1>16 DEF AgentEnds, Resumes, Saves, FinishStatuses, db, Live, LivePCs, Known,
        ActiveStatuses, TasksKnown, TaskTypeOK, StoreTypeOK, TypeOK
<1>17. ASSUME NEW r \in Run, NEW status \in FinishStatuses, CommitFinish(r, status)
      PROVE  TasksKnown'
    BY <1>17 DEF CommitFinish, Settles, FinishRun, FinishStatuses, db, Live, LivePCs, Known,
        ActiveStatuses, TasksKnown, TaskTypeOK, StoreTypeOK, TypeOK
<1>18. ASSUME NEW r \in Run, NEW status \in FinishStatuses,
         \/ FinishConflict(r, status) \/ FinishFault(r, status)
      PROVE  TasksKnown'
    BY <1>18 DEF FinishConflict, FinishFault, Settles, db, Live, LivePCs, Known, ActiveStatuses,
        TasksKnown, TaskTypeOK, StoreTypeOK, TypeOK
<1>19. ASSUME Exit \/ Crash
      PROVE  TasksKnown'
    <2>1. ASSUME NEW r \in Run
          PROVE  tpc'[r] \notin LivePCs /\ finishing'[r] = {}
        BY <1>19, <2>1 DEF Exit, Crash, LoseMemory, Live, LivePCs
    <2> QED BY <2>1 DEF TasksKnown, Live, LivePCs
<1>20. CASE Restart
    BY <1>20 DEF Restart, NothingWhenDown, taskVars, Live, LivePCs, Known, ActiveStatuses,
        TasksKnown
<1>21. ASSUME Close
      PROVE  UNCHANGED <<tpc, finishing, awaits, runStatus>>
    BY <1>21 DEF Close, Stop, db, taskVars
<1>22. ASSUME UNCHANGED vars PROVE UNCHANGED <<tpc, finishing, awaits, runStatus>>
    BY <1>22 DEF vars, db, taskVars
<1>23. CASE UNCHANGED <<tpc, finishing, awaits, runStatus>>
    BY <1>23 DEF TasksKnown, Live, Known
<1> QED BY <1>1, <1>2, <1>3, <1>4, <1>5, <1>6, <1>7, <1>8, <1>9, <1>10, <1>11, <1>12, <1>13,
        <1>14, <1>15, <1>16, <1>17, <1>18, <1>19, <1>20, <1>21, <1>22, <1>23
    DEF Next, Arrival, RequestStep, TaskStep, FaultStep, ProcessStep, Quiescent, FinishStatuses

\* Every request works on a run of this process.
LEMMA WaitersKnownStep ==
    ASSUME TypeOK, RequestsFit, HandlesKnown, TasksKnown, WaitersKnown, NothingWhenDown, LocksHeld, [Next]_vars
    PROVE  WaitersKnown'
<1>1. ASSUME NEW q \in Req, NEW k \in Key, NEW t \in Thread, ArriveStart(q, k, t)
      PROVE  WaitersKnown'
    BY <1>1 DEF ArriveStart, Arrive, db, taskVars, HandlePCs, WaitPCs, Goto, Live, Known,
        WaitersKnown, RequestTypeOK, TypeOK
<1>2. ASSUME NEW q \in Req, NEW k \in Key, NEW t \in Thread \cup {NoThread}, ArriveCreate(q, k, t)
      PROVE  WaitersKnown'
    BY <1>2 DEF ArriveCreate, Arrive, db, taskVars, HandlePCs, WaitPCs, Goto, Live, Known,
        WaitersKnown, RequestTypeOK, TypeOK
<1>3. ASSUME NEW q \in Req, NEW r \in Run, ArriveCancel(q, r)
      PROVE  WaitersKnown'
    BY <1>3 DEF ArriveCancel, Arrive, db, taskVars, HandlePCs, WaitPCs, Goto, Live, Known,
        WaitersKnown, RequestTypeOK, TypeOK
<1>4. ASSUME NEW q \in Req,
         \/ LockUser(q) \/ ReadIdem(q) \/ ReadActive(q) \/ ReadRun(q)
         \/ LockNothingToReplace(q) \/ LockNothingToCancel(q)
      PROVE  WaitersKnown'
    BY <1>4 DEF LockUser, ReadIdem, ReadActive, ReadRun, LockNothingToReplace,
        LockNothingToCancel, Return, db, taskVars, HandlePCs, WaitPCs, Goto, Live, Known, WaitersKnown,
        RequestTypeOK, TypeOK
<1>5. ASSUME NEW q \in Req, LockToReplace(q)
      PROVE  WaitersKnown'
    BY <1>5 DEF LockToReplace, TakesLock, Handle, RequestsFit, HandlesKnown, RegistryTypeOK, db,
        taskVars, HandlePCs, WaitPCs, Goto, Live, Known, WaitersKnown, RequestTypeOK, TypeOK
<1>6. ASSUME NEW q \in Req, LockToCancel(q)
      PROVE  WaitersKnown'
    BY <1>6, StoreAssumption DEF LockToCancel, TakesLock, Handle, RequestsFit, HandlesKnown,
        RegistryTypeOK, db, HandlePCs, WaitPCs, Goto, Live, Known, WaitersKnown, RequestTypeOK,
        TypeOK
<1>7. ASSUME NEW q \in Req, CheckStatus(q)
      PROVE  WaitersKnown'
    BY <1>7 DEF CheckStatus, db, taskVars, HandlePCs, WaitPCs, Goto, Live, Known, WaitersKnown,
        RequestTypeOK, TypeOK
<1>8. ASSUME NEW q \in Req, Decide(q)
      PROVE  WaitersKnown'
    BY <1>8 DEF Decide, db, HandlePCs, WaitPCs, Goto, Live, Known, WaitersKnown, RequestTypeOK,
        TypeOK
<1>9. ASSUME NEW q \in Req, MarkCancelling(q)
      PROVE  WaitersKnown'
    BY <1>9 DEF MarkCancelling, SetRunStatus, StoreTypeOK, ActiveStatuses, taskVars, HandlePCs,
        WaitPCs, Goto, Live, Known, WaitersKnown, RequestTypeOK, TypeOK
<1>10. ASSUME NEW q \in Req, CancelTask(q)
      PROVE  WaitersKnown'
    BY <1>10 DEF CancelTask, Return, db, HandlePCs, WaitPCs, Goto, Live, Known, WaitersKnown,
        RequestTypeOK, TypeOK
<1>11. ASSUME NEW q \in Req,
         \/ AwaitDone(q) \/ Recheck(q)
      PROVE  WaitersKnown'
    BY <1>11 DEF AwaitDone, Recheck, Proceed, Return, db, taskVars, HandlePCs, WaitPCs, Goto,
        Live, Known, WaitersKnown, RequestTypeOK, TypeOK
<1>12. ASSUME NEW q \in Req,
         \/ InsertRefused(q) \/ AwaitStarted(q) \/ ReplaceRefused(q) \/ AnnounceArchived(q)
         \/ AwaitTimeout(q)
      PROVE  WaitersKnown'
    BY <1>12 DEF InsertRefused, AwaitStarted, ReplaceRefused, AnnounceArchived, AwaitTimeout,
        Return, db, taskVars, HandlePCs, WaitPCs, Goto, Live, Known, WaitersKnown,
        RequestTypeOK, TypeOK
<1>13. ASSUME NEW q \in Req, Spawn(q)
      PROVE  WaitersKnown'
    <2>1. ASSUME NEW p \in Req, p # q, pc[p] = "inserted" PROVE run[p] # run[q]
        BY <1>13, <2>1 DEF Spawn, WaitersKnown, LocksHeld, HandlePCs, ThreadPCs
    <2> QED BY <1>13, <2>1
            DEF Spawn, HandlePCs, WaitPCs, Goto, Live, Known, WaitersKnown, RequestTypeOK, TaskTypeOK,
                TypeOK, db
<1>14. ASSUME NEW q \in Req, RequestFault(q)
      PROVE  WaitersKnown'
    BY <1>14 DEF RequestFault, Return, db, taskVars, HandlePCs, WaitPCs, Goto, Live, Known,
        WaitersKnown, RequestTypeOK, TypeOK
<1>15. ASSUME NEW q \in Req, NEW r \in Run, InsertRun(q, r)
      PROVE  WaitersKnown'
    <2>1. CASE idemRun[key[q]] # NoRun
        BY <1>15, <2>1 DEF InsertRun, CreateRun, Return, Goto, FinalPCs, HandlePCs, WaitPCs,
            WaitersKnown, RequestTypeOK, TypeOK, Live, Known, db, taskVars
    <2>2. CASE idemRun[key[q]] = NoRun
        <3>1. /\ runStatus[r] = "absent" /\ ~Live(r) /\ finishing[r] = {}
              /\ runStatus' = [runStatus EXCEPT ![r] = "starting"]
              /\ threadOf' = [threadOf EXCEPT ![r] = thr[q]]
              /\ run' = [run EXCEPT ![q] = r]
              /\ pc' = [pc EXCEPT ![q] = "inserted"]
              /\ UNCHANGED <<thr, tpc, finishing>>
            BY <1>15, <2>2 DEF InsertRun, CreateRun, Goto, TasksKnown, Known, taskVars
        <3>2. thr[q] \in Thread
            BY <1>15 DEF InsertRun, RequestsFit, ThreadPCs
        <3>3. ASSUME NEW p \in Req, p # q, pc[p] \in HandlePCs PROVE run[p] # r
            BY <3>1, <3>3 DEF WaitersKnown, Known
        <3> QED BY <3>1, <3>2, <3>3 DEF WaitersKnown, Known, Live, HandlePCs, WaitPCs,
                ActiveStatuses, RequestTypeOK, StoreTypeOK, TypeOK
    <2> QED BY <2>1, <2>2
<1>16. ASSUME NEW q \in Req, NEW t \in Thread, CommitReplace(q, t)
      PROVE  WaitersKnown'
    BY <1>16 DEF CommitReplace, ReplaceThread, Return, taskVars, db, HandlePCs, WaitPCs, Goto,
        Live, Known, WaitersKnown, RequestTypeOK, TypeOK
<1>17. ASSUME NEW r \in Run, BeginTask(r)
      PROVE  WaitersKnown'
    BY <1>17 DEF BeginTask, Resumes, LivePCs, TaskFrame, reqVars, db, TaskTypeOK, HandlePCs,
        WaitPCs, Goto, Live, Known, WaitersKnown, RequestTypeOK, TypeOK
<1>18. ASSUME NEW r \in Run, CommitRunning(r)
      PROVE  WaitersKnown'
    BY <1>18 DEF CommitRunning, SetRunStatus, LivePCs, TaskFrame, reqVars, TaskTypeOK,
        StoreTypeOK, ActiveStatuses, HandlePCs, WaitPCs, Goto, Live, Known, WaitersKnown, RequestTypeOK,
        TypeOK
<1>19. ASSUME NEW r \in Run, EnterAgent(r)
      PROVE  WaitersKnown'
    BY <1>19 DEF EnterAgent, Resumes, LivePCs, TaskFrame, reqVars, db, TaskTypeOK, HandlePCs,
        WaitPCs, Goto, Live, Known, WaitersKnown, RequestTypeOK, TypeOK
<1>20. ASSUME NEW r \in Run, EndTask(r)
      PROVE  WaitersKnown'
    BY <1>20 DEF EndTask, Finally, LivePCs, TaskFrame, reqVars, db, TaskTypeOK, HandlePCs,
        WaitPCs, Goto, Live, Known, WaitersKnown, RequestTypeOK, TypeOK
<1>21. ASSUME NEW r \in Run, SaveFailed(r)
      PROVE  WaitersKnown'
    BY <1>21 DEF SaveFailed, Resumes, Saves, Finally, LivePCs, TaskFrame, reqVars, db, TaskTypeOK,
        HandlePCs, WaitPCs, Goto, Live, Known, WaitersKnown, RequestTypeOK, TypeOK
<1>22. ASSUME NEW r \in Run, DeliverCancel(r)
      PROVE  WaitersKnown'
    BY <1>22 DEF DeliverCancel, Saves, Finally, LivePCs, TaskFrame, reqVars, db, TaskTypeOK,
        HandlePCs, WaitPCs, Goto, Live, Known, WaitersKnown, RequestTypeOK, TypeOK
<1>23. ASSUME NEW r \in Run, StartingFault(r)
      PROVE  WaitersKnown'
    BY <1>23 DEF StartingFault, Resumes, Saves, LivePCs, reqVars, db, TaskTypeOK, HandlePCs,
        WaitPCs, Goto, Live, Known, WaitersKnown, RequestTypeOK, TypeOK
<1>24. ASSUME NEW r \in Run, NEW status \in FinishStatuses, AgentEnds(r, status)
      PROVE  WaitersKnown'
    BY <1>24 DEF AgentEnds, Resumes, Saves, LivePCs, TaskFrame, reqVars, db, TaskTypeOK,
        HandlePCs, WaitPCs, Goto, Live, Known, WaitersKnown, RequestTypeOK, TypeOK
<1>25. ASSUME NEW r \in Run, NEW status \in FinishStatuses, CommitFinish(r, status)
      PROVE  WaitersKnown'
    BY <1>25 DEF CommitFinish, FinishRun, Settles, TaskFrame, reqVars, db, TaskTypeOK,
        StoreTypeOK, FinishStatuses, HandlePCs, WaitPCs, Goto, Live, Known, WaitersKnown, RequestTypeOK,
        TypeOK
<1>26. ASSUME NEW r \in Run, NEW status \in FinishStatuses, FinishConflict(r, status)
      PROVE  WaitersKnown'
    BY <1>26 DEF FinishConflict, Settles, TaskFrame, reqVars, db, TaskTypeOK, HandlePCs, WaitPCs,
        Goto, Live, Known, WaitersKnown, RequestTypeOK, TypeOK
<1>27. ASSUME NEW r \in Run, NEW status \in FinishStatuses, FinishFault(r, status)
      PROVE  WaitersKnown'
    BY <1>27 DEF FinishFault, Settles, reqVars, db, TaskTypeOK, HandlePCs, WaitPCs, Goto, Live,
        Known, WaitersKnown, RequestTypeOK, TypeOK
<1>28. ASSUME Exit \/ Crash
      PROVE  WaitersKnown'
    BY <1>28 DEF Exit, Crash, LoseMemory, WaitersKnown, FinalPCs, HandlePCs, WaitPCs
<1>29. CASE Restart
    BY <1>29 DEF Restart, NothingWhenDown, WaitersKnown, FinalPCs, reqVars, HandlePCs, WaitPCs
<1>30. ASSUME Close
      PROVE  UNCHANGED <<pc, run, thr, runStatus, threadOf, tpc, finishing>>
    BY <1>30 DEF Close, Stop, db, taskVars, reqVars
<1>31. ASSUME UNCHANGED vars PROVE UNCHANGED <<pc, run, thr, runStatus, threadOf, tpc, finishing>>
    BY <1>31 DEF vars, db, taskVars, reqVars
<1>32. CASE UNCHANGED <<pc, run, thr, runStatus, threadOf, tpc, finishing>>
    BY <1>32 DEF WaitersKnown, Known, Live
<1> QED BY <1>1, <1>2, <1>3, <1>4, <1>5, <1>6, <1>7, <1>8, <1>9, <1>10, <1>11, <1>12, <1>13,
        <1>14, <1>15, <1>16, <1>17, <1>18, <1>19, <1>20, <1>21, <1>22, <1>23, <1>24, <1>25,
        <1>26, <1>27, <1>28, <1>29, <1>30, <1>31, <1>32
    DEF Next, Arrival, RequestStep, TaskStep, FaultStep, ProcessStep, Quiescent, FinishStatuses

\* A process that is down stays empty until it restarts.
LEMMA NothingWhenDownStep ==
    ASSUME TypeOK, NothingWhenDown, [Next]_vars
    PROVE  NothingWhenDown'
<1>1. ASSUME NEW q \in Req, NEW k \in Key, NEW t \in Thread, ArriveStart(q, k, t)
      PROVE  NothingWhenDown'
    BY <1>1 DEF ArriveStart, ArriveCreate, ArriveCancel, Arrive, procVars, NothingWhenDown,
        FinalPCs
<1>2. ASSUME NEW q \in Req, NEW k \in Key, NEW t \in Thread \cup {NoThread}, ArriveCreate(q, k, t)
      PROVE  NothingWhenDown'
    BY <1>2 DEF ArriveStart, ArriveCreate, ArriveCancel, Arrive, procVars, NothingWhenDown,
        FinalPCs
<1>3. ASSUME NEW q \in Req, NEW r \in Run, ArriveCancel(q, r)
      PROVE  NothingWhenDown'
    BY <1>3 DEF ArriveStart, ArriveCreate, ArriveCancel, Arrive, procVars, NothingWhenDown,
        FinalPCs
<1>4. ASSUME NEW q \in Req,
         \/ LockUser(q) \/ ReadIdem(q) \/ ReadActive(q) \/ ReadRun(q) \/ LockToReplace(q)
         \/ LockNothingToReplace(q) \/ LockToCancel(q) \/ LockNothingToCancel(q)
         \/ CheckStatus(q) \/ Decide(q) \/ MarkCancelling(q) \/ CancelTask(q) \/ AwaitDone(q)
         \/ Recheck(q) \/ InsertRefused(q) \/ Spawn(q) \/ AwaitStarted(q) \/ ReplaceRefused(q)
         \/ AnnounceArchived(q) \/ AwaitTimeout(q)
      PROVE  NothingWhenDown'
    BY <1>4 DEF LockUser, ReadIdem, ReadActive, ReadRun, LockToReplace, LockNothingToReplace,
        LockToCancel, LockNothingToCancel, CheckStatus, Decide, MarkCancelling, CancelTask,
        AwaitDone, Recheck, InsertRefused, Spawn, AwaitStarted, ReplaceRefused,
        AnnounceArchived, AwaitTimeout, TakesLock, procVars, NothingWhenDown, FinalPCs
<1>5. ASSUME NEW q \in Req, RequestFault(q)
      PROVE  NothingWhenDown'
    BY <1>5 DEF RequestFault, DatabasePCs, procVars, NothingWhenDown, FinalPCs
<1>6. ASSUME NEW q \in Req, NEW r \in Run, InsertRun(q, r)
      PROVE  NothingWhenDown'
    BY <1>6 DEF InsertRun, CommitReplace, procVars, NothingWhenDown, FinalPCs
<1>7. ASSUME NEW q \in Req, NEW t \in Thread, CommitReplace(q, t)
      PROVE  NothingWhenDown'
    BY <1>7 DEF InsertRun, CommitReplace, procVars, NothingWhenDown, FinalPCs
<1>8. ASSUME NEW r \in Run,
         \/ BeginTask(r) \/ CommitRunning(r) \/ EnterAgent(r) \/ EndTask(r) \/ SaveFailed(r)
         \/ DeliverCancel(r)
      PROVE  NothingWhenDown'
    BY <1>8 DEF BeginTask, CommitRunning, EnterAgent, EndTask, SaveFailed, DeliverCancel, Resumes,
        Live, LivePCs, TaskFrame, procVars, NothingWhenDown, FinalPCs
<1>9. ASSUME NEW r \in Run, StartingFault(r)
      PROVE  NothingWhenDown'
    BY <1>9 DEF StartingFault, Resumes, Live, LivePCs, procVars, NothingWhenDown, FinalPCs
<1>10. ASSUME NEW r \in Run, NEW status \in FinishStatuses,
         \/ AgentEnds(r, status) \/ CommitFinish(r, status) \/ FinishConflict(r, status)
         \/ FinishFault(r, status)
      PROVE  NothingWhenDown'
    BY <1>10 DEF AgentEnds, CommitFinish, FinishConflict, FinishFault, Resumes, Live, LivePCs,
        TaskFrame, procVars, NothingWhenDown, FinalPCs
<1>11. CASE Close
    BY <1>11 DEF Close, NothingWhenDown
<1>12. ASSUME Exit \/ Crash
      PROVE  NothingWhenDown'
    BY <1>12 DEF Exit, Crash, LoseMemory, Live, LivePCs, FinalPCs, TypeOK, RequestTypeOK,
        NothingWhenDown
<1>13. CASE Restart
    BY <1>13 DEF Restart, NothingWhenDown
<1>14. ASSUME UNCHANGED vars PROVE UNCHANGED <<server, pc, tpc, finishing, activeTasks>>
    BY <1>14 DEF vars, procVars, taskVars, reqVars
<1>15. CASE UNCHANGED <<server, pc, tpc, finishing, activeTasks>>
    BY <1>15 DEF NothingWhenDown, Live
<1> QED BY <1>1, <1>2, <1>3, <1>4, <1>5, <1>6, <1>7, <1>8, <1>9, <1>10, <1>11, <1>12, <1>13,
        <1>14, <1>15
    DEF Next, Arrival, RequestStep, TaskStep, FaultStep, ProcessStep, Quiescent, FinishStatuses


-----------------------------------------------------------------------------
(***************************************************************************)
(* What the locks protect.  Only an insert and a mark can make a run       *)
(* unfinished (UnfinishedBegins), both under the thread's lock.            *)
(***************************************************************************)
\* A request that moves on within its locks,
LEMMA GotoKeepsLocks ==
    ASSUME TypeOK, LocksHeld, NEW q \in Req, NEW p, Goto(q, p), UNCHANGED <<lockVars, kind>>,
           \A o \in Req \ {q} : thr'[o] = thr[o],
           p \in ThreadPCs => pc[q] \in ThreadPCs /\ UNCHANGED thr,
           p \in UserPCs /\ kind[q] # "cancel" => pc[q] \in UserPCs
    PROVE  LocksHeld'
    BY DEF Goto, LocksHeld, lockVars, TypeOK, RequestTypeOK

\* one that leaves its blocks,
LEMMA ReturnKeepsLocks ==
    ASSUME TypeOK, RequestsFit, LocksHeld, NEW q \in Req, NEW p \in FinalPCs, Return(q, p),
           UNCHANGED kind, \A o \in Req \ {q} : thr'[o] = thr[o]
    PROVE  LocksHeld'
<1>1. pc' = [pc EXCEPT ![q] = p] /\ pc'[q] \notin ThreadPCs /\ pc'[q] \notin UserPCs
    BY DEF Return, Goto, FinalPCs, ThreadPCs, UserPCs, WaitPCs, TypeOK, RequestTypeOK
<1>2. ASSUME NEW o \in Req, o # q PROVE pc'[o] = pc[o] /\ thr'[o] = thr[o] /\ kind'[o] = kind[o]
    BY <1>1, <1>2 DEF TypeOK, RequestTypeOK
<1>3. \A t \in Thread : threadLock[t] # q => threadLock'[t] = threadLock[t]
    BY DEF Return, ReleaseThread
<1>4. userLock # q => userLock' = userLock
    BY DEF Return, ReleaseUser
<1>5. \A o \in Req : pc[o] \in ThreadPCs => thr[o] \in Thread
    BY DEF RequestsFit
<1> QED BY <1>1, <1>2, <1>3, <1>4, <1>5 DEF LocksHeld

\* and create_thread, which leaves the thread's block before replace_thread.
LEMMA ReleaseKeepsLocks ==
    ASSUME TypeOK, RequestsFit, LocksHeld, NEW q \in Req, Goto(q, "replace"), ReleaseThread(q),
           pc[q] \in UserPCs, UNCHANGED <<userLock, kind, thr>>
    PROVE  LocksHeld'
<1>1. pc' = [pc EXCEPT ![q] = "replace"]
    BY DEF Goto
<1>2. \A t \in Thread : threadLock[t] # q => threadLock'[t] = threadLock[t]
    BY DEF ReleaseThread
<1>3. \A o \in Req : pc[o] \in ThreadPCs => thr[o] \in Thread
    BY DEF RequestsFit
<1>4. "replace" \notin ThreadPCs
    BY DEF ThreadPCs, WaitPCs
<1> QED BY <1>1, <1>2, <1>3, <1>4 DEF LocksHeld, TypeOK, RequestTypeOK

\* Every request holds the locks its place says, and nobody releases them for it.
LEMMA LocksHeldStep ==
    ASSUME TypeOK, RequestsFit, LocksHeld, [Next]_vars
    PROVE  LocksHeld'
<1>1. ASSUME NEW q \in Req, NEW k \in Key, NEW t \in Thread, ArriveStart(q, k, t)
      PROVE  LocksHeld'
    BY <1>1 DEF ArriveStart, Arrive, RequestTypeOK, TypeOK, lockVars, LocksHeld, Goto, ThreadPCs,
        UserPCs, WaitPCs, FinalPCs
<1>2. ASSUME NEW q \in Req, NEW k \in Key, NEW t \in Thread \cup {NoThread}, ArriveCreate(q, k, t)
      PROVE  LocksHeld'
    BY <1>2 DEF ArriveCreate, Arrive, RequestTypeOK, TypeOK, lockVars, LocksHeld, Goto, ThreadPCs,
        UserPCs, WaitPCs, FinalPCs
<1>3. ASSUME NEW q \in Req, NEW r \in Run, ArriveCancel(q, r)
      PROVE  LocksHeld'
    BY <1>3 DEF ArriveCancel, Arrive, RequestTypeOK, TypeOK, lockVars, LocksHeld, Goto, ThreadPCs,
        UserPCs, WaitPCs, FinalPCs
<1>4. ASSUME NEW q \in Req, LockUser(q)
      PROVE  LocksHeld'
    BY <1>4, RegistryAssumption DEF LockUser, Goto, LocksHeld, RequestTypeOK, TypeOK, RequestsFit,
        ThreadPCs, UserPCs, WaitPCs, FinalPCs
<1>5. ASSUME NEW q \in Req, ReadIdem(q)
      PROVE  LocksHeld'
    BY <1>5, GotoKeepsLocks, ReturnKeepsLocks DEF ReadIdem, RequestTypeOK, TypeOK, ThreadPCs,
        UserPCs, WaitPCs, FinalPCs
<1>6. ASSUME NEW q \in Req, ReadActive(q)
      PROVE  LocksHeld'
    BY <1>6, GotoKeepsLocks, ReturnKeepsLocks DEF ReadActive, ThreadPCs, UserPCs, WaitPCs,
        FinalPCs
<1>7. ASSUME NEW q \in Req, ReadRun(q)
      PROVE  LocksHeld'
    BY <1>7, GotoKeepsLocks DEF ReadRun, RequestsFit, ThreadPCs, UserPCs, WaitPCs, FinalPCs
<1>8. ASSUME NEW q \in Req, LockToReplace(q)
      PROVE  LocksHeld'
    <2>1. thr[q] \in Thread /\ threadLock[thr[q]] = NoReq
        BY <1>8 DEF LockToReplace, TakesLock, RequestsFit
    <2> QED BY <1>8, <2>1, RegistryAssumption DEF LockToReplace, TakesLock, Goto, LocksHeld,
        ThreadPCs, UserPCs, WaitPCs, RequestTypeOK, RegistryTypeOK, TypeOK
<1>9. ASSUME NEW q \in Req, LockNothingToReplace(q)
      PROVE  LocksHeld'
    BY <1>9, GotoKeepsLocks DEF LockNothingToReplace, TakesLock, ThreadPCs, UserPCs, WaitPCs,
        FinalPCs
<1>10. ASSUME NEW q \in Req, LockToCancel(q)
      PROVE  LocksHeld'
    <2>1. thr[q] \in Thread /\ threadLock[thr[q]] = NoReq
        BY <1>10 DEF LockToCancel, TakesLock, RequestsFit
    <2> QED BY <1>10, <2>1, RegistryAssumption DEF LockToCancel, TakesLock, Goto, LocksHeld,
        ThreadPCs, UserPCs, WaitPCs, RequestTypeOK, RegistryTypeOK, TypeOK
<1>11. ASSUME NEW q \in Req, LockNothingToCancel(q)
      PROVE  LocksHeld'
    BY <1>11, GotoKeepsLocks DEF LockNothingToCancel, TakesLock, ThreadPCs, UserPCs, WaitPCs,
        FinalPCs
<1>12. ASSUME NEW q \in Req,
         \/ CheckStatus(q) \/ Decide(q) \/ MarkCancelling(q)
      PROVE  LocksHeld'
    BY <1>12, GotoKeepsLocks DEF CheckStatus, Decide, MarkCancelling, lockVars, ThreadPCs,
        UserPCs, WaitPCs, FinalPCs
<1>13. ASSUME NEW q \in Req, CancelTask(q)
      PROVE  LocksHeld'
    BY <1>13, GotoKeepsLocks, ReturnKeepsLocks DEF CancelTask, ThreadPCs, UserPCs, WaitPCs,
        FinalPCs
<1>14. ASSUME NEW q \in Req,
         \/ AwaitDone(q) \/ Recheck(q)
      PROVE  LocksHeld'
    BY <1>14, GotoKeepsLocks, ReturnKeepsLocks, ReleaseKeepsLocks DEF AwaitDone, Recheck, Proceed,
        ThreadPCs, UserPCs, WaitPCs, FinalPCs
<1>15. ASSUME NEW q \in Req,
         \/ InsertRefused(q) \/ AwaitStarted(q) \/ ReplaceRefused(q) \/ AnnounceArchived(q)
         \/ AwaitTimeout(q)
      PROVE  LocksHeld'
    BY <1>15, ReturnKeepsLocks DEF InsertRefused, AwaitStarted, ReplaceRefused, AnnounceArchived,
        AwaitTimeout, ThreadPCs, UserPCs, WaitPCs, FinalPCs
<1>16. ASSUME NEW q \in Req, Spawn(q)
      PROVE  LocksHeld'
    BY <1>16, GotoKeepsLocks DEF Spawn, lockVars, ThreadPCs, UserPCs, WaitPCs, FinalPCs
<1>17. ASSUME NEW q \in Req, RequestFault(q)
      PROVE  LocksHeld'
    BY <1>17, ReturnKeepsLocks DEF RequestFault, ThreadPCs, UserPCs, WaitPCs, FinalPCs
<1>18. ASSUME NEW q \in Req, NEW r \in Run, InsertRun(q, r)
      PROVE  LocksHeld'
    BY <1>18, GotoKeepsLocks, ReturnKeepsLocks DEF InsertRun, ThreadPCs, UserPCs, WaitPCs,
        FinalPCs
<1>19. ASSUME NEW q \in Req, NEW t \in Thread, CommitReplace(q, t)
      PROVE  LocksHeld'
    <2>1. kind[q] = "create" /\ UNCHANGED kind /\ \A p \in Req \ {q} : thr'[p] = thr[p]
        BY <1>19 DEF CommitReplace, RequestsFit, RequestTypeOK, TypeOK
    <2>2. CASE Return(q, "ok")
        BY <1>19, <2>1, <2>2, ReturnKeepsLocks DEF FinalPCs
    <2>3. CASE Goto(q, "announce") /\ UNCHANGED lockVars
        BY <1>19, <2>1, <2>3, GotoKeepsLocks DEF CommitReplace, ThreadPCs, UserPCs, WaitPCs
    <2> QED BY <1>19, <2>2, <2>3 DEF CommitReplace
<1>20. ASSUME NEW r \in Run,
         \/ BeginTask(r) \/ CommitRunning(r) \/ EnterAgent(r) \/ EndTask(r) \/ SaveFailed(r)
         \/ DeliverCancel(r) \/ StartingFault(r)
      PROVE  UNCHANGED <<lockVars, pc, thr, kind>>
    BY <1>20 DEF BeginTask, CommitRunning, EnterAgent, EndTask, SaveFailed, DeliverCancel,
        StartingFault, Resumes, TaskFrame, SetRunStatus, Finally, Saves, Fault, lockVars,
        reqVars
<1>21. ASSUME NEW r \in Run, NEW status \in FinishStatuses,
         \/ AgentEnds(r, status) \/ CommitFinish(r, status) \/ FinishConflict(r, status)
         \/ FinishFault(r, status)
      PROVE  UNCHANGED <<lockVars, pc, thr, kind>>
    BY <1>21 DEF AgentEnds, CommitFinish, FinishConflict, FinishFault, Saves, Resumes,
        TaskFrame, FinishRun, Settles, Fault, lockVars, reqVars
<1>22. ASSUME Exit \/ Crash
      PROVE  LocksHeld'
    BY <1>22 DEF Exit, Crash, LoseMemory, LocksHeld, ThreadPCs, UserPCs, WaitPCs, FinalPCs
<1>23. ASSUME Close \/ Restart
      PROVE  UNCHANGED <<lockVars, pc, thr, kind>>
    BY <1>23 DEF Close, Restart, Stop, RecoverAfterRestart, lockVars, reqVars
<1>24. ASSUME UNCHANGED vars PROVE UNCHANGED <<lockVars, pc, thr, kind>>
    BY <1>24 DEF vars, lockVars, reqVars
<1>25. CASE UNCHANGED <<lockVars, pc, thr, kind>>
    BY <1>25 DEF LocksHeld, lockVars
<1> QED BY <1>1, <1>2, <1>3, <1>4, <1>5, <1>6, <1>7, <1>8, <1>9, <1>10, <1>11, <1>12, <1>13,
        <1>14, <1>15, <1>16, <1>17, <1>18, <1>19, <1>20, <1>21, <1>22, <1>23, <1>24, <1>25
    DEF Next, Arrival, RequestStep, TaskStep, FaultStep, ProcessStep, Quiescent, FinishStatuses

\* How a run becomes unfinished in a step: inserted under its thread's lock, or marked.
Begins(t, r) ==
    \E q \in Req :
        /\ thr[q] = t
        /\ \/ pc[q] = "mark" /\ run[q] = r
           \/ /\ pc[q] = "insert" /\ pc'[q] = "inserted" /\ run'[q] = r /\ thr'[q] = t
              /\ Unfinished(t) = {} /\ threadStatus[t] = "active"

\* Nothing else makes a run unfinished.
LEMMA UnfinishedBegins ==
    ASSUME TypeOK, RequestsFit, TasksKnown, WaitersKnown, [Next]_vars
    PROVE  \A t \in Thread : \A r \in Unfinished(t)' : r \in Unfinished(t) \/ Begins(t, r)
<1> DEFINE Begun ==
        \A t \in Thread : \A r \in Unfinished(t)' : r \in Unfinished(t) \/ Begins(t, r)
<1>1. ASSUME NEW q \in Req, NEW k \in Key, NEW t \in Thread, ArriveStart(q, k, t)
      PROVE  UNCHANGED <<runStatus, threadOf>>
    BY <1>1 DEF ArriveStart, Arrive, Goto, db
<1>2. ASSUME NEW q \in Req, NEW k \in Key, NEW t \in Thread \cup {NoThread}, ArriveCreate(q, k, t)
      PROVE  UNCHANGED <<runStatus, threadOf>>
    BY <1>2 DEF ArriveCreate, Arrive, Goto, db
<1>3. ASSUME NEW q \in Req, NEW r \in Run, ArriveCancel(q, r)
      PROVE  UNCHANGED <<runStatus, threadOf>>
    BY <1>3 DEF ArriveCancel, Arrive, Goto, db
<1>4. ASSUME NEW q \in Req, MarkCancelling(q)
      PROVE  Begun
    <2>1. Begins(thr[q], run[q])
        BY <1>4 DEF MarkCancelling, Begins
    <2>2. run[q] \in Run /\ threadOf[run[q]] = thr[q]
        BY <1>4 DEF MarkCancelling, WaitersKnown, HandlePCs, WaitPCs
    <2> QED BY <1>4, <2>1, <2>2 DEF MarkCancelling, SetRunStatus, Unfinished, RunsOf, TypeOK,
        StoreTypeOK
<1>5. ASSUME NEW q \in Req,
         \/ LockUser(q) \/ ReadIdem(q) \/ ReadActive(q) \/ ReadRun(q) \/ LockToReplace(q)
         \/ LockNothingToReplace(q) \/ LockToCancel(q) \/ LockNothingToCancel(q)
         \/ CheckStatus(q) \/ Decide(q) \/ CancelTask(q) \/ AwaitDone(q) \/ Recheck(q)
         \/ InsertRefused(q) \/ Spawn(q) \/ AwaitStarted(q) \/ ReplaceRefused(q)
         \/ AnnounceArchived(q) \/ AwaitTimeout(q) \/ RequestFault(q)
      PROVE  UNCHANGED <<runStatus, threadOf>>
    BY <1>5 DEF LockUser, ReadIdem, ReadActive, ReadRun, LockToReplace, LockNothingToReplace,
        LockToCancel, LockNothingToCancel, CheckStatus, Decide, CancelTask, AwaitDone, Recheck,
        InsertRefused, Spawn, AwaitStarted, ReplaceRefused, AnnounceArchived, AwaitTimeout,
        RequestFault, Goto, TakesLock, Proceed, Publish, Fault, db
<1>6. ASSUME NEW q \in Req, NEW r \in Run, InsertRun(q, r)
      PROVE  Begun
    <2>1. CASE UNCHANGED db
        BY <2>1 DEF Unfinished, RunsOf, db
    <2>2. CASE idemRun[key[q]] = NoRun
        <3>1. thr[q] \in Thread
            BY <1>6 DEF InsertRun, RequestsFit, ThreadPCs
        <3>2. /\ Unfinished(thr[q]) = {} /\ threadStatus[thr[q]] = "active"
              /\ runStatus' = [runStatus EXCEPT ![r] = "starting"]
              /\ threadOf' = [threadOf EXCEPT ![r] = thr[q]]
              /\ run'[q] = r /\ pc'[q] = "inserted" /\ thr' = thr /\ pc[q] = "insert"
            BY <1>6, <2>2 DEF InsertRun, CreateRun, MayCreateRun, Goto, TypeOK, RequestTypeOK
        <3>3. Begins(thr[q], r)
            BY <3>2 DEF Begins
        <3> QED BY <3>1, <3>2, <3>3 DEF Unfinished, RunsOf, TypeOK, StoreTypeOK
    <2> QED BY <1>6, <2>1, <2>2 DEF InsertRun, CreateRun
<1>7. ASSUME NEW q \in Req, NEW t \in Thread, CommitReplace(q, t)
      PROVE  Begun
    BY <1>7 DEF CommitReplace, ReplaceThread, db, Unfinished, RunsOf
<1>8. ASSUME NEW r \in Run, CommitRunning(r)
      PROVE  Begun
    BY <1>8 DEF CommitRunning, SetRunStatus, TasksKnown, ActiveStatuses, Unfinished, RunsOf,
        StoreTypeOK, TypeOK
<1>9. ASSUME NEW r \in Run,
         \/ BeginTask(r) \/ EnterAgent(r) \/ EndTask(r) \/ SaveFailed(r) \/ DeliverCancel(r)
         \/ StartingFault(r)
      PROVE  UNCHANGED <<runStatus, threadOf>>
    BY <1>9 DEF BeginTask, EnterAgent, EndTask, SaveFailed, DeliverCancel, StartingFault,
        Resumes, TaskFrame, Finally, Saves, Fault, db
<1>10. ASSUME NEW r \in Run, NEW status \in FinishStatuses, CommitFinish(r, status)
      PROVE  Begun
    BY <1>10 DEF CommitFinish, FinishRun, FinishStatuses, ActiveStatuses, db, Unfinished, RunsOf,
        StoreTypeOK, TypeOK
<1>11. ASSUME NEW r \in Run, NEW status \in FinishStatuses,
         \/ AgentEnds(r, status) \/ FinishConflict(r, status) \/ FinishFault(r, status)
      PROVE  UNCHANGED <<runStatus, threadOf>>
    BY <1>11 DEF AgentEnds, FinishConflict, FinishFault, Saves, Resumes, TaskFrame, Settles,
        Fault, db
<1>12. CASE Restart
    BY <1>12 DEF Restart, RecoverAfterRestart, ActiveStatuses, Unfinished, RunsOf, StoreTypeOK,
        TypeOK
<1>13. ASSUME Close \/ Exit \/ Crash
      PROVE  UNCHANGED <<runStatus, threadOf>>
    BY <1>13 DEF Close, Exit, Crash, Stop, LoseMemory, db
<1>14. ASSUME UNCHANGED vars PROVE UNCHANGED <<runStatus, threadOf>>
    BY <1>14 DEF vars, db
<1>15. CASE UNCHANGED <<runStatus, threadOf>>
    BY <1>15 DEF Unfinished, RunsOf
<1> QED BY <1>1, <1>2, <1>3, <1>4, <1>5, <1>6, <1>7, <1>8, <1>9, <1>10, <1>11, <1>12, <1>13,
        <1>14, <1>15
    DEF Next, Arrival, RequestStep, TaskStep, FaultStep, ProcessStep, Quiescent, FinishStatuses

\* A request at the insert or at the mark of a thread keeps every other one away from it.
LEMMA OneAtThread ==
    ASSUME LocksHeld, NEW q1 \in Req, NEW q2 \in Req, pc[q1] \in ThreadPCs, pc[q2] \in ThreadPCs,
           thr[q1] = thr[q2]
    PROVE  q1 = q2
    BY DEF LocksHeld

\* Every step keeps one unfinished run per thread: an insert finds none, a mark finds at
\* most the run it marks, and the thread lock keeps the two apart.
LEMMA OneUnfinishedStep ==
    ASSUME TypeOK, RequestsFit, TasksKnown, WaitersKnown, LocksHeld, LockedView,
           OneUnfinishedRunPerThread, [Next]_vars
    PROVE  OneUnfinishedRunPerThread'
<1> SUFFICES ASSUME NEW t \in Thread, NEW r1 \in Unfinished(t)', NEW r2 \in Unfinished(t)'
             PROVE  r1 = r2
    BY DEF OneUnfinishedRunPerThread
<1>1. /\ r1 \in Unfinished(t) \/ Begins(t, r1)
      /\ r2 \in Unfinished(t) \/ Begins(t, r2)
    BY UnfinishedBegins
<1>2. CASE r1 \in Unfinished(t) /\ r2 \in Unfinished(t)
    BY <1>2 DEF OneUnfinishedRunPerThread
<1>3. ASSUME NEW x \in {r1, r2}, NEW y \in {r1, r2}, x \in Unfinished(t), Begins(t, y)
      PROVE  x = y
    BY <1>3 DEF Begins, LockedView, ViewHolds, HandlePCs, WaitPCs
<1>4. CASE Begins(t, r1) /\ Begins(t, r2)
    BY <1>4, OneAtThread DEF Begins, ThreadPCs, WaitPCs
<1> QED BY <1>1, <1>2, <1>3, <1>4

\* Where no handle changes, the unfinished runs stay those of the handles.
LEMMA HandlesKeepThreads ==
    ASSUME TypeOK, RequestsFit, TasksKnown, WaitersKnown, HandleOwnsThread, LockedView,
           NEW t \in Thread, [Next]_vars, activeTasks[t] # NoRun
    PROVE  Unfinished(t)' \subseteq {activeTasks[t]}
    BY UnfinishedBegins DEF Begins, HandleOwnsThread, LockedView, ViewHolds, WaitPCs

\* Every step keeps the unfinished runs of a thread with its handle.
LEMMA HandleOwnsThreadStep ==
    ASSUME TypeOK, RequestsFit, TasksKnown, WaitersKnown, NothingWhenDown, HandleOwnsThread,
           LockedView, [Next]_vars
    PROVE  HandleOwnsThread'
<1>1. ASSUME NEW q \in Req, NEW k \in Key, NEW t \in Thread, ArriveStart(q, k, t)
      PROVE  UNCHANGED <<activeTasks, tpc, runStatus, threadOf>>
    BY <1>1 DEF ArriveStart, Arrive, Goto, db, taskVars
<1>2. ASSUME NEW q \in Req, NEW k \in Key, NEW t \in Thread \cup {NoThread}, ArriveCreate(q, k, t)
      PROVE  UNCHANGED <<activeTasks, tpc, runStatus, threadOf>>
    BY <1>2 DEF ArriveCreate, Arrive, Goto, db, taskVars
<1>3. ASSUME NEW q \in Req, NEW r \in Run, ArriveCancel(q, r)
      PROVE  UNCHANGED <<activeTasks, tpc, runStatus, threadOf>>
    BY <1>3 DEF ArriveCancel, Arrive, Goto, db, taskVars
<1>4. ASSUME NEW q \in Req, MarkCancelling(q)
      PROVE  HandleOwnsThread'
    BY <1>4, HandlesKeepThreads DEF InsertRun, CommitReplace, MarkCancelling, taskVars,
        HandleOwnsThread
<1>5. ASSUME NEW q \in Req, Spawn(q)
      PROVE  HandleOwnsThread'
    <2>1. /\ thr[q] \in Thread /\ run[q] \in Run /\ run[q] # NoRun
          /\ Unfinished(thr[q]) \subseteq {run[q]} /\ UNCHANGED <<runStatus, threadOf>>
        BY <1>5, StoreAssumption DEF Spawn, RequestsFit, ThreadPCs, WaitersKnown, LockedView,
            ViewHolds, HandlePCs, db
    <2>2. \A t \in Thread : Unfinished(t)' = Unfinished(t)
        BY <2>1 DEF Unfinished, RunsOf
    <2>3. /\ activeTasks' = [activeTasks EXCEPT ![thr[q]] = run[q]]
          /\ tpc' = [tpc EXCEPT ![run[q]] = "created"]
        BY <1>5 DEF Spawn
    <2> QED BY <2>1, <2>2, <2>3 DEF HandleOwnsThread, TypeOK, RegistryTypeOK, TaskTypeOK
<1>6. ASSUME NEW q \in Req,
         \/ LockUser(q) \/ ReadIdem(q) \/ ReadActive(q) \/ ReadRun(q) \/ LockToReplace(q)
         \/ LockNothingToReplace(q) \/ LockToCancel(q) \/ LockNothingToCancel(q)
         \/ CheckStatus(q) \/ Decide(q) \/ CancelTask(q) \/ AwaitDone(q) \/ Recheck(q)
         \/ InsertRefused(q) \/ AwaitStarted(q) \/ ReplaceRefused(q) \/ AnnounceArchived(q)
         \/ AwaitTimeout(q) \/ RequestFault(q)
      PROVE  UNCHANGED <<activeTasks, tpc, runStatus, threadOf>>
    BY <1>6 DEF LockUser, ReadIdem, ReadActive, ReadRun, LockToReplace, LockNothingToReplace,
        LockToCancel, LockNothingToCancel, CheckStatus, Decide, CancelTask, AwaitDone, Recheck,
        InsertRefused, AwaitStarted, ReplaceRefused, AnnounceArchived, AwaitTimeout,
        RequestFault, Goto, TakesLock, Proceed, Publish, Fault, db, taskVars
<1>7. ASSUME NEW q \in Req, NEW r \in Run, InsertRun(q, r)
      PROVE  HandleOwnsThread'
    BY <1>7, HandlesKeepThreads DEF InsertRun, CommitReplace, MarkCancelling, taskVars,
        HandleOwnsThread
<1>8. ASSUME NEW q \in Req, NEW t \in Thread, CommitReplace(q, t)
      PROVE  HandleOwnsThread'
    BY <1>8, HandlesKeepThreads DEF InsertRun, CommitReplace, MarkCancelling, taskVars,
        HandleOwnsThread
<1>9. ASSUME NEW r \in Run, BeginTask(r)
      PROVE  HandleOwnsThread'
    BY <1>9, HandlesKeepThreads DEF BeginTask, HandleOwnsThread, RegistryTypeOK, TaskTypeOK,
        TypeOK
<1>10. ASSUME NEW r \in Run, CommitRunning(r)
      PROVE  HandleOwnsThread'
    BY <1>10, HandlesKeepThreads DEF CommitRunning, HandleOwnsThread, RegistryTypeOK, TaskTypeOK,
        TypeOK
<1>11. ASSUME NEW r \in Run, EnterAgent(r)
      PROVE  HandleOwnsThread'
    BY <1>11, HandlesKeepThreads DEF EnterAgent, HandleOwnsThread, RegistryTypeOK, TaskTypeOK,
        TypeOK
<1>12. ASSUME NEW r \in Run, EndTask(r)
      PROVE  HandleOwnsThread'
    BY <1>12, HandlesKeepThreads DEF EndTask, Finally, HandleOwnsThread, RegistryTypeOK,
        TaskTypeOK, TypeOK
<1>13. ASSUME NEW r \in Run, SaveFailed(r)
      PROVE  HandleOwnsThread'
    BY <1>13, HandlesKeepThreads DEF SaveFailed, Saves, Finally, HandleOwnsThread, RegistryTypeOK,
        TaskTypeOK, TypeOK
<1>14. ASSUME NEW r \in Run, DeliverCancel(r)
      PROVE  HandleOwnsThread'
    BY <1>14, HandlesKeepThreads DEF DeliverCancel, Saves, Finally, HandleOwnsThread,
        RegistryTypeOK, TaskTypeOK, TypeOK
<1>15. ASSUME NEW r \in Run, StartingFault(r)
      PROVE  HandleOwnsThread'
    BY <1>15, HandlesKeepThreads DEF StartingFault, Saves, HandleOwnsThread, RegistryTypeOK,
        TaskTypeOK, TypeOK
<1>16. ASSUME NEW r \in Run, NEW status \in FinishStatuses, AgentEnds(r, status)
      PROVE  HandleOwnsThread'
    BY <1>16, HandlesKeepThreads DEF AgentEnds, Saves, HandleOwnsThread, RegistryTypeOK,
        TaskTypeOK, TypeOK
<1>17. ASSUME NEW r \in Run, NEW status \in FinishStatuses, CommitFinish(r, status)
      PROVE  HandleOwnsThread'
    BY <1>17, HandlesKeepThreads DEF CommitFinish, HandleOwnsThread, RegistryTypeOK, TaskTypeOK,
        TypeOK
<1>18. ASSUME NEW r \in Run, NEW status \in FinishStatuses,
         \/ FinishConflict(r, status) \/ FinishFault(r, status)
      PROVE  UNCHANGED <<activeTasks, tpc, runStatus, threadOf>>
    BY <1>18 DEF FinishConflict, FinishFault, Settles, TaskFrame, Fault, db, taskVars
<1>19. ASSUME Exit \/ Crash
      PROVE  HandleOwnsThread'
    BY <1>19 DEF Exit, Crash, LoseMemory, HandleOwnsThread
<1>20. CASE Restart
    BY <1>20 DEF Restart, NothingWhenDown, HandleOwnsThread
<1>21. ASSUME Close
      PROVE  UNCHANGED <<activeTasks, tpc, runStatus, threadOf>>
    BY <1>21 DEF Close, Stop, db, taskVars
<1>22. ASSUME UNCHANGED vars PROVE UNCHANGED <<activeTasks, tpc, runStatus, threadOf>>
    BY <1>22 DEF vars, db, taskVars
<1>23. CASE UNCHANGED <<activeTasks, tpc, runStatus, threadOf>>
    BY <1>23 DEF HandleOwnsThread, Unfinished, RunsOf
<1> QED BY <1>1, <1>2, <1>3, <1>4, <1>5, <1>6, <1>7, <1>8, <1>9, <1>10, <1>11, <1>12, <1>13,
        <1>14, <1>15, <1>16, <1>17, <1>18, <1>19, <1>20, <1>21, <1>22, <1>23
    DEF Next, Arrival, RequestStep, TaskStep, FaultStep, ProcessStep, Quiescent, FinishStatuses

\* The `finally` block unregisters its own handle and no other.
LEMMA FinallyUnregisters ==
    ASSUME TypeOK, RowsConsistent, TasksKnown, LiveIsRegistered, NEW r \in Run, Finally(r),
           UNCHANGED threadOf
    PROVE  LiveIsRegistered'
<1>1. \A x \in Run : Live(x) => threadOf[x] \in Thread
    BY DEF TasksKnown, RowsConsistent, Known
<1>2. \A x \in Run : Live(x)' => Live(x) /\ x # r
    BY DEF Finally, Live, LivePCs, TypeOK, TaskTypeOK
<1> QED BY <1>1, <1>2 DEF Finally, LiveIsRegistered

\* Every task that executes stays registered: nobody else registers under its lock.
LEMMA LiveIsRegisteredStep ==
    ASSUME TypeOK, RequestsFit, RowsConsistent, TasksKnown, WaitersKnown, NothingWhenDown,
           LiveIsRegistered, LockedView, [Next]_vars
    PROVE  LiveIsRegistered'
<1>1. ASSUME NEW q \in Req, NEW k \in Key, NEW t \in Thread, ArriveStart(q, k, t)
      PROVE  UNCHANGED <<activeTasks, tpc, threadOf>>
    BY <1>1 DEF ArriveStart, Arrive, Goto, db, taskVars
<1>2. ASSUME NEW q \in Req, NEW k \in Key, NEW t \in Thread \cup {NoThread}, ArriveCreate(q, k, t)
      PROVE  UNCHANGED <<activeTasks, tpc, threadOf>>
    BY <1>2 DEF ArriveCreate, Arrive, Goto, db, taskVars
<1>3. ASSUME NEW q \in Req, NEW r \in Run, ArriveCancel(q, r)
      PROVE  UNCHANGED <<activeTasks, tpc, threadOf>>
    BY <1>3 DEF ArriveCancel, Arrive, Goto, db, taskVars
<1>4. ASSUME NEW q \in Req, MarkCancelling(q)
      PROVE  LiveIsRegistered'
    BY <1>4, RowsStay DEF InsertRun, CommitReplace, MarkCancelling, taskVars, LiveIsRegistered,
        Live, TasksKnown, Known
<1>5. ASSUME NEW q \in Req, Spawn(q)
      PROVE  LiveIsRegistered'
    <2>1. /\ thr[q] \in Thread /\ threadOf[run[q]] = thr[q] /\ activeTasks[thr[q]] = NoRun
          /\ run[q] \in Run
        BY <1>5 DEF Spawn, RequestsFit, ThreadPCs, WaitersKnown, LockedView, ViewHolds, HandlePCs
    <2>2. /\ activeTasks' = [activeTasks EXCEPT ![thr[q]] = run[q]]
          /\ tpc' = [tpc EXCEPT ![run[q]] = "created"] /\ threadOf' = threadOf
        BY <1>5 DEF Spawn, db
    <2>3. ASSUME NEW r \in Run, r # run[q], Live(r)
          PROVE  threadOf[r] # thr[q]
        BY <2>1, <2>3, StoreAssumption DEF LiveIsRegistered
    <2> QED BY <2>1, <2>2, <2>3 DEF LiveIsRegistered, Live, TypeOK, RegistryTypeOK, TaskTypeOK
<1>6. ASSUME NEW q \in Req,
         \/ LockUser(q) \/ ReadIdem(q) \/ ReadActive(q) \/ ReadRun(q) \/ LockToReplace(q)
         \/ LockNothingToReplace(q) \/ LockToCancel(q) \/ LockNothingToCancel(q)
         \/ CheckStatus(q) \/ Decide(q) \/ CancelTask(q) \/ AwaitDone(q) \/ Recheck(q)
         \/ InsertRefused(q) \/ AwaitStarted(q) \/ ReplaceRefused(q) \/ AnnounceArchived(q)
         \/ AwaitTimeout(q) \/ RequestFault(q)
      PROVE  UNCHANGED <<activeTasks, tpc, threadOf>>
    BY <1>6 DEF LockUser, ReadIdem, ReadActive, ReadRun, LockToReplace, LockNothingToReplace,
        LockToCancel, LockNothingToCancel, CheckStatus, Decide, CancelTask, AwaitDone, Recheck,
        InsertRefused, AwaitStarted, ReplaceRefused, AnnounceArchived, AwaitTimeout,
        RequestFault, Goto, TakesLock, Proceed, Publish, Fault, db, taskVars
<1>7. ASSUME NEW q \in Req, NEW r \in Run, InsertRun(q, r)
      PROVE  LiveIsRegistered'
    BY <1>7, RowsStay DEF InsertRun, CommitReplace, MarkCancelling, taskVars, LiveIsRegistered,
        Live, TasksKnown, Known
<1>8. ASSUME NEW q \in Req, NEW t \in Thread, CommitReplace(q, t)
      PROVE  LiveIsRegistered'
    BY <1>8, RowsStay DEF InsertRun, CommitReplace, MarkCancelling, taskVars, LiveIsRegistered,
        Live, TasksKnown, Known
<1>9. ASSUME NEW r \in Run, BeginTask(r)
      PROVE  LiveIsRegistered'
    BY <1>9 DEF BeginTask, Resumes, db, LiveIsRegistered, Live, LivePCs, RegistryTypeOK,
        TaskTypeOK, TypeOK
<1>10. ASSUME NEW r \in Run, CommitRunning(r)
      PROVE  LiveIsRegistered'
    BY <1>10, RowsStay DEF CommitRunning, TasksKnown, Known, LiveIsRegistered, Live, LivePCs,
        RegistryTypeOK, TaskTypeOK, TypeOK
<1>11. ASSUME NEW r \in Run, EnterAgent(r)
      PROVE  LiveIsRegistered'
    BY <1>11 DEF EnterAgent, Resumes, db, LiveIsRegistered, Live, LivePCs, RegistryTypeOK,
        TaskTypeOK, TypeOK
<1>12. ASSUME NEW r \in Run, EndTask(r)
      PROVE  LiveIsRegistered'
    BY <1>12, FinallyUnregisters DEF EndTask, db, LiveIsRegistered, Live, LivePCs, RegistryTypeOK,
        TaskTypeOK, TypeOK
<1>13. ASSUME NEW r \in Run, SaveFailed(r)
      PROVE  LiveIsRegistered'
    <2>1. UNCHANGED threadOf
        BY <1>13 DEF SaveFailed, db
    <2>2. CASE Finally(r)
        BY <2>1, <2>2, FinallyUnregisters
    <2>3. CASE Saves(r, "failed") /\ UNCHANGED activeTasks
        BY <1>13, <2>1, <2>3 DEF SaveFailed, Resumes, Saves, LiveIsRegistered, Live, LivePCs,
            TypeOK, TaskTypeOK
    <2> QED BY <1>13, <2>2, <2>3 DEF SaveFailed
<1>14. ASSUME NEW r \in Run, DeliverCancel(r)
      PROVE  LiveIsRegistered'
    <2>1. UNCHANGED threadOf
        BY <1>14 DEF DeliverCancel, db
    <2>2. CASE Finally(r)
        BY <2>1, <2>2, FinallyUnregisters
    <2>3. CASE Saves(r, "cancelled") /\ UNCHANGED activeTasks
        BY <1>14, <2>1, <2>3 DEF DeliverCancel, Saves, LiveIsRegistered, Live, LivePCs, TypeOK,
            TaskTypeOK
    <2>4. CASE tpc' = [tpc EXCEPT ![r] = "killed"] /\ UNCHANGED activeTasks
        BY <1>14, <2>1, <2>4 DEF LiveIsRegistered, Live, LivePCs, TypeOK, TaskTypeOK
    <2> QED BY <1>14, <2>2, <2>3, <2>4 DEF DeliverCancel
<1>15. ASSUME NEW r \in Run, StartingFault(r)
      PROVE  LiveIsRegistered'
    BY <1>15 DEF StartingFault, Resumes, Saves, db, LiveIsRegistered, Live, LivePCs,
        RegistryTypeOK, TaskTypeOK, TypeOK
<1>16. ASSUME NEW r \in Run, NEW status \in FinishStatuses, AgentEnds(r, status)
      PROVE  LiveIsRegistered'
    BY <1>16 DEF AgentEnds, Resumes, Saves, db, LiveIsRegistered, Live, LivePCs, RegistryTypeOK,
        TaskTypeOK, TypeOK
<1>17. ASSUME NEW r \in Run, NEW status \in FinishStatuses, CommitFinish(r, status)
      PROVE  LiveIsRegistered'
    BY <1>17, RowsStay DEF CommitFinish, TasksKnown, Known, LiveIsRegistered, Live, LivePCs,
        RegistryTypeOK, TaskTypeOK, TypeOK
<1>18. ASSUME NEW r \in Run, NEW status \in FinishStatuses,
         \/ FinishConflict(r, status) \/ FinishFault(r, status)
      PROVE  UNCHANGED <<activeTasks, tpc, threadOf>>
    BY <1>18 DEF FinishConflict, FinishFault, Settles, TaskFrame, Fault, db, taskVars
<1>19. ASSUME Exit \/ Crash
      PROVE  LiveIsRegistered'
    BY <1>19 DEF Exit, Crash, LoseMemory, LiveIsRegistered, Live, LivePCs
<1>20. CASE Restart
    BY <1>20 DEF Restart, NothingWhenDown, LiveIsRegistered, Live, taskVars
<1>21. ASSUME Close
      PROVE  UNCHANGED <<activeTasks, tpc, threadOf>>
    BY <1>21 DEF Close, Stop, db, taskVars
<1>22. ASSUME UNCHANGED vars PROVE UNCHANGED <<activeTasks, tpc, threadOf>>
    BY <1>22 DEF vars, db, taskVars
<1>23. CASE UNCHANGED <<activeTasks, tpc, threadOf>>
    BY <1>23 DEF LiveIsRegistered, Live
<1> QED BY <1>1, <1>2, <1>3, <1>4, <1>5, <1>6, <1>7, <1>8, <1>9, <1>10, <1>11, <1>12, <1>13,
        <1>14, <1>15, <1>16, <1>17, <1>18, <1>19, <1>20, <1>21, <1>22, <1>23
    DEF Next, Arrival, RequestStep, TaskStep, FaultStep, ProcessStep, Quiescent, FinishStatuses

\* Under the lock the unfinished runs stay those of the handle found,
LEMMA ViewKeepsRuns ==
    ASSUME RequestsFit, TypeOK, TasksKnown, WaitersKnown, LocksHeld, LockedView, [Next]_vars,
           NEW q \in Req, pc[q] \in HandlePCs, NEW t, t = thr[q]
    PROVE  Unfinished(t)' \subseteq {run[q]}
<1>1. t \in Thread /\ pc[q] \in ThreadPCs
    BY DEF HandlePCs, ThreadPCs, RequestsFit
<1>2. ASSUME NEW r, Begins(t, r) PROVE r = run[q]
    BY <1>1, <1>2, OneAtThread DEF Begins, ThreadPCs, WaitPCs, HandlePCs
<1>3. Unfinished(t) \subseteq {run[q]}
    BY DEF LockedView, ViewHolds
<1> QED BY <1>1, <1>2, <1>3, UnfinishedBegins

\* so a request that stays where it is keeps its view while its handle and task do.
LEMMA ViewStays ==
    ASSUME RequestsFit, TypeOK, TasksKnown, WaitersKnown, LocksHeld, LockedView, [Next]_vars,
           NEW q \in Req, pc'[q] = pc[q], thr'[q] = thr[q], run'[q] = run[q],
           pc[q] \in ThreadPCs =>
               /\ activeTasks'[thr[q]] \in {activeTasks[thr[q]], NoRun}
               /\ pc[q] = "recheck" /\ tpc[run[q]] = "ended" => tpc'[run[q]] = "ended"
    PROVE  ViewHolds(q)'
<1>1. ASSUME pc[q] \in HandlePCs
      PROVE  {r \in Run : threadOf'[r] = thr'[q] /\ runStatus'[r] \in ActiveStatuses} \subseteq {run[q]}
    BY <1>1, ViewKeepsRuns DEF Unfinished, RunsOf
<1>2. pc[q] \in WaitPCs \cup {"insert", "inserted", "recheck"} => pc[q] \in ThreadPCs
    BY DEF ThreadPCs, WaitPCs
<1> QED BY <1>1, <1>2 DEF LockedView, ViewHolds, Unfinished, RunsOf

\* A request that does not hold a thread's lock has no view to keep.
LEMMA NoView ==
    ASSUME NEW q \in Req, pc'[q] \notin ThreadPCs
    PROVE  ViewHolds(q)'
    BY DEF ViewHolds, ThreadPCs, HandlePCs, WaitPCs

\* Within _cancel_and_wait the view stays while no handle and no task changes.
LEMMA ViewMoves ==
    ASSUME RequestsFit, TypeOK, TasksKnown, WaitersKnown, LocksHeld, LockedView, [Next]_vars,
           NEW q \in Req, pc[q] \in WaitPCs, pc'[q] \in WaitPCs, UNCHANGED <<thr, run, activeTasks, tpc>>,
           pc'[q] = "recheck" => tpc[run[q]] = "ended"
    PROVE  ViewHolds(q)'
<1>1. {r \in Run : threadOf'[r] = thr'[q] /\ runStatus'[r] \in ActiveStatuses} \subseteq {run[q]}
    BY ViewKeepsRuns DEF Unfinished, RunsOf, HandlePCs
<1>2. activeTasks'[thr'[q]] \in {run'[q], NoRun} /\ pc'[q] \notin {"insert", "inserted"}
    BY DEF LockedView, ViewHolds, WaitPCs
<1> QED BY <1>1, <1>2 DEF ViewHolds, Unfinished, RunsOf

\* Every step keeps what the requests know under their thread locks.
LEMMA LockedViewStep ==
    ASSUME TypeOK, RequestsFit, TasksKnown, WaitersKnown, NothingWhenDown, LocksHeld,
           HandleOwnsThread, LockedView, [Next]_vars
    PROVE  LockedView'
<1>1. ASSUME NEW q \in Req, NEW k \in Key, NEW t \in Thread, ArriveStart(q, k, t)
      PROVE  LockedView'
    <2>1. ASSUME NEW o \in Req, o # q PROVE ViewHolds(o)'
        BY <1>1, <2>1, ViewStays DEF ArriveStart, Arrive, Goto, taskVars, RequestTypeOK, TypeOK
    <2>2. ViewHolds(q)'
        BY <1>1, NoView DEF ArriveStart, Arrive, Goto, ThreadPCs, UserPCs, WaitPCs, HandlePCs,
        FinalPCs, RequestTypeOK, TypeOK
    <2> QED BY <2>1, <2>2 DEF LockedView
<1>2. ASSUME NEW q \in Req, NEW k \in Key, NEW t \in Thread \cup {NoThread}, ArriveCreate(q, k, t)
      PROVE  LockedView'
    <2>1. ASSUME NEW o \in Req, o # q PROVE ViewHolds(o)'
        BY <1>2, <2>1, ViewStays DEF ArriveCreate, Arrive, Goto, taskVars, RequestTypeOK, TypeOK
    <2>2. ViewHolds(q)'
        BY <1>2, NoView DEF ArriveCreate, Arrive, Goto, ThreadPCs, UserPCs, WaitPCs, HandlePCs,
        FinalPCs, RequestTypeOK, TypeOK
    <2> QED BY <2>1, <2>2 DEF LockedView
<1>3. ASSUME NEW q \in Req, NEW r \in Run, ArriveCancel(q, r)
      PROVE  LockedView'
    <2>1. ASSUME NEW o \in Req, o # q PROVE ViewHolds(o)'
        BY <1>3, <2>1, ViewStays DEF ArriveCancel, Arrive, Goto, taskVars, RequestTypeOK, TypeOK
    <2>2. ViewHolds(q)'
        BY <1>3, NoView DEF ArriveCancel, Arrive, Goto, ThreadPCs, UserPCs, WaitPCs, HandlePCs,
        FinalPCs, RequestTypeOK, TypeOK
    <2> QED BY <2>1, <2>2 DEF LockedView
<1>4. ASSUME NEW q \in Req,
         \/ LockUser(q) \/ ReadIdem(q) \/ ReadActive(q) \/ ReadRun(q)
      PROVE  LockedView'
    <2>1. ASSUME NEW o \in Req, o # q PROVE ViewHolds(o)'
        BY <1>4, <2>1, ViewStays DEF LockUser, ReadIdem, ReadActive, ReadRun, Return, Goto,
        taskVars, RequestTypeOK, TypeOK
    <2>2. ViewHolds(q)'
        BY <1>4, NoView DEF LockUser, ReadIdem, ReadActive, ReadRun, Return, Goto, ThreadPCs,
        UserPCs, WaitPCs, HandlePCs, FinalPCs, RequestTypeOK, TypeOK
    <2> QED BY <2>1, <2>2 DEF LockedView
<1>5. ASSUME NEW q \in Req, LockToReplace(q)
      PROVE  LockedView'
    <2>1. ASSUME NEW o \in Req, o # q PROVE ViewHolds(o)'
        BY <1>5, <2>1, ViewStays DEF LockToReplace, db, Goto, taskVars, RequestTypeOK, TypeOK
    <2>2. /\ thr[q] \in Thread /\ run'[q] = activeTasks[thr[q]] /\ thr' = thr
          /\ UNCHANGED <<activeTasks, runStatus, threadOf>>
          /\ pc'[q] = IF activeTasks[thr[q]] = NoRun THEN "insert" ELSE "check"
        BY <1>5 DEF LockToReplace, TakesLock, RequestsFit, Handle, Goto, RequestTypeOK, TypeOK, db
    <2>3. activeTasks[thr[q]] # NoRun => Unfinished(thr[q]) \subseteq {run'[q]}
        BY <2>2 DEF HandleOwnsThread
    <2>4. ViewHolds(q)'
        BY <2>2, <2>3 DEF ViewHolds, WaitPCs, HandlePCs, Unfinished, RunsOf
    <2> QED BY <2>1, <2>4 DEF LockedView
<1>6. ASSUME NEW q \in Req,
         \/ LockNothingToReplace(q) \/ LockNothingToCancel(q)
      PROVE  LockedView'
    <2>1. ASSUME NEW o \in Req, o # q PROVE ViewHolds(o)'
        BY <1>6, <2>1, ViewStays DEF LockNothingToReplace, LockNothingToCancel, TakesLock, Goto,
        taskVars, RequestTypeOK, TypeOK
    <2>2. ViewHolds(q)'
        BY <1>6, NoView DEF LockNothingToReplace, LockNothingToCancel, TakesLock, Goto, ThreadPCs,
        UserPCs, WaitPCs, HandlePCs, FinalPCs, RequestTypeOK, TypeOK
    <2> QED BY <2>1, <2>2 DEF LockedView
<1>7. ASSUME NEW q \in Req, LockToCancel(q)
      PROVE  LockedView'
    <2>1. ASSUME NEW o \in Req, o # q PROVE ViewHolds(o)'
        BY <1>7, <2>1, ViewStays DEF LockToCancel, db, Goto, taskVars, RequestTypeOK, TypeOK
    <2>2. /\ thr[q] \in Thread /\ run[q] = activeTasks[thr[q]] /\ run[q] # NoRun /\ pc'[q] = "mark"
          /\ UNCHANGED <<activeTasks, runStatus, threadOf, run, thr>>
        BY <1>7, StoreAssumption
        DEF LockToCancel, TakesLock, RequestsFit, Handle, Goto, RequestTypeOK, TypeOK, db
    <2>3. Unfinished(thr[q]) \subseteq {run[q]}
        BY <2>2 DEF HandleOwnsThread
    <2>4. ViewHolds(q)'
        BY <2>2, <2>3 DEF ViewHolds, WaitPCs, HandlePCs, Unfinished, RunsOf
    <2> QED BY <2>1, <2>4 DEF LockedView
<1>8. ASSUME NEW q \in Req,
         \/ CheckStatus(q) \/ Decide(q) \/ MarkCancelling(q)
      PROVE  LockedView'
    <2>1. ASSUME NEW o \in Req, o # q PROVE ViewHolds(o)'
        BY <1>8, <2>1, ViewStays DEF CheckStatus, Decide, MarkCancelling, Goto, taskVars,
        RequestTypeOK, TypeOK
    <2>2. ViewHolds(q)'
        BY <1>8, ViewMoves
           DEF CheckStatus, Decide, MarkCancelling, Goto, WaitPCs, taskVars, RequestTypeOK, TypeOK
    <2> QED BY <2>1, <2>2 DEF LockedView
<1>9. ASSUME NEW q \in Req, CancelTask(q)
      PROVE  LockedView'
    <2>1. ASSUME NEW o \in Req, o # q PROVE ViewHolds(o)'
        BY <1>9, <2>1, ViewStays DEF CancelTask, Return, Goto, taskVars, RequestTypeOK, TypeOK
    <2>2. CASE Return(q, "ok")
        BY <1>9, <2>2, <2>1, NoView
           DEF LockedView, Return, Goto, ThreadPCs, WaitPCs, RequestTypeOK, TypeOK
    <2>3. CASE Goto(q, "await")
        BY <1>9, <2>3, <2>1, ViewMoves
           DEF CancelTask, LockedView, Goto, WaitPCs, RequestTypeOK, TypeOK
    <2> QED BY <1>9, <2>2, <2>3 DEF CancelTask
<1>10. ASSUME NEW q \in Req, AwaitDone(q)
      PROVE  LockedView'
    <2>1. ASSUME NEW o \in Req, o # q PROVE ViewHolds(o)'
        BY <1>10, <2>1, ViewStays DEF AwaitDone, Proceed, Return, Goto, taskVars, RequestTypeOK,
        TypeOK
    <2>2. CASE Goto(q, "insert") /\ UNCHANGED lockVars
        <3>1. /\ pc[q] \in WaitPCs /\ thr[q] \in Thread /\ tpc[run[q]] = "ended"
              /\ UNCHANGED <<activeTasks, thr>> /\ pc'[q] = "insert"
            BY <1>10, <2>2 DEF AwaitDone, Goto, WaitPCs, ThreadPCs, RequestsFit, RequestTypeOK,
                TypeOK, DoneEvent, LockedView, ViewHolds
        <3>2. activeTasks[thr[q]] = NoRun
            BY <3>1 DEF LockedView, ViewHolds, HandleOwnsThread
        <3> QED BY <2>1, <3>1, <3>2 DEF LockedView, ViewHolds, WaitPCs, HandlePCs
    <2>3. CASE Goto(q, "replace")
        BY <1>10, <2>3, <2>1, NoView DEF LockedView, Goto, ThreadPCs, WaitPCs, RequestTypeOK,
            TypeOK
    <2>4. CASE Goto(q, "recheck")
        <3>1. /\ pc' = [pc EXCEPT ![q] = "recheck"] /\ pc[q] \in {"await", "drain"}
              /\ tpc'[run[q]] = "ended" /\ UNCHANGED <<activeTasks, tpc, run, thr>>
            BY <1>10, <2>4 DEF AwaitDone, DoneEvent, Goto, taskVars
        <3>2. pc'[q] = "recheck" /\ pc[q] \in WaitPCs
            BY <3>1 DEF WaitPCs, RequestTypeOK, TypeOK
        <3> QED BY <2>1, <3>1, <3>2, ViewMoves DEF LockedView, WaitPCs
    <2> QED BY <1>10, <2>2, <2>3, <2>4 DEF AwaitDone, Proceed
<1>11. ASSUME NEW q \in Req, Recheck(q)
      PROVE  LockedView'
    <2>1. ASSUME NEW o \in Req, o # q PROVE ViewHolds(o)'
        BY <1>11, <2>1, ViewStays DEF Recheck, Proceed, Return, Goto, taskVars, RequestTypeOK,
        TypeOK
    <2>2. CASE Goto(q, "insert") /\ UNCHANGED lockVars
        <3>1. /\ pc[q] \in WaitPCs /\ thr[q] \in Thread /\ tpc[run[q]] = "ended"
              /\ UNCHANGED <<activeTasks, thr>> /\ pc'[q] = "insert"
            BY <1>11, <2>2 DEF Recheck, Goto, WaitPCs, ThreadPCs, RequestsFit, RequestTypeOK,
                TypeOK, DoneEvent, LockedView, ViewHolds
        <3>2. activeTasks[thr[q]] = NoRun
            BY <3>1 DEF LockedView, ViewHolds, HandleOwnsThread
        <3> QED BY <2>1, <3>1, <3>2 DEF LockedView, ViewHolds, WaitPCs, HandlePCs
    <2>3. CASE Goto(q, "replace")
        BY <1>11, <2>3, <2>1, NoView DEF LockedView, Goto, ThreadPCs, WaitPCs, RequestTypeOK,
            TypeOK
    <2>4. CASE Return(q, "error")
        BY <1>11, <2>4, <2>1, NoView
           DEF LockedView, Return, Goto, ThreadPCs, WaitPCs, RequestTypeOK, TypeOK
    <2> QED BY <1>11, <2>2, <2>3, <2>4 DEF Recheck, Proceed
<1>12. ASSUME NEW q \in Req,
         \/ InsertRefused(q) \/ AwaitStarted(q) \/ ReplaceRefused(q) \/ AnnounceArchived(q)
         \/ AwaitTimeout(q)
      PROVE  LockedView'
    <2>1. ASSUME NEW o \in Req, o # q PROVE ViewHolds(o)'
        BY <1>12, <2>1, ViewStays DEF InsertRefused, AwaitStarted, ReplaceRefused,
            AnnounceArchived, AwaitTimeout, Return, Goto, taskVars, RequestTypeOK, TypeOK
    <2>2. ViewHolds(q)'
        BY <1>12, NoView DEF InsertRefused, AwaitStarted, ReplaceRefused, AnnounceArchived,
        AwaitTimeout, Return, Goto, ThreadPCs, UserPCs, WaitPCs, HandlePCs, FinalPCs,
        RequestTypeOK, TypeOK
    <2> QED BY <2>1, <2>2 DEF LockedView
<1>13. ASSUME NEW q \in Req, Spawn(q)
      PROVE  LockedView'
    <2>1. /\ thr[q] \in Thread /\ run[q] \in Run /\ threadOf[run[q]] = thr[q]
          /\ pc[q] \in ThreadPCs /\ pc'[q] = "await_start" /\ pc[q] \in HandlePCs
          /\ activeTasks' = [activeTasks EXCEPT ![thr[q]] = run[q]]
          /\ tpc' = [tpc EXCEPT ![run[q]] = "created"]
          /\ UNCHANGED <<runStatus, threadOf, thr, run>>
        BY <1>13 DEF Spawn, RequestsFit, ThreadPCs, WaitersKnown, HandlePCs, Goto,
            RequestTypeOK, TypeOK, db
    <2>2. ASSUME NEW o \in Req, o # q PROVE ViewHolds(o)'
        <3>1. pc'[o] = pc[o] /\ thr'[o] = thr[o] /\ run'[o] = run[o]
            BY <1>13, <2>2 DEF Spawn, Goto, RequestTypeOK, TypeOK
        <3>2. ASSUME pc[o] \in ThreadPCs
              PROVE  /\ activeTasks'[thr[o]] \in {activeTasks[thr[o]], NoRun}
                     /\ pc[o] = "recheck" => tpc'[run[o]] = "ended"
            <4>1. thr[o] # thr[q] /\ thr[o] \in Thread
                BY <2>1, <2>2, <3>2, OneAtThread DEF RequestsFit
            <4>2. pc[o] = "recheck" => /\ run[o] \in Run /\ run[o] # run[q]
                                       /\ tpc[run[o]] = "ended"
                BY <2>1, <4>1 DEF WaitersKnown, HandlePCs, WaitPCs, LockedView, ViewHolds
            <4> QED BY <2>1, <4>1, <4>2 DEF TypeOK, RegistryTypeOK, TaskTypeOK
        <3> QED BY <3>1, <3>2, ViewStays
    <2>3. Unfinished(thr[q]) \subseteq {run[q]}
        BY <2>1 DEF LockedView, ViewHolds
    <2>4. ViewHolds(q)'
        BY <2>1, <2>3 DEF ViewHolds, WaitPCs, HandlePCs, Unfinished, RunsOf
    <2> QED BY <2>2, <2>4 DEF LockedView
<1>14. ASSUME NEW q \in Req, RequestFault(q)
      PROVE  LockedView'
    <2>1. ASSUME NEW o \in Req, o # q PROVE ViewHolds(o)'
        BY <1>14, <2>1, ViewStays DEF RequestFault, Return, Goto, taskVars, RequestTypeOK, TypeOK
    <2>2. ViewHolds(q)'
        BY <1>14, NoView DEF RequestFault, Return, Goto, ThreadPCs, UserPCs, WaitPCs, HandlePCs,
        FinalPCs, RequestTypeOK, TypeOK
    <2> QED BY <2>1, <2>2 DEF LockedView
<1>15. ASSUME NEW q \in Req, NEW r \in Run, InsertRun(q, r)
      PROVE  LockedView'
    <2>1. ASSUME NEW o \in Req, o # q PROVE ViewHolds(o)'
        BY <1>15, <2>1, ViewStays DEF InsertRun, Return, Goto, taskVars, RequestTypeOK, TypeOK
    <2>2. CASE pc'[q] = "inserted"
        <3>1. /\ idemRun[key[q]] = NoRun /\ activeTasks'[thr[q]] = NoRun /\ thr' = thr
            BY <1>15, <2>2 DEF InsertRun, Return, Goto, LockedView, ViewHolds, RequestTypeOK,
                TypeOK
        <3>2. /\ Unfinished(thr[q]) = {} /\ run'[q] = r
              /\ runStatus' = [runStatus EXCEPT ![r] = "starting"]
              /\ threadOf' = [threadOf EXCEPT ![r] = thr[q]]
            BY <1>15, <3>1 DEF InsertRun, CreateRun, MayCreateRun, RequestTypeOK, TypeOK
        <3>3. ViewHolds(q)'
            BY <2>2, <3>1, <3>2 DEF ViewHolds, WaitPCs, HandlePCs, Unfinished, RunsOf, TypeOK,
                StoreTypeOK
        <3> QED BY <2>1, <3>3 DEF LockedView
    <2>3. CASE pc'[q] = "ok"
        BY <2>1, <2>3, NoView DEF LockedView, ThreadPCs, WaitPCs
    <2> QED BY <1>15, <2>2, <2>3 DEF InsertRun, Return, Goto, RequestTypeOK, TypeOK
<1>16. ASSUME NEW q \in Req, NEW t \in Thread, CommitReplace(q, t)
      PROVE  LockedView'
    <2>1. ASSUME NEW o \in Req, o # q PROVE ViewHolds(o)'
        BY <1>16, <2>1, ViewStays DEF CommitReplace, Return, Goto, taskVars, RequestTypeOK, TypeOK
    <2>2. ViewHolds(q)'
        BY <1>16, NoView DEF CommitReplace, Return, Goto, ThreadPCs, UserPCs, WaitPCs, HandlePCs,
        FinalPCs, RequestTypeOK, TypeOK
    <2> QED BY <2>1, <2>2 DEF LockedView
<1>17. ASSUME NEW r \in Run, BeginTask(r)
      PROVE  LockedView'
    <2>1. ASSUME NEW q \in Req PROVE ViewHolds(q)'
        <3>1. UNCHANGED <<pc, thr, run>>
            BY <1>17 DEF BeginTask, TaskFrame, reqVars
        <3>2. tpc[r] # "ended" /\ \A x \in Run \ {r} : tpc'[x] = tpc[x]
            BY <1>17 DEF BeginTask, Resumes, TypeOK, TaskTypeOK
        <3>3. \A t \in Thread : activeTasks'[t] \in {activeTasks[t], NoRun}
            BY <1>17 DEF BeginTask, TypeOK, RegistryTypeOK
        <3>4. pc[q] = "recheck" => run[q] \in Run /\ tpc[run[q]] = "ended"
            BY DEF WaitersKnown, HandlePCs, WaitPCs, LockedView, ViewHolds
        <3> QED BY <3>1, <3>2, <3>3, <3>4, ViewStays DEF RequestsFit
    <2> QED BY <2>1 DEF LockedView
<1>18. ASSUME NEW r \in Run, CommitRunning(r)
      PROVE  LockedView'
    <2>1. ASSUME NEW q \in Req PROVE ViewHolds(q)'
        <3>1. UNCHANGED <<pc, thr, run>>
            BY <1>18 DEF CommitRunning, TaskFrame, reqVars
        <3>2. tpc[r] # "ended" /\ \A x \in Run \ {r} : tpc'[x] = tpc[x]
            BY <1>18 DEF CommitRunning, TypeOK, TaskTypeOK
        <3>3. \A t \in Thread : activeTasks'[t] \in {activeTasks[t], NoRun}
            BY <1>18 DEF CommitRunning, TypeOK, RegistryTypeOK
        <3>4. pc[q] = "recheck" => run[q] \in Run /\ tpc[run[q]] = "ended"
            BY DEF WaitersKnown, HandlePCs, WaitPCs, LockedView, ViewHolds
        <3> QED BY <3>1, <3>2, <3>3, <3>4, ViewStays DEF RequestsFit
    <2> QED BY <2>1 DEF LockedView
<1>19. ASSUME NEW r \in Run, EnterAgent(r)
      PROVE  LockedView'
    <2>1. ASSUME NEW q \in Req PROVE ViewHolds(q)'
        <3>1. UNCHANGED <<pc, thr, run>>
            BY <1>19 DEF EnterAgent, TaskFrame, reqVars
        <3>2. tpc[r] # "ended" /\ \A x \in Run \ {r} : tpc'[x] = tpc[x]
            BY <1>19 DEF EnterAgent, Resumes, TypeOK, TaskTypeOK
        <3>3. \A t \in Thread : activeTasks'[t] \in {activeTasks[t], NoRun}
            BY <1>19 DEF EnterAgent, TypeOK, RegistryTypeOK
        <3>4. pc[q] = "recheck" => run[q] \in Run /\ tpc[run[q]] = "ended"
            BY DEF WaitersKnown, HandlePCs, WaitPCs, LockedView, ViewHolds
        <3> QED BY <3>1, <3>2, <3>3, <3>4, ViewStays DEF RequestsFit
    <2> QED BY <2>1 DEF LockedView
<1>20. ASSUME NEW r \in Run, EndTask(r)
      PROVE  LockedView'
    <2>1. ASSUME NEW q \in Req PROVE ViewHolds(q)'
        <3>1. UNCHANGED <<pc, thr, run>>
            BY <1>20 DEF EndTask, TaskFrame, reqVars
        <3>2. tpc[r] # "ended" /\ \A x \in Run \ {r} : tpc'[x] = tpc[x]
            BY <1>20 DEF EndTask, Resumes, Finally, TypeOK, TaskTypeOK
        <3>3. \A t \in Thread : activeTasks'[t] \in {activeTasks[t], NoRun}
            BY <1>20 DEF EndTask, Finally, TypeOK, RegistryTypeOK
        <3>4. pc[q] = "recheck" => run[q] \in Run /\ tpc[run[q]] = "ended"
            BY DEF WaitersKnown, HandlePCs, WaitPCs, LockedView, ViewHolds
        <3> QED BY <3>1, <3>2, <3>3, <3>4, ViewStays DEF RequestsFit
    <2> QED BY <2>1 DEF LockedView
<1>21. ASSUME NEW r \in Run, SaveFailed(r)
      PROVE  LockedView'
    <2>1. ASSUME NEW q \in Req PROVE ViewHolds(q)'
        <3>1. UNCHANGED <<pc, thr, run>>
            BY <1>21 DEF SaveFailed, TaskFrame, reqVars
        <3>2. tpc[r] # "ended" /\ \A x \in Run \ {r} : tpc'[x] = tpc[x]
            <4>1. CASE Saves(r, "failed")
                BY <1>21, <4>1 DEF SaveFailed, Resumes, Saves, TypeOK, TaskTypeOK
            <4>2. CASE Finally(r)
                BY <1>21, <4>2 DEF SaveFailed, Resumes, Finally, TypeOK, TaskTypeOK
            <4> QED BY <1>21, <4>1, <4>2 DEF SaveFailed
        <3>3. \A t \in Thread : activeTasks'[t] \in {activeTasks[t], NoRun}
            BY <1>21 DEF SaveFailed, Finally, TypeOK, RegistryTypeOK
        <3>4. pc[q] = "recheck" => run[q] \in Run /\ tpc[run[q]] = "ended"
            BY DEF WaitersKnown, HandlePCs, WaitPCs, LockedView, ViewHolds
        <3> QED BY <3>1, <3>2, <3>3, <3>4, ViewStays DEF RequestsFit
    <2> QED BY <2>1 DEF LockedView
<1>22. ASSUME NEW r \in Run, DeliverCancel(r)
      PROVE  LockedView'
    <2>1. ASSUME NEW q \in Req PROVE ViewHolds(q)'
        <3>1. UNCHANGED <<pc, thr, run>>
            BY <1>22 DEF DeliverCancel, TaskFrame, reqVars
        <3>2. tpc[r] # "ended" /\ \A x \in Run \ {r} : tpc'[x] = tpc[x]
            <4>1. tpc[r] # "ended"
                BY <1>22 DEF DeliverCancel, Live, LivePCs
            <4>2. CASE Saves(r, "cancelled")
                BY <4>1, <4>2 DEF Saves, TypeOK, TaskTypeOK
            <4>3. CASE Finally(r)
                BY <4>1, <4>3 DEF Finally, TypeOK, TaskTypeOK
            <4>4. CASE tpc' = [tpc EXCEPT ![r] = "killed"]
                BY <4>1, <4>4 DEF TypeOK, TaskTypeOK
            <4> QED BY <1>22, <4>2, <4>3, <4>4 DEF DeliverCancel
        <3>3. \A t \in Thread : activeTasks'[t] \in {activeTasks[t], NoRun}
            BY <1>22 DEF DeliverCancel, Finally, TypeOK, RegistryTypeOK
        <3>4. pc[q] = "recheck" => run[q] \in Run /\ tpc[run[q]] = "ended"
            BY DEF WaitersKnown, HandlePCs, WaitPCs, LockedView, ViewHolds
        <3> QED BY <3>1, <3>2, <3>3, <3>4, ViewStays DEF RequestsFit
    <2> QED BY <2>1 DEF LockedView
<1>23. ASSUME NEW r \in Run, StartingFault(r)
      PROVE  LockedView'
    <2>1. ASSUME NEW q \in Req PROVE ViewHolds(q)'
        <3>1. UNCHANGED <<pc, thr, run>>
            BY <1>23 DEF StartingFault, reqVars
        <3>2. tpc[r] # "ended" /\ \A x \in Run \ {r} : tpc'[x] = tpc[x]
            BY <1>23 DEF StartingFault, Resumes, Saves, TypeOK, TaskTypeOK
        <3>3. \A t \in Thread : activeTasks'[t] \in {activeTasks[t], NoRun}
            BY <1>23 DEF StartingFault, TypeOK, RegistryTypeOK
        <3>4. pc[q] = "recheck" => run[q] \in Run /\ tpc[run[q]] = "ended"
            BY DEF WaitersKnown, HandlePCs, WaitPCs, LockedView, ViewHolds
        <3> QED BY <3>1, <3>2, <3>3, <3>4, ViewStays DEF RequestsFit
    <2> QED BY <2>1 DEF LockedView
<1>24. ASSUME NEW r \in Run, NEW status \in FinishStatuses, AgentEnds(r, status)
      PROVE  LockedView'
    <2>1. ASSUME NEW q \in Req PROVE ViewHolds(q)'
        <3>1. UNCHANGED <<pc, thr, run>>
            BY <1>24 DEF AgentEnds, TaskFrame, reqVars
        <3>2. tpc[r] # "ended" /\ \A x \in Run \ {r} : tpc'[x] = tpc[x]
            BY <1>24 DEF AgentEnds, Resumes, Saves, TypeOK, TaskTypeOK
        <3>3. \A t \in Thread : activeTasks'[t] \in {activeTasks[t], NoRun}
            BY <1>24 DEF AgentEnds, TypeOK, RegistryTypeOK
        <3>4. pc[q] = "recheck" => run[q] \in Run /\ tpc[run[q]] = "ended"
            BY DEF WaitersKnown, HandlePCs, WaitPCs, LockedView, ViewHolds
        <3> QED BY <3>1, <3>2, <3>3, <3>4, ViewStays DEF RequestsFit
    <2> QED BY <2>1 DEF LockedView
<1>25. ASSUME NEW r \in Run, NEW status \in FinishStatuses, CommitFinish(r, status)
      PROVE  LockedView'
    <2>1. UNCHANGED <<pc, thr, run, activeTasks, tpc>>
        BY <1>25 DEF CommitFinish, TaskFrame, reqVars
    <2> QED BY <2>1, ViewStays DEF LockedView, ViewHolds
<1>26. ASSUME NEW r \in Run, NEW status \in FinishStatuses,
         \/ FinishConflict(r, status) \/ FinishFault(r, status)
      PROVE  UNCHANGED <<pc, thr, run, activeTasks, tpc, runStatus, threadOf>>
    BY <1>26 DEF FinishConflict, FinishFault, Settles, TaskFrame, Fault, db, taskVars, reqVars
<1>27. ASSUME Exit \/ Crash
      PROVE  LockedView'
    <2>1. ASSUME NEW q \in Req PROVE pc'[q] \notin ThreadPCs
        BY <1>27, <2>1 DEF Exit, Crash, LoseMemory, FinalPCs, ThreadPCs, WaitPCs
    <2> QED BY <2>1, NoView DEF LockedView
<1>28. CASE Restart
    <2>1. ASSUME NEW q \in Req PROVE pc'[q] \notin ThreadPCs
        BY <1>28, <2>1 DEF Restart, reqVars, NothingWhenDown, FinalPCs, ThreadPCs, WaitPCs
    <2> QED BY <2>1, NoView DEF LockedView
<1>29. ASSUME Close
      PROVE  UNCHANGED <<pc, thr, run, activeTasks, tpc, runStatus, threadOf>>
    BY <1>29 DEF Close, Stop, db, taskVars, reqVars
<1>30. ASSUME UNCHANGED vars PROVE UNCHANGED <<pc, thr, run, activeTasks, tpc, runStatus, threadOf>>
    BY <1>30 DEF vars, db, taskVars, reqVars
<1>31. CASE UNCHANGED <<pc, thr, run, activeTasks, tpc, runStatus, threadOf>>
    BY <1>31 DEF LockedView, ViewHolds, Unfinished, RunsOf
<1> QED BY <1>1, <1>2, <1>3, <1>4, <1>5, <1>6, <1>7, <1>8, <1>9, <1>10, <1>11, <1>12, <1>13,
        <1>14, <1>15, <1>16, <1>17, <1>18, <1>19, <1>20, <1>21, <1>22, <1>23, <1>24, <1>25,
        <1>26, <1>27, <1>28, <1>29, <1>30, <1>31
    DEF Next, Arrival, RequestStep, TaskStep, FaultStep, ProcessStep, Quiescent, FinishStatuses

-----------------------------------------------------------------------------
(***************************************************************************)
(* Retired threads.                                                        *)
(***************************************************************************)
\* A request comes to work on a thread's runs by a handle or by its own insert.
LEMMA HandleEntered ==
    ASSUME TypeOK, RequestsFit, [Next]_vars
    PROVE  \A p \in Req : pc'[p] \in HandlePCs =>
               \/ pc[p] \in HandlePCs /\ thr'[p] = thr[p]
               \/ thr'[p] \in Thread /\ activeTasks[thr'[p]] # NoRun
               \/ /\ pc[p] = "insert" /\ thr'[p] = thr[p] /\ threadStatus[thr[p]] = "active"
<1> DEFINE Entered ==
        \A p \in Req : pc'[p] \in HandlePCs =>
            \/ pc[p] \in HandlePCs /\ thr'[p] = thr[p]
            \/ thr'[p] \in Thread /\ activeTasks[thr'[p]] # NoRun
            \/ /\ pc[p] = "insert" /\ thr'[p] = thr[p] /\ threadStatus[thr[p]] = "active"
<1>1. ASSUME NEW q \in Req, NEW k \in Key, NEW t \in Thread, ArriveStart(q, k, t)
      PROVE  Entered
    BY <1>1 DEF ArriveStart, ArriveCreate, ArriveCancel, Arrive, Goto, HandlePCs, WaitPCs,
        FinalPCs, RequestTypeOK, TypeOK
<1>2. ASSUME NEW q \in Req, NEW k \in Key, NEW t \in Thread \cup {NoThread}, ArriveCreate(q, k, t)
      PROVE  Entered
    BY <1>2 DEF ArriveStart, ArriveCreate, ArriveCancel, Arrive, Goto, HandlePCs, WaitPCs,
        FinalPCs, RequestTypeOK, TypeOK
<1>3. ASSUME NEW q \in Req, NEW r \in Run, ArriveCancel(q, r)
      PROVE  Entered
    BY <1>3 DEF ArriveStart, ArriveCreate, ArriveCancel, Arrive, Goto, HandlePCs, WaitPCs,
        FinalPCs, RequestTypeOK, TypeOK
<1>4. ASSUME NEW q \in Req,
         \/ LockUser(q) \/ ReadIdem(q) \/ ReadActive(q) \/ ReadRun(q)
         \/ LockNothingToReplace(q) \/ LockNothingToCancel(q)
      PROVE  Entered
    BY <1>4 DEF LockUser, ReadIdem, ReadActive, ReadRun, LockNothingToReplace,
        LockNothingToCancel, Return, TakesLock, Goto, HandlePCs, WaitPCs, FinalPCs,
        RequestTypeOK, TypeOK
<1>5. ASSUME NEW q \in Req, LockToReplace(q)
      PROVE  Entered
    BY <1>5 DEF LockToReplace, TakesLock, Handle, RequestsFit, Goto, HandlePCs, WaitPCs, FinalPCs,
        RequestTypeOK, TypeOK
<1>6. ASSUME NEW q \in Req, LockToCancel(q)
      PROVE  Entered
    BY <1>6, StoreAssumption DEF LockToCancel, TakesLock, Handle, RequestsFit, Goto, HandlePCs,
        WaitPCs, FinalPCs, RequestTypeOK, TypeOK
<1>7. ASSUME NEW q \in Req,
         \/ CheckStatus(q) \/ Decide(q) \/ MarkCancelling(q) \/ Spawn(q)
      PROVE  Entered
    BY <1>7 DEF CheckStatus, Decide, MarkCancelling, Spawn, Goto, HandlePCs, WaitPCs, FinalPCs,
        RequestTypeOK, TypeOK
<1>8. ASSUME NEW q \in Req, CancelTask(q)
      PROVE  Entered
    BY <1>8 DEF CancelTask, Return, Goto, HandlePCs, WaitPCs, FinalPCs, RequestTypeOK, TypeOK
<1>9. ASSUME NEW q \in Req,
         \/ AwaitDone(q) \/ Recheck(q)
      PROVE  Entered
    BY <1>9 DEF AwaitDone, Recheck, Proceed, Return, Goto, HandlePCs, WaitPCs, FinalPCs,
        RequestTypeOK, TypeOK
<1>10. ASSUME NEW q \in Req,
         \/ InsertRefused(q) \/ AwaitStarted(q) \/ ReplaceRefused(q) \/ AnnounceArchived(q)
         \/ AwaitTimeout(q) \/ RequestFault(q)
      PROVE  Entered
    BY <1>10 DEF InsertRefused, AwaitStarted, ReplaceRefused, AnnounceArchived, AwaitTimeout,
        RequestFault, Return, Goto, HandlePCs, WaitPCs, FinalPCs, RequestTypeOK, TypeOK
<1>11. ASSUME NEW q \in Req, NEW r \in Run, InsertRun(q, r)
      PROVE  Entered
    BY <1>11 DEF InsertRun, CreateRun, MayCreateRun, Return, Goto, HandlePCs, WaitPCs, FinalPCs,
        RequestTypeOK, TypeOK
<1>12. ASSUME NEW q \in Req, NEW t \in Thread, CommitReplace(q, t)
      PROVE  Entered
    BY <1>12 DEF CommitReplace, Return, Goto, HandlePCs, WaitPCs, FinalPCs, RequestTypeOK, TypeOK
<1>13. ASSUME NEW r \in Run,
         \/ BeginTask(r) \/ CommitRunning(r) \/ EnterAgent(r) \/ EndTask(r) \/ SaveFailed(r)
         \/ DeliverCancel(r) \/ StartingFault(r)
      PROVE  UNCHANGED <<pc, thr>>
    BY <1>13 DEF BeginTask, CommitRunning, EnterAgent, EndTask, SaveFailed, DeliverCancel,
        StartingFault, Resumes, TaskFrame, SetRunStatus, Finally, Saves, Fault, reqVars
<1>14. ASSUME NEW r \in Run, NEW status \in FinishStatuses,
         \/ AgentEnds(r, status) \/ CommitFinish(r, status) \/ FinishConflict(r, status)
         \/ FinishFault(r, status)
      PROVE  UNCHANGED <<pc, thr>>
    BY <1>14 DEF AgentEnds, CommitFinish, FinishConflict, FinishFault, Saves, Resumes,
        TaskFrame, FinishRun, Settles, Fault, reqVars
<1>15. ASSUME Exit \/ Crash
      PROVE  Entered
    BY <1>15 DEF Exit, Crash, LoseMemory, HandlePCs, WaitPCs, FinalPCs
<1>16. ASSUME Close \/ Restart
      PROVE  UNCHANGED <<pc, thr>>
    BY <1>16 DEF Close, Restart, Stop, RecoverAfterRestart, reqVars
<1>17. ASSUME UNCHANGED vars PROVE UNCHANGED <<pc, thr>>
    BY <1>17 DEF vars, reqVars
<1>18. CASE UNCHANGED <<pc, thr>>
    BY <1>18
<1> QED BY <1>1, <1>2, <1>3, <1>4, <1>5, <1>6, <1>7, <1>8, <1>9, <1>10, <1>11, <1>12, <1>13,
        <1>14, <1>15, <1>16, <1>17, <1>18
    DEF Next, Arrival, RequestStep, TaskStep, FaultStep, ProcessStep, Quiescent, FinishStatuses

\* A thread is archived by the request that replaces it, while quiet, or by a restart.
LEMMA Archives ==
    ASSUME TypeOK, [Next]_vars
    PROVE  \A t \in Thread : threadStatus'[t] = "archived" =>
               \/ threadStatus[t] = "archived"
               \/ \E q \in Req : pc[q] = "replace" /\ thr[q] = t /\ Unfinished(t) = {}
               \/ Restart
<1> DEFINE ByReplacement ==
        \A t \in Thread : threadStatus'[t] = "archived" =>
            \/ threadStatus[t] = "archived"
            \/ \E q \in Req : pc[q] = "replace" /\ thr[q] = t /\ Unfinished(t) = {}
            \/ Restart
<1>1. ASSUME NEW q \in Req, NEW k \in Key, NEW t \in Thread, ArriveStart(q, k, t)
      PROVE  UNCHANGED threadStatus
    BY <1>1 DEF ArriveStart, Arrive, Goto, db
<1>2. ASSUME NEW q \in Req, NEW k \in Key, NEW t \in Thread \cup {NoThread}, ArriveCreate(q, k, t)
      PROVE  UNCHANGED threadStatus
    BY <1>2 DEF ArriveCreate, Arrive, Goto, db
<1>3. ASSUME NEW q \in Req, NEW r \in Run, ArriveCancel(q, r)
      PROVE  UNCHANGED threadStatus
    BY <1>3 DEF ArriveCancel, Arrive, Goto, db
<1>4. ASSUME NEW q \in Req, MarkCancelling(q)
      PROVE  ByReplacement
    BY <1>4 DEF MarkCancelling, SetRunStatus
<1>5. ASSUME NEW q \in Req,
         \/ LockUser(q) \/ ReadIdem(q) \/ ReadActive(q) \/ ReadRun(q) \/ LockToReplace(q)
         \/ LockNothingToReplace(q) \/ LockToCancel(q) \/ LockNothingToCancel(q)
         \/ CheckStatus(q) \/ Decide(q) \/ CancelTask(q) \/ AwaitDone(q) \/ Recheck(q)
         \/ InsertRefused(q) \/ Spawn(q) \/ AwaitStarted(q) \/ ReplaceRefused(q)
         \/ AnnounceArchived(q) \/ AwaitTimeout(q) \/ RequestFault(q)
      PROVE  UNCHANGED threadStatus
    BY <1>5 DEF LockUser, ReadIdem, ReadActive, ReadRun, LockToReplace, LockNothingToReplace,
        LockToCancel, LockNothingToCancel, CheckStatus, Decide, CancelTask, AwaitDone, Recheck,
        InsertRefused, Spawn, AwaitStarted, ReplaceRefused, AnnounceArchived, AwaitTimeout,
        RequestFault, Goto, TakesLock, Proceed, Publish, Fault, db
<1>6. ASSUME NEW q \in Req, NEW r \in Run, InsertRun(q, r)
      PROVE  ByReplacement
    BY <1>6 DEF InsertRun, CreateRun, db
<1>7. ASSUME NEW q \in Req, NEW t \in Thread, CommitReplace(q, t)
      PROVE  ByReplacement
    <2>1. CASE UNCHANGED db
        BY <2>1 DEF db
    <2>2. CASE idemThread[key[q]] = NoThread
        <3>1. /\ ActiveThread = thr[q] /\ (thr[q] # NoThread => Unfinished(thr[q]) = {})
              /\ pc[q] = "replace"
            BY <1>7, <2>2 DEF CommitReplace, ReplaceThread, MayReplaceThread
        <3>2. \A u \in Thread : threadStatus'[u] = "archived" =>
                 threadStatus[u] = "archived" \/ u = thr[q]
            BY <1>7, <2>2 DEF CommitReplace, ReplaceThread
        <3> QED BY <3>1, <3>2, StoreAssumption
    <2> QED BY <1>7, <2>1, <2>2 DEF CommitReplace, ReplaceThread
<1>8. ASSUME NEW r \in Run, CommitRunning(r)
      PROVE  ByReplacement
    BY <1>8 DEF CommitRunning, SetRunStatus
<1>9. ASSUME NEW r \in Run,
         \/ BeginTask(r) \/ EnterAgent(r) \/ EndTask(r) \/ SaveFailed(r) \/ DeliverCancel(r)
         \/ StartingFault(r)
      PROVE  UNCHANGED threadStatus
    BY <1>9 DEF BeginTask, EnterAgent, EndTask, SaveFailed, DeliverCancel, StartingFault,
        Resumes, TaskFrame, Finally, Saves, Fault, db
<1>10. ASSUME NEW r \in Run, NEW status \in FinishStatuses, CommitFinish(r, status)
      PROVE  ByReplacement
    BY <1>10 DEF CommitFinish, FinishRun, db
<1>11. ASSUME NEW r \in Run, NEW status \in FinishStatuses,
         \/ AgentEnds(r, status) \/ FinishConflict(r, status) \/ FinishFault(r, status)
      PROVE  UNCHANGED threadStatus
    BY <1>11 DEF AgentEnds, FinishConflict, FinishFault, Saves, Resumes, TaskFrame, Settles,
        Fault, db
<1>12. CASE Restart
    BY <1>12
<1>13. ASSUME Close \/ Exit \/ Crash
      PROVE  UNCHANGED threadStatus
    BY <1>13 DEF Close, Exit, Crash, Stop, LoseMemory, db
<1>14. ASSUME UNCHANGED vars PROVE UNCHANGED threadStatus
    BY <1>14 DEF vars, db
<1>15. CASE UNCHANGED threadStatus
    BY <1>15
<1> QED BY <1>1, <1>2, <1>3, <1>4, <1>5, <1>6, <1>7, <1>8, <1>9, <1>10, <1>11, <1>12, <1>13,
        <1>14, <1>15
    DEF Next, Arrival, RequestStep, TaskStep, FaultStep, ProcessStep, Quiescent, FinishStatuses

\* A request comes to replace a thread under whose lock it found, or left, no handle.
LEMMA ReplaceEntered ==
    ASSUME TypeOK, RequestsFit, LocksHeld, HandleOwnsThread, LockedView, [Next]_vars
    PROVE  \A q \in Req : pc'[q] = "replace" /\ thr'[q] \in Thread =>
               \/ pc[q] = "replace" /\ thr'[q] = thr[q]
               \/ /\ activeTasks'[thr'[q]] = NoRun /\ thr'[q] = thr[q]
                  /\ \A p \in Req : pc[p] \in ThreadPCs /\ thr[p] = thr[q] => p = q
                  /\ \A p \in Req \ {q} : pc'[p] = pc[p] /\ thr'[p] = thr[p]
<1> DEFINE Entered == \A q \in Req : pc'[q] = "replace" /\ thr'[q] \in Thread =>
                          \/ pc[q] = "replace" /\ thr'[q] = thr[q]
                          \/ /\ activeTasks'[thr'[q]] = NoRun /\ thr'[q] = thr[q]
                             /\ \A p \in Req : pc[p] \in ThreadPCs /\ thr[p] = thr[q] => p = q
                             /\ \A p \in Req \ {q} : pc'[p] = pc[p] /\ thr'[p] = thr[p]
<1>1. ASSUME NEW q \in Req, NEW k \in Key, NEW t \in Thread, ArriveStart(q, k, t)
      PROVE  Entered
    BY <1>1 DEF ArriveStart, ArriveCreate, ArriveCancel, Arrive, Goto, RequestTypeOK, TypeOK,
        FinalPCs
<1>2. ASSUME NEW q \in Req, NEW k \in Key, NEW t \in Thread \cup {NoThread}, ArriveCreate(q, k, t)
      PROVE  Entered
    BY <1>2 DEF ArriveStart, ArriveCreate, ArriveCancel, Arrive, Goto, RequestTypeOK, TypeOK,
        FinalPCs
<1>3. ASSUME NEW q \in Req, NEW r \in Run, ArriveCancel(q, r)
      PROVE  Entered
    BY <1>3 DEF ArriveStart, ArriveCreate, ArriveCancel, Arrive, Goto, RequestTypeOK, TypeOK,
        FinalPCs
<1>4. ASSUME NEW q \in Req,
         \/ LockUser(q) \/ ReadIdem(q) \/ ReadRun(q) \/ LockNothingToCancel(q)
      PROVE  Entered
    BY <1>4 DEF LockUser, ReadIdem, ReadRun, LockNothingToCancel, Return, Goto, RequestTypeOK,
        TypeOK, FinalPCs
<1>5. ASSUME NEW q \in Req, ReadActive(q)
      PROVE  Entered
    BY <1>5, StoreAssumption DEF ReadActive, Return, Goto, RequestTypeOK, TypeOK, FinalPCs
<1>6. ASSUME NEW q \in Req,
         \/ LockToReplace(q) \/ LockToCancel(q) \/ CheckStatus(q) \/ Decide(q)
         \/ MarkCancelling(q) \/ Spawn(q)
      PROVE  Entered
    BY <1>6 DEF CheckStatus, Decide, MarkCancelling, Spawn, LockToReplace, LockToCancel, Goto,
        RequestTypeOK, TypeOK, FinalPCs
<1>7. ASSUME NEW q \in Req, LockNothingToReplace(q)
      PROVE  Entered
    <2>1. \A p \in Req : pc[p] \in ThreadPCs => thr[p] # thr[q]
        BY <1>7, RegistryAssumption DEF LockNothingToReplace, TakesLock, LocksHeld
    <2> QED BY <1>7, <2>1 DEF LockNothingToReplace, TakesLock, Handle, Goto, RequestTypeOK, TypeOK
<1>8. ASSUME NEW q \in Req, CancelTask(q)
      PROVE  Entered
    BY <1>8 DEF CancelTask, Return, Goto, RequestTypeOK, TypeOK, FinalPCs
<1>9. ASSUME NEW q \in Req, AwaitDone(q)
      PROVE  Entered
    <2>1. CASE Goto(q, "replace") /\ ReleaseThread(q) /\ UNCHANGED userLock
        <3>1. /\ pc[q] \in WaitPCs /\ pc[q] \in ThreadPCs /\ thr[q] \in Thread
              /\ tpc[run[q]] = "ended"
              /\ UNCHANGED <<activeTasks, thr>> /\ pc' = [pc EXCEPT ![q] = "replace"]
            BY <1>9, <2>1 DEF AwaitDone, Goto, WaitPCs, ThreadPCs, RequestsFit, RequestTypeOK,
                TypeOK, DoneEvent, LockedView, ViewHolds
        <3>2. activeTasks[thr[q]] = NoRun
            BY <3>1 DEF LockedView, ViewHolds, HandleOwnsThread
        <3>3. \A p \in Req : pc[p] \in ThreadPCs /\ thr[p] = thr[q] => p = q
            BY <3>1, OneAtThread
        <3> QED BY <3>1, <3>2, <3>3 DEF TypeOK, RequestTypeOK
    <2>2. CASE ~Goto(q, "replace")
        BY <1>9, <2>2 DEF AwaitDone, Proceed, Goto, RequestTypeOK, TypeOK
    <2> QED BY <1>9, <2>1, <2>2 DEF AwaitDone, Proceed, Goto, RequestTypeOK, TypeOK
<1>10. ASSUME NEW q \in Req, Recheck(q)
      PROVE  Entered
    <2>1. CASE Goto(q, "replace") /\ ReleaseThread(q) /\ UNCHANGED userLock
        <3>1. /\ pc[q] \in WaitPCs /\ pc[q] \in ThreadPCs /\ thr[q] \in Thread
              /\ tpc[run[q]] = "ended"
              /\ UNCHANGED <<activeTasks, thr>> /\ pc' = [pc EXCEPT ![q] = "replace"]
            BY <1>10, <2>1 DEF Recheck, Goto, WaitPCs, ThreadPCs, RequestsFit, RequestTypeOK,
                TypeOK, DoneEvent, LockedView, ViewHolds
        <3>2. activeTasks[thr[q]] = NoRun
            BY <3>1 DEF LockedView, ViewHolds, HandleOwnsThread
        <3>3. \A p \in Req : pc[p] \in ThreadPCs /\ thr[p] = thr[q] => p = q
            BY <3>1, OneAtThread
        <3> QED BY <3>1, <3>2, <3>3 DEF TypeOK, RequestTypeOK
    <2>2. CASE ~Goto(q, "replace")
        BY <1>10, <2>2 DEF Recheck, Return, Proceed, Goto, RequestTypeOK, TypeOK
    <2> QED BY <1>10, <2>1, <2>2 DEF Recheck, Return, Proceed, Goto, RequestTypeOK, TypeOK
<1>11. ASSUME NEW q \in Req,
         \/ InsertRefused(q) \/ AwaitStarted(q) \/ ReplaceRefused(q) \/ AnnounceArchived(q)
         \/ AwaitTimeout(q) \/ RequestFault(q)
      PROVE  Entered
    BY <1>11 DEF InsertRefused, AwaitStarted, ReplaceRefused, AnnounceArchived, AwaitTimeout,
        RequestFault, Return, Goto, RequestTypeOK, TypeOK, FinalPCs
<1>12. ASSUME NEW q \in Req, NEW r \in Run, InsertRun(q, r)
      PROVE  Entered
    BY <1>12 DEF InsertRun, Return, Goto, RequestTypeOK, TypeOK, FinalPCs
<1>13. ASSUME NEW q \in Req, NEW t \in Thread, CommitReplace(q, t)
      PROVE  Entered
    BY <1>13 DEF CommitReplace, Return, Goto, RequestTypeOK, TypeOK, FinalPCs
<1>14. ASSUME NEW r \in Run,
         \/ BeginTask(r) \/ CommitRunning(r) \/ EnterAgent(r) \/ EndTask(r) \/ SaveFailed(r)
         \/ DeliverCancel(r) \/ StartingFault(r)
      PROVE  UNCHANGED <<pc, thr>>
    BY <1>14 DEF BeginTask, CommitRunning, EnterAgent, EndTask, SaveFailed, DeliverCancel,
        StartingFault, Resumes, TaskFrame, SetRunStatus, Finally, Saves, Fault, reqVars
<1>15. ASSUME NEW r \in Run, NEW status \in FinishStatuses,
         \/ AgentEnds(r, status) \/ CommitFinish(r, status) \/ FinishConflict(r, status)
         \/ FinishFault(r, status)
      PROVE  UNCHANGED <<pc, thr>>
    BY <1>15 DEF AgentEnds, CommitFinish, FinishConflict, FinishFault, Saves, Resumes,
        TaskFrame, FinishRun, Settles, Fault, reqVars
<1>16. ASSUME Exit \/ Crash
      PROVE  Entered
    BY <1>16 DEF Exit, Crash, LoseMemory, FinalPCs
<1>17. ASSUME Close \/ Restart
      PROVE  UNCHANGED <<pc, thr>>
    BY <1>17 DEF Close, Restart, Stop, RecoverAfterRestart, reqVars
<1>18. ASSUME UNCHANGED vars PROVE UNCHANGED <<pc, thr>>
    BY <1>18 DEF vars, reqVars
<1>19. CASE UNCHANGED <<pc, thr>>
    BY <1>19
<1> QED BY <1>1, <1>2, <1>3, <1>4, <1>5, <1>6, <1>7, <1>8, <1>9, <1>10, <1>11, <1>12, <1>13,
        <1>14, <1>15, <1>16, <1>17, <1>18, <1>19
    DEF Next, Arrival, RequestStep, TaskStep, FaultStep, ProcessStep, Quiescent, FinishStatuses

\* A handle is registered by a request that has inserted its run.
LEMMA Registers ==
    ASSUME TypeOK, [Next]_vars
    PROVE  \A t \in Thread : activeTasks[t] = NoRun /\ activeTasks'[t] # NoRun =>
               \E q \in Req : pc[q] = "inserted" /\ thr[q] = t
<1> DEFINE Inserted == \A t \in Thread : activeTasks[t] = NoRun /\ activeTasks'[t] # NoRun =>
                           \E q \in Req : pc[q] = "inserted" /\ thr[q] = t
<1>1. ASSUME NEW q \in Req, NEW k \in Key, NEW t \in Thread, ArriveStart(q, k, t)
      PROVE  UNCHANGED activeTasks
    BY <1>1 DEF ArriveStart, Arrive, Goto
<1>2. ASSUME NEW q \in Req, NEW k \in Key, NEW t \in Thread \cup {NoThread}, ArriveCreate(q, k, t)
      PROVE  UNCHANGED activeTasks
    BY <1>2 DEF ArriveCreate, Arrive, Goto
<1>3. ASSUME NEW q \in Req, NEW r \in Run, ArriveCancel(q, r)
      PROVE  UNCHANGED activeTasks
    BY <1>3 DEF ArriveCancel, Arrive, Goto
<1>4. ASSUME NEW q \in Req, Spawn(q)
      PROVE  Inserted
    BY <1>4 DEF Spawn, RegistryTypeOK, TypeOK
<1>5. ASSUME NEW q \in Req,
         \/ LockUser(q) \/ ReadIdem(q) \/ ReadActive(q) \/ ReadRun(q) \/ LockToReplace(q)
         \/ LockNothingToReplace(q) \/ LockToCancel(q) \/ LockNothingToCancel(q)
         \/ CheckStatus(q) \/ Decide(q) \/ MarkCancelling(q) \/ CancelTask(q) \/ AwaitDone(q)
         \/ Recheck(q) \/ InsertRefused(q) \/ AwaitStarted(q) \/ ReplaceRefused(q)
         \/ AnnounceArchived(q) \/ AwaitTimeout(q) \/ RequestFault(q)
      PROVE  UNCHANGED activeTasks
    BY <1>5 DEF LockUser, ReadIdem, ReadActive, ReadRun, LockToReplace, LockNothingToReplace,
        LockToCancel, LockNothingToCancel, CheckStatus, Decide, MarkCancelling, CancelTask,
        AwaitDone, Recheck, InsertRefused, AwaitStarted, ReplaceRefused, AnnounceArchived,
        AwaitTimeout, RequestFault, Goto, TakesLock, SetRunStatus, Proceed, Publish, Fault
<1>6. ASSUME NEW q \in Req, NEW r \in Run, InsertRun(q, r)
      PROVE  UNCHANGED activeTasks
    BY <1>6 DEF InsertRun, CreateRun, Goto
<1>7. ASSUME NEW q \in Req, NEW t \in Thread, CommitReplace(q, t)
      PROVE  UNCHANGED activeTasks
    BY <1>7 DEF CommitReplace, ReplaceThread, Goto
<1>8. ASSUME NEW r \in Run,
         \/ EndTask(r) \/ SaveFailed(r) \/ DeliverCancel(r)
      PROVE  Inserted
    BY <1>8 DEF EndTask, SaveFailed, DeliverCancel, Finally
<1>9. ASSUME NEW r \in Run,
         \/ BeginTask(r) \/ CommitRunning(r) \/ EnterAgent(r) \/ StartingFault(r)
      PROVE  UNCHANGED activeTasks
    BY <1>9 DEF BeginTask, CommitRunning, EnterAgent, StartingFault, Resumes, TaskFrame,
        SetRunStatus, Saves, Fault
<1>10. ASSUME NEW r \in Run, NEW status \in FinishStatuses,
         \/ AgentEnds(r, status) \/ CommitFinish(r, status) \/ FinishConflict(r, status)
         \/ FinishFault(r, status)
      PROVE  UNCHANGED activeTasks
    BY <1>10 DEF AgentEnds, CommitFinish, FinishConflict, FinishFault, Saves, Resumes,
        TaskFrame, FinishRun, Settles, Fault
<1>11. ASSUME Exit \/ Crash
      PROVE  Inserted
    BY <1>11 DEF Exit, Crash, LoseMemory
<1>12. ASSUME Close \/ Restart
      PROVE  UNCHANGED activeTasks
    BY <1>12 DEF Close, Restart, Stop, RecoverAfterRestart
<1>13. ASSUME UNCHANGED vars PROVE UNCHANGED activeTasks
    BY <1>13 DEF vars
<1>14. CASE UNCHANGED activeTasks
    BY <1>14
<1> QED BY <1>1, <1>2, <1>3, <1>4, <1>5, <1>6, <1>7, <1>8, <1>9, <1>10, <1>11, <1>12, <1>13,
        <1>14
    DEF Next, Arrival, RequestStep, TaskStep, FaultStep, ProcessStep, Quiescent, FinishStatuses

\* Every step keeps retired threads, and those about to be, quiet.
LEMMA RetiredRuleStep ==
    ASSUME TypeOK, RequestsFit, TasksKnown, WaitersKnown, NothingWhenDown, LocksHeld,
           HandleOwnsThread, LockedView, RetiredRule, [Next]_vars
    PROVE  RetiredRule'
<1> USE DEF HandlePCs, WaitPCs
<1>1. ASSUME NEW q \in Req, NEW p \in Req, pc[q] = "replace", pc[p] = "insert"
      PROVE  FALSE
    BY <1>1 DEF LocksHeld, RequestsFit, UserPCs, ThreadPCs
<1>2. ASSUME NEW t \in Thread, threadStatus'[t] = "archived"
      PROVE  /\ Unfinished(t)' = {}
             /\ activeTasks'[t] = NoRun
             /\ \A q \in Req : pc'[q] \in HandlePCs => thr'[q] # t
    <2>1. CASE threadStatus[t] = "archived"
        <3>1. Unfinished(t) = {} /\ activeTasks[t] = NoRun
              /\ \A q \in Req : pc[q] \in HandlePCs => thr[q] # t
            BY <2>1 DEF RetiredRule
        <3>2. \A r : ~Begins(t, r)
            BY <2>1, <3>1 DEF Begins
        <3>3. Unfinished(t)' = {}
            BY <3>1, <3>2, UnfinishedBegins
        <3>4. activeTasks'[t] = NoRun
            BY <3>1, Registers
        <3>5. \A q \in Req : pc'[q] \in HandlePCs => thr'[q] # t
            BY <2>1, <3>1, HandleEntered
        <3> QED BY <3>3, <3>4, <3>5
    <2>2. ASSUME NEW q \in Req, pc[q] = "replace", thr[q] = t, Unfinished(t) = {}
          PROVE  /\ Unfinished(t)' = {}
                 /\ activeTasks'[t] = NoRun
                 /\ \A p \in Req : pc'[p] \in HandlePCs => thr'[p] # t
        <3>1. activeTasks[t] = NoRun /\ \A p \in Req : pc[p] \in HandlePCs => thr[p] # t
            BY <2>2 DEF RetiredRule
        <3>2. \A r : ~Begins(t, r)
            BY <1>1, <2>2, <3>1 DEF Begins
        <3>3. Unfinished(t)' = {}
            BY <2>2, <3>2, UnfinishedBegins
        <3>4. activeTasks'[t] = NoRun
            BY <3>1, Registers
        <3>5. \A p \in Req : pc'[p] \in HandlePCs => thr'[p] # t
            BY <1>1, <2>2, <3>1, HandleEntered
        <3> QED BY <3>3, <3>4, <3>5
    <2>3. CASE Restart
        <3>1. Unfinished(t)' = {}
            BY <2>3 DEF Restart, RecoverAfterRestart, Unfinished, RunsOf, ActiveStatuses
        <3>2. activeTasks'[t] = NoRun /\ \A q \in Req : pc'[q] \in FinalPCs \cup {"idle"}
            BY <2>3 DEF Restart, NothingWhenDown, reqVars
        <3> QED BY <3>1, <3>2 DEF FinalPCs
    <2> QED BY <1>2, <2>1, <2>2, <2>3, Archives
<1>3. ASSUME NEW q \in Req, pc'[q] = "replace", NEW t \in Thread, thr'[q] = t
      PROVE  /\ activeTasks'[t] = NoRun
             /\ \A p \in Req : pc'[p] \in HandlePCs => thr'[p] # t
    <2>1. CASE pc[q] = "replace" /\ thr[q] = t
        <3>1. activeTasks[t] = NoRun /\ \A p \in Req : pc[p] \in HandlePCs => thr[p] # t
            BY <2>1 DEF RetiredRule
        <3>2. activeTasks'[t] = NoRun
            BY <3>1, Registers
        <3>3. \A p \in Req : pc'[p] \in HandlePCs => thr'[p] # t
            BY <1>1, <2>1, <3>1, HandleEntered
        <3> QED BY <3>2, <3>3
    <2>2. CASE /\ activeTasks'[t] = NoRun /\ thr[q] = t
               /\ \A p \in Req : pc[p] \in ThreadPCs /\ thr[p] = t => p = q
               /\ \A p \in Req \ {q} : pc'[p] = pc[p] /\ thr'[p] = thr[p]
        BY <1>3, <2>2 DEF ThreadPCs
    <2> QED BY <1>3, <2>1, <2>2, ReplaceEntered
<1> QED BY <1>2, <1>3 DEF RetiredRule

\* The initial state satisfies every part.
LEMMA InductiveInit == Init => Inductive
<1> SUFFICES ASSUME Init PROVE Inductive
    OBVIOUS
<1>1. StoreTypeOK
    BY EmptySeq DEF Init, StoreInit, StoreTypeOK, ThreadStatuses
<1>2. RegistryTypeOK /\ RequestTypeOK
    BY RegistryAssumption DEF Init, RegistryTypeOK, RequestTypeOK, ReqPCs, UserPCs, ThreadPCs
<1>3. TaskTypeOK
    BY EventSequences DEF Init, TaskTypeOK, TaskPCs
<1>4. RequestsFit /\ WaitersKnown /\ LocksHeld
    BY DEF Init, RequestsFit, WaitersKnown, LocksHeld, ThreadPCs, UserPCs, HandlePCs, WaitPCs
<1>5. RowsConsistent
    <2>1. \A t, u \in ActiveThreads : t = u
        BY DEF Init, StoreInit, ActiveThreads
    <2> QED BY <2>1 DEF Init, StoreInit, RowsConsistent, FinishStatuses
<1>6. HandlesKnown /\ HandleOwnsThread
    BY DEF Init, HandlesKnown, HandleOwnsThread
<1>7. TasksKnown /\ LiveIsRegistered
    BY DEF Init, TasksKnown, LiveIsRegistered, Live, LivePCs
<1>8. NothingWhenDown
    BY DEF Init, NothingWhenDown
<1>9. OneUnfinishedRunPerThread
    BY DEF Init, StoreInit, OneUnfinishedRunPerThread, Unfinished, RunsOf, ActiveStatuses
<1>10. LockedView /\ RetiredRule
    BY DEF Init, StoreInit, LockedView, ViewHolds, RetiredRule, HandlePCs, WaitPCs
<1> QED BY <1>1, <1>2, <1>3, <1>4, <1>5, <1>6, <1>7, <1>8, <1>9, <1>10
        DEF Inductive, TypeOK, MemoryKnown

\* Every step keeps every part.
LEMMA InductiveStep == Inductive /\ [Next]_vars => Inductive'
<1> SUFFICES ASSUME Inductive, [Next]_vars PROVE Inductive'
    OBVIOUS
<1> USE DEF Inductive, MemoryKnown
<1>1. TypeOK'
    BY StoreTypeStep, RegistryTypeStep, TaskTypeStep, RequestTypeStep DEF TypeOK
<1>2. RequestsFit' /\ RowsConsistent'
    BY RequestsFitStep, RowsConsistentStep
<1>3. HandlesKnown' /\ TasksKnown'
    BY HandlesKnownStep, TasksKnownStep
<1>4. WaitersKnown' /\ NothingWhenDown'
    BY WaitersKnownStep, NothingWhenDownStep
<1>5. LocksHeld' /\ LockedView'
    BY LocksHeldStep, LockedViewStep
<1>6. HandleOwnsThread' /\ LiveIsRegistered'
    BY HandleOwnsThreadStep, LiveIsRegisteredStep
<1>7. OneUnfinishedRunPerThread' /\ RetiredRule'
    BY OneUnfinishedStep, RetiredRuleStep
<1> QED BY <1>1, <1>2, <1>3, <1>4, <1>5, <1>6, <1>7

\* The inductive invariant holds in every reachable state.
THEOREM Invariance == Spec => []Inductive
    BY InductiveInit, InductiveStep, PTL DEF Spec

\* The state of the process and of the tables is always well formed.
THEOREM TypeCorrect == Spec => []TypeOK
<1>1. Inductive => TypeOK
    BY DEF Inductive
<1> QED BY <1>1, Invariance, PTL

\* The store never holds two unfinished runs of one thread (session_store.py:374-387).
THEOREM UnfinishedIsUnique == Spec => []OneUnfinishedRunPerThread
<1>1. Inductive => OneUnfinishedRunPerThread
    BY DEF Inductive
<1> QED BY <1>1, Invariance, PTL

\* At most one task executes per thread, over every interleaving of requests, cancels,
\* faults, shutdowns, crashes and restarts (run_registry.py:169-204).
THEOREM ExecutionIsUnique == Spec => []OneTaskPerThread
<1>1. Inductive => OneTaskPerThread
    BY DEF Inductive, LiveIsRegistered, OneTaskPerThread
<1> QED BY <1>1, Invariance, PTL

\* An archived thread is quiet: nothing unfinished, executing or about to be marked
\* (session_store.py:263-277, run_registry.py:234-245).
THEOREM ArchiveIsQuiet == Spec => []ArchivedIsQuiet
<1>1. ASSUME Inductive PROVE ArchivedIsQuiet
    <2>1. ASSUME NEW t \in Thread, threadStatus[t] = "archived"
          PROVE  Unfinished(t) = {} /\ activeTasks[t] = NoRun
                 /\ \A q \in Req : pc[q] \in HandlePCs => thr[q] # t
        BY <1>1, <2>1 DEF Inductive, RetiredRule
    <2>2. \A r \in Run : Live(r) => activeTasks[threadOf[r]] = r
        BY <1>1 DEF Inductive, LiveIsRegistered
    <2> QED BY <2>1, <2>2, StoreAssumption DEF ArchivedIsQuiet, RunsOf, HandlePCs, WaitPCs
<1> QED BY <1>1, Invariance, PTL

-----------------------------------------------------------------------------
(***************************************************************************)
(* The registry over the store implements RunContract.  Six steps are      *)
(* visible to the contract's state, and each is one of its actions or      *)
(* leaves the phases alone; the inductive invariant says why.              *)
(***************************************************************************)
\* A run that is open by the contract is unfinished by its status.
LEMMA OpenIsUnfinished ==
    ASSUME TypeOK, RowsConsistent, NEW t \in Thread
    PROVE  Promise!OpenRuns(t) \subseteq Unfinished(t)
<1> SUFFICES ASSUME NEW r \in Run, threadOf[r] = t, PhaseOf(r) = "open"
             PROVE  runStatus[r] \in ActiveStatuses
    BY DEF Promise!OpenRuns, Unfinished, RunsOf
<1>1. runStatus[r] \notin {"absent", "interrupted"} /\ result[r] = "none"
    BY DEF PhaseOf
<1> QED BY <1>1 DEF RowsConsistent, TypeOK, StoreTypeOK, TerminalStatuses

\* set_run_status on a run of this process is invisible.
LEMMA StatusOnly ==
    ASSUME StoreTypeOK, NEW r \in Run, NEW s \in ActiveStatuses, Known(r), SetRunStatus(r, s)
    PROVE  UNCHANGED Promise!contract
<1>1. \A x \in Run : PhaseOf(x)' = PhaseOf(x)
    BY DEF Known, SetRunStatus, PhaseOf, ActiveStatuses, StoreTypeOK
<1> QED BY <1>1 DEF SetRunStatus, Promise!contract

\* create_run opens the run: the thread's earlier runs are closed.
LEMMA InsertOpens ==
    ASSUME TypeOK, RowsConsistent, NEW k, idemRun[k] = NoRun, NEW t \in Thread, NEW r \in Run,
           CreateRun(k, t, r)
    PROVE  Promise!Open(r, t)
<1>1. /\ threadStatus[t] = "active" /\ Unfinished(t) = {} /\ runStatus[r] = "absent"
      /\ runStatus' = [runStatus EXCEPT ![r] = "starting"]
      /\ threadOf' = [threadOf EXCEPT ![r] = t]
      /\ UNCHANGED <<threadStatus, result>>
    BY DEF CreateRun, MayCreateRun
<1>2. Promise!OpenRuns(t) = {}
    BY <1>1, OpenIsUnfinished
<1>3. PhaseOf(r) = "none" /\ PhaseOf(r)' = "open"
    BY <1>1 DEF PhaseOf, RowsConsistent, TypeOK, StoreTypeOK
<1>4. \A x \in Run \ {r} : PhaseOf(x)' = PhaseOf(x)
    BY <1>1 DEF PhaseOf, TypeOK, StoreTypeOK
<1>5. [x \in Run |-> PhaseOf(x)]' = [[x \in Run |-> PhaseOf(x)] EXCEPT ![r] = "open"]
    BY <1>3, <1>4
<1> QED BY <1>1, <1>2, <1>3, <1>5 DEF Promise!Open

\* finish_run shuts the run: its result row is new and lasts.
LEMMA FinishShuts ==
    ASSUME TypeOK, NEW r \in Run, NEW status \in FinishStatuses, NEW said, Known(r),
           runStatus[r] \notin TerminalStatuses, FinishRun(r, status, said)
    PROVE  Promise!Shut(r)
<1>1. /\ result[r] = "none"
      /\ runStatus' = [runStatus EXCEPT ![r] = status]
      /\ result' = [result EXCEPT ![r] = status]
      /\ UNCHANGED <<threadStatus, threadOf>>
    BY DEF FinishRun, MayFinishRun
<1>2. PhaseOf(r) = "open" /\ PhaseOf(r)' = "closed"
    BY <1>1 DEF PhaseOf, Known, TypeOK, StoreTypeOK, FinishStatuses
<1>3. \A x \in Run \ {r} : PhaseOf(x)' = PhaseOf(x)
    BY <1>1 DEF PhaseOf, TypeOK, StoreTypeOK
<1>4. [x \in Run |-> PhaseOf(x)]' = [[x \in Run |-> PhaseOf(x)] EXCEPT ![r] = "closed"]
    BY <1>2, <1>3
<1> QED BY <1>1, <1>2, <1>4 DEF Promise!Shut

\* An active thread is retired alike.
LEMMA RetireAlike ==
    ASSUME NEW t \in Thread
    PROVE  Promise!Retire(t) = Retired(t)
    BY DEF Promise!Retire, Retired, RunsOf

\* The thread the client named is the one active thread.
LEMMA CurrentIsActive ==
    ASSUME RowsConsistent
    PROVE  \A t \in Thread : t = ActiveThread <=> threadStatus[t] = "active"
<1>1. CASE ActiveThreads = {}
    BY <1>1, StoreAssumption DEF ActiveThread, ActiveThreads
<1>2. CASE ActiveThreads # {}
    <2>1. ActiveThread \in ActiveThreads
        BY <1>2, Zenon DEF ActiveThread
    <2> QED BY <2>1 DEF ActiveThreads, RowsConsistent
<1> QED BY <1>1, <1>2

\* replace_thread replaces the active thread, which has no open run.
LEMMA ReplaceReplaces ==
    ASSUME TypeOK, RowsConsistent, NEW k, idemThread[k] = NoThread, NEW current, NEW new \in Thread,
           ReplaceThread(k, current, new)
    PROVE  Promise!Replace(new)
<1>1. /\ ActiveThread = current
      /\ current # NoThread => Unfinished(current) = {}
      /\ threadStatus[new] = "absent"
      /\ threadStatus' = [t \in Thread |->
              IF t = new THEN "active"
              ELSE IF t = current THEN Retired(t) ELSE threadStatus[t]]
      /\ UNCHANGED <<runStatus, threadOf, result>>
    BY DEF ReplaceThread, MayReplaceThread
<1>2. \A t \in Thread : t = current <=> threadStatus[t] = "active"
    BY <1>1, CurrentIsActive
<1>3. ASSUME NEW t \in Thread, threadStatus[t] = "active" PROVE Promise!OpenRuns(t) = {}
    <2>1. Unfinished(t) = {}
        BY <1>1, <1>2, <1>3, StoreAssumption
    <2> QED BY <2>1, OpenIsUnfinished
<1>4. threadStatus' = [t \in Thread |->
          IF t = new THEN "active"
          ELSE IF threadStatus[t] = "active" THEN Promise!Retire(t) ELSE threadStatus[t]]
    BY <1>1, <1>2, RetireAlike
<1>5. [r \in Run |-> PhaseOf(r)]' = [r \in Run |-> PhaseOf(r)]
    BY <1>1 DEF PhaseOf
<1> QED BY <1>1, <1>3, <1>4, <1>5 DEF Promise!Replace

\* recover_after_restart interrupts what is open.
LEMMA RestartInterrupts ==
    ASSUME TypeOK, RowsConsistent, RecoverAfterRestart
    PROVE  Promise!Interrupt
<1>1. \A r \in Run : PhaseOf(r)' = IF PhaseOf(r) = "open" THEN "closed" ELSE PhaseOf(r)
    <2> TAKE r \in Run
    <2>1. CASE runStatus[r] \in ActiveStatuses
        BY <2>1 DEF RecoverAfterRestart, PhaseOf, ActiveStatuses
    <2>2. CASE runStatus[r] \notin ActiveStatuses
        <3>1. runStatus'[r] = runStatus[r] /\ result' = result
            BY <2>2 DEF RecoverAfterRestart
        <3>2. PhaseOf(r) # "open"
            BY <2>2 DEF PhaseOf, RowsConsistent, TypeOK, StoreTypeOK, TerminalStatuses
        <3> QED BY <3>1, <3>2 DEF PhaseOf
    <2> QED BY <2>1, <2>2
<1>2. [r \in Run |-> PhaseOf(r)]' =
          [r \in Run |-> IF [x \in Run |-> PhaseOf(x)][r] = "open" THEN "closed"
                         ELSE [x \in Run |-> PhaseOf(x)][r]]
    BY <1>1
<1>3. threadStatus' = [t \in Thread |->
          IF threadStatus[t] = "active" THEN Promise!Retire(t) ELSE threadStatus[t]]
    BY RetireAlike DEF RecoverAfterRestart
<1> QED BY <1>2, <1>3 DEF Promise!Interrupt, RecoverAfterRestart

\* Every step of the registry is a step of the contract, or invisible to it.
LEMMA StepSimulates ==
    ASSUME Inductive, [Next]_vars
    PROVE  Promise!ContractNext \/ UNCHANGED Promise!contract
<1> USE DEF Inductive, MemoryKnown, TypeOK
<1>1. ASSUME NEW q \in Req, NEW k \in Key, NEW t \in Thread, ArriveStart(q, k, t)
      PROVE  UNCHANGED <<threadStatus, runStatus, result, threadOf>>
    BY <1>1 DEF ArriveStart, Arrive, Goto, db
<1>2. ASSUME NEW q \in Req, NEW k \in Key, NEW t \in Thread \cup {NoThread}, ArriveCreate(q, k, t)
      PROVE  UNCHANGED <<threadStatus, runStatus, result, threadOf>>
    BY <1>2 DEF ArriveCreate, Arrive, Goto, db
<1>3. ASSUME NEW q \in Req, NEW r \in Run, ArriveCancel(q, r)
      PROVE  UNCHANGED <<threadStatus, runStatus, result, threadOf>>
    BY <1>3 DEF ArriveCancel, Arrive, Goto, db
<1>4. ASSUME NEW q \in Req, MarkCancelling(q)
      PROVE  Promise!ContractNext \/ UNCHANGED Promise!contract
    <2>1. run[q] \in Run /\ Known(run[q])
        BY <1>4 DEF MarkCancelling, WaitersKnown, HandlePCs, WaitPCs
    <2> QED BY <1>4, <2>1, StatusOnly DEF MarkCancelling, ActiveStatuses
<1>5. ASSUME NEW q \in Req,
         \/ LockUser(q) \/ ReadIdem(q) \/ ReadActive(q) \/ ReadRun(q) \/ LockToReplace(q)
         \/ LockNothingToReplace(q) \/ LockToCancel(q) \/ LockNothingToCancel(q)
         \/ CheckStatus(q) \/ Decide(q) \/ CancelTask(q) \/ AwaitDone(q) \/ Recheck(q)
         \/ InsertRefused(q) \/ Spawn(q) \/ AwaitStarted(q) \/ ReplaceRefused(q)
         \/ AnnounceArchived(q) \/ AwaitTimeout(q) \/ RequestFault(q)
      PROVE  UNCHANGED <<threadStatus, runStatus, result, threadOf>>
    BY <1>5 DEF LockUser, ReadIdem, ReadActive, ReadRun, LockToReplace, LockNothingToReplace,
        LockToCancel, LockNothingToCancel, CheckStatus, Decide, CancelTask, AwaitDone, Recheck,
        InsertRefused, Spawn, AwaitStarted, ReplaceRefused, AnnounceArchived, AwaitTimeout,
        RequestFault, Goto, TakesLock, Proceed, Publish, Fault, db
<1>6. ASSUME NEW q \in Req, NEW r \in Run, InsertRun(q, r)
      PROVE  Promise!ContractNext \/ UNCHANGED Promise!contract
    <2>1. CASE idemRun[key[q]] # NoRun
        BY <1>6, <2>1 DEF InsertRun, CreateRun, db, PhaseOf, Promise!contract
    <2>2. CASE idemRun[key[q]] = NoRun
        BY <1>6, <2>2, InsertOpens DEF InsertRun, Promise!ContractNext, RequestsFit, ThreadPCs
    <2> QED BY <2>1, <2>2
<1>7. ASSUME NEW q \in Req, NEW t \in Thread, CommitReplace(q, t)
      PROVE  Promise!ContractNext \/ UNCHANGED Promise!contract
    <2>1. CASE idemThread[key[q]] # NoThread
        BY <1>7, <2>1 DEF CommitReplace, ReplaceThread, db, PhaseOf, Promise!contract
    <2>2. CASE idemThread[key[q]] = NoThread
        BY <1>7, <2>2, ReplaceReplaces DEF CommitReplace, Promise!ContractNext
    <2> QED BY <2>1, <2>2
<1>8. ASSUME NEW r \in Run, CommitRunning(r)
      PROVE  Promise!ContractNext \/ UNCHANGED Promise!contract
    BY <1>8, StatusOnly DEF CommitRunning, ActiveStatuses, TasksKnown, Known
<1>9. ASSUME NEW r \in Run,
         \/ BeginTask(r) \/ EnterAgent(r) \/ EndTask(r) \/ SaveFailed(r) \/ DeliverCancel(r)
         \/ StartingFault(r)
      PROVE  UNCHANGED <<threadStatus, runStatus, result, threadOf>>
    BY <1>9 DEF BeginTask, EnterAgent, EndTask, SaveFailed, DeliverCancel, StartingFault,
        Resumes, TaskFrame, Finally, Saves, Fault, db
<1>10. ASSUME NEW r \in Run, NEW status \in FinishStatuses, CommitFinish(r, status)
      PROVE  Promise!ContractNext \/ UNCHANGED Promise!contract
    <2>1. CASE runStatus[r] \in TerminalStatuses
        BY <1>10, <2>1 DEF CommitFinish, FinishRun, db, PhaseOf, Promise!contract
    <2>2. CASE runStatus[r] \notin TerminalStatuses
        <3>1. Known(r)
            BY <1>10 DEF CommitFinish, TasksKnown
        <3>2. PICK said \in BOOLEAN : FinishRun(r, status, said)
            BY <1>10 DEF CommitFinish
        <3>3. Promise!Shut(r)
            BY <2>2, <3>1, <3>2, FinishShuts
        <3> QED BY <3>3 DEF Promise!ContractNext
    <2> QED BY <2>1, <2>2
<1>11. ASSUME NEW r \in Run, NEW status \in FinishStatuses,
         \/ AgentEnds(r, status) \/ FinishConflict(r, status) \/ FinishFault(r, status)
      PROVE  UNCHANGED <<threadStatus, runStatus, result, threadOf>>
    BY <1>11 DEF AgentEnds, FinishConflict, FinishFault, Saves, Resumes, TaskFrame, Settles,
        Fault, db
<1>12. CASE Restart
    BY <1>12, RestartInterrupts DEF Restart, Promise!ContractNext
<1>13. ASSUME Close \/ Exit \/ Crash
      PROVE  UNCHANGED <<threadStatus, runStatus, result, threadOf>>
    BY <1>13 DEF Close, Exit, Crash, Stop, LoseMemory, db
<1>14. ASSUME UNCHANGED vars PROVE UNCHANGED <<threadStatus, runStatus, result, threadOf>>
    BY <1>14 DEF vars, db
<1>15. CASE UNCHANGED <<threadStatus, runStatus, result, threadOf>>
    BY <1>15 DEF PhaseOf, Promise!contract
<1> QED BY <1>1, <1>2, <1>3, <1>4, <1>5, <1>6, <1>7, <1>8, <1>9, <1>10, <1>11, <1>12, <1>13,
        <1>14, <1>15
    DEF Next, Arrival, RequestStep, TaskStep, FaultStep, ProcessStep, Quiescent, FinishStatuses

\* A user starts with at most one active thread and no run.
LEMMA InitSimulates == Init => Promise!ContractInit
<1> SUFFICES ASSUME Init PROVE Promise!ContractInit
    OBVIOUS
<1>1. threadStatus \in [Thread -> {"absent", "active"}]
    BY DEF Init, StoreInit
<1>2. \A t, u \in Thread : threadStatus[t] = "active" /\ threadStatus[u] = "active" => t = u
    BY DEF Init, StoreInit
<1>3. [r \in Run |-> PhaseOf(r)] = [r \in Run |-> "none"]
    BY DEF Init, StoreInit, PhaseOf
<1> QED BY <1>1, <1>2, <1>3 DEF Promise!ContractInit, Init, StoreInit

\* The registry and the store implement the contract of the task API: whatever the
\* requests, cancels, faults and crashes, a run opens in the active thread after the
\* earlier ones have closed, closes once, and its thread is retired only when all have.
THEOREM RegistryImplements == Spec => Implements
<1>1. Inductive /\ [Next]_vars => [Promise!ContractNext]_(Promise!contract)
    BY StepSimulates
<1> QED BY <1>1, InitSimulates, Invariance, PTL DEF Spec, Implements, Promise!Contract

-----------------------------------------------------------------------------
(***************************************************************************)
(* What the tables and the streams remember.  The parts of Recorded and    *)
(* CancelsDelivered join the inductive invariant, and from it follow the   *)
(* theorems on results, turns, keys and cancels.                           *)
(***************************************************************************)
\* A request that arrives changes nothing but itself, and it was idle.
LEMMA ArrivalFrame ==
    ASSUME TypeOK, Arrival
    PROVE  /\ UNCHANGED <<db, procVars, activeTasks, lockVars, taskVars, stream, seen, bounds>>
           /\ \E q \in Req :
                /\ pc[q] = "idle" /\ pc'[q] \in {"want_user", "read_run", "error"}
                /\ \A o \in Req \ {q} : /\ pc'[o] = pc[o] /\ kind'[o] = kind[o]
                                        /\ key'[o] = key[o] /\ thr'[o] = thr[o]
                                        /\ run'[o] = run[o]
<1> USE DEF Arrive, Goto, TypeOK, RequestTypeOK
<1>1. ASSUME NEW q \in Req, NEW k \in Key, NEW t \in Thread, ArriveStart(q, k, t)
      PROVE  /\ UNCHANGED <<db, procVars, activeTasks, lockVars, taskVars, stream, seen, bounds>>
             /\ pc[q] = "idle" /\ pc'[q] \in {"want_user", "read_run", "error"}
             /\ \A o \in Req \ {q} : /\ pc'[o] = pc[o] /\ kind'[o] = kind[o] /\ key'[o] = key[o]
                                     /\ thr'[o] = thr[o] /\ run'[o] = run[o]
    BY <1>1 DEF ArriveStart
<1>2. ASSUME NEW q \in Req, NEW k \in Key, NEW t \in Thread \cup {NoThread}, ArriveCreate(q, k, t)
      PROVE  /\ UNCHANGED <<db, procVars, activeTasks, lockVars, taskVars, stream, seen, bounds>>
             /\ pc[q] = "idle" /\ pc'[q] \in {"want_user", "read_run", "error"}
             /\ \A o \in Req \ {q} : /\ pc'[o] = pc[o] /\ kind'[o] = kind[o] /\ key'[o] = key[o]
                                     /\ thr'[o] = thr[o] /\ run'[o] = run[o]
    BY <1>2 DEF ArriveCreate
<1>3. ASSUME NEW q \in Req, NEW r \in Run, ArriveCancel(q, r)
      PROVE  /\ UNCHANGED <<db, procVars, activeTasks, lockVars, taskVars, stream, seen, bounds>>
             /\ pc[q] = "idle" /\ pc'[q] \in {"want_user", "read_run", "error"}
             /\ \A o \in Req \ {q} : /\ pc'[o] = pc[o] /\ kind'[o] = kind[o] /\ key'[o] = key[o]
                                     /\ thr'[o] = thr[o] /\ run'[o] = run[o]
    BY <1>3 DEF ArriveCancel
<1> QED BY <1>1, <1>2, <1>3 DEF Arrival

\* The tables of runs, results, messages and keys are written by six transactions.
LEMMA Writers ==
    ASSUME TypeOK, [Next]_vars
    PROVE  \/ UNCHANGED <<runStatus, threadOf, result, messages, idemRun>>
           \/ \E q \in Req : MarkCancelling(q) \/ \E r \in Run : InsertRun(q, r)
           \/ \E r \in Run :
                CommitRunning(r) \/ \E status \in FinishStatuses : CommitFinish(r, status)
           \/ Restart
<1> DEFINE Reads == UNCHANGED <<runStatus, threadOf, result, messages, idemRun>>
<1>1. ASSUME Arrival PROVE Reads
    BY <1>1, ArrivalFrame DEF db
<1>2. ASSUME NEW q \in Req,
         \/ LockUser(q) \/ ReadIdem(q) \/ ReadActive(q) \/ ReadRun(q) \/ LockToReplace(q)
         \/ LockNothingToReplace(q) \/ LockToCancel(q) \/ LockNothingToCancel(q)
         \/ CheckStatus(q) \/ Decide(q) \/ CancelTask(q) \/ AwaitDone(q)
         \/ Recheck(q) \/ InsertRefused(q) \/ Spawn(q) \/ AwaitStarted(q) \/ ReplaceRefused(q)
         \/ AnnounceArchived(q) \/ AwaitTimeout(q) \/ RequestFault(q)
      PROVE  Reads
    BY <1>2 DEF LockUser, ReadIdem, ReadActive, ReadRun, LockToReplace, LockNothingToReplace,
        LockToCancel, LockNothingToCancel, CheckStatus, Decide, CancelTask, AwaitDone, Recheck,
        InsertRefused, Spawn, AwaitStarted, ReplaceRefused, AnnounceArchived, AwaitTimeout,
        RequestFault, db
<1>3. ASSUME NEW q \in Req, NEW t \in Thread, CommitReplace(q, t)
      PROVE  Reads
    BY <1>3 DEF CommitReplace, ReplaceThread, db
<1>4. ASSUME NEW r \in Run,
         \/ BeginTask(r) \/ EnterAgent(r) \/ EndTask(r) \/ SaveFailed(r) \/ DeliverCancel(r)
         \/ StartingFault(r)
      PROVE  Reads
    BY <1>4 DEF BeginTask, EnterAgent, EndTask, SaveFailed, DeliverCancel, StartingFault, db
<1>5. ASSUME NEW r \in Run, NEW status \in FinishStatuses,
         \/ AgentEnds(r, status) \/ FinishConflict(r, status) \/ FinishFault(r, status)
      PROVE  Reads
    BY <1>5 DEF AgentEnds, FinishConflict, FinishFault, db
<1>6. ASSUME Close \/ Exit \/ Crash
      PROVE  Reads
    BY <1>6 DEF Close, Exit, Crash, LoseMemory, db
<1>7. ASSUME UNCHANGED vars PROVE Reads
    BY <1>7 DEF vars, db
<1> QED BY <1>1, <1>2, <1>3, <1>4, <1>5, <1>6, <1>7
    DEF Next, RequestStep, TaskStep, FaultStep, ProcessStep, Quiescent, FinishStatuses

\* A committed finish_run writes its status where there was none, and says at most one
\* thing; a row that is terminal is left alone.
LEMMA FinishWrites ==
    ASSUME TypeOK, RowsConsistent, TasksKnown, NEW r \in Run, NEW status \in FinishStatuses,
           CommitFinish(r, status)
    PROVE  /\ UNCHANGED <<idemRun, threadOf>>
           /\ \/ UNCHANGED db /\ result[r] # "none"
              \/ /\ runStatus[r] \in ActiveStatuses /\ result[r] = "none"
                 /\ result' = [result EXCEPT ![r] = status]
                 /\ \/ UNCHANGED messages
                    \/ messages' = [messages EXCEPT ![threadOf[r]] = Append(@, <<"assistant", r>>)]
<1>1. Known(r) /\ threadOf[r] \in Thread
    BY DEF CommitFinish, TasksKnown, RowsConsistent, Known
<1>2. CASE runStatus[r] \in TerminalStatuses
    BY <1>1, <1>2 DEF CommitFinish, FinishRun, Known, RowsConsistent, TerminalStatuses, db
<1>3. CASE runStatus[r] \notin TerminalStatuses
    <2>1. PICK said \in BOOLEAN : FinishRun(r, status, said)
        BY DEF CommitFinish
    <2>2. runStatus[r] \in ActiveStatuses /\ result[r] = "none"
        BY <1>1, <1>3, <2>1 DEF FinishRun, MayFinishRun, Known, TypeOK, StoreTypeOK
    <2>3. messages = [messages EXCEPT ![threadOf[r]] = @]
        BY <1>1 DEF TypeOK, StoreTypeOK
    <2>4. CASE said
        BY <1>3, <2>1, <2>2, <2>4 DEF FinishRun
    <2>5. CASE ~said
        BY <1>3, <2>1, <2>2, <2>3, <2>5 DEF FinishRun
    <2> QED BY <2>4, <2>5
<1> QED BY <1>2, <1>3

\* What an insert does that is not a replay.
LEMMA InsertWrites ==
    ASSUME TypeOK, RequestsFit, RowsConsistent, NEW q \in Req, NEW r \in Run, InsertRun(q, r)
    PROVE  /\ kind[q] = "start" /\ key[q] \in Key /\ thr[q] \in Thread /\ pc[q] = "insert"
           /\ UNCHANGED <<result, kind, key, thr>>
           /\ result[r] = "none"
           /\ \A o \in Req \ {q} : pc'[o] = pc[o] /\ run'[o] = run[o]
           /\ \/ /\ UNCHANGED db /\ pc'[q] = "ok"
                 /\ idemRun[key[q]] \in Run /\ run'[q] = idemRun[key[q]]
              \/ /\ pc'[q] = "inserted" /\ run'[q] = r
                 /\ idemRun[key[q]] = NoRun /\ idemRun' = [idemRun EXCEPT ![key[q]] = r]
                 /\ Unfinished(thr[q]) = {}
                 /\ runStatus' = [runStatus EXCEPT ![r] = "starting"]
                 /\ threadOf' = [threadOf EXCEPT ![r] = thr[q]]
                 /\ messages' = [messages EXCEPT ![thr[q]] = Append(@, <<"user", r>>)]
<1>1. kind[q] = "start" /\ key[q] \in Key /\ thr[q] \in Thread /\ pc[q] = "insert"
    BY DEF InsertRun, RequestsFit, ThreadPCs
<1>2. result[r] = "none"
    BY DEF InsertRun, RowsConsistent
<1>3. CASE idemRun[key[q]] = NoRun
    BY <1>1, <1>2, <1>3 DEF InsertRun, CreateRun, MayCreateRun, Goto, TypeOK, RequestTypeOK
<1>4. CASE idemRun[key[q]] # NoRun
    BY <1>1, <1>2, <1>4 DEF InsertRun, CreateRun, Return, Goto, db, TypeOK, RequestTypeOK,
        StoreTypeOK
<1> QED BY <1>3, <1>4

\* A run has no task until it is spawned, by the request that inserted it.
LEMMA FreshRunsStep ==
    ASSUME TypeOK, RequestsFit, RowsConsistent, WaitersKnown, TasksKnown, LocksHeld, FreshRuns,
           [Next]_vars
    PROVE  FreshRuns'
<1> USE DEF FreshRuns, TypeOK, StoreTypeOK, TaskTypeOK, RequestTypeOK
<1>1. ASSUME Arrival PROVE FreshRuns'
    <2>1. /\ UNCHANGED <<runStatus, result, tpc>>
          /\ \A o \in Req : pc'[o] = "inserted" => pc[o] = "inserted" /\ run'[o] = run[o]
        BY <1>1, ArrivalFrame DEF db, taskVars
    <2> QED BY <2>1
<1>2. ASSUME NEW q \in Req,
         \/ LockUser(q) \/ ReadIdem(q) \/ ReadActive(q) \/ ReadRun(q) \/ LockToReplace(q)
         \/ LockNothingToReplace(q) \/ LockToCancel(q) \/ LockNothingToCancel(q)
         \/ CheckStatus(q) \/ Decide(q) \/ CancelTask(q) \/ AwaitDone(q)
         \/ Recheck(q) \/ InsertRefused(q) \/ AwaitStarted(q) \/ ReplaceRefused(q)
         \/ AnnounceArchived(q) \/ AwaitTimeout(q) \/ RequestFault(q)
      PROVE  /\ UNCHANGED <<runStatus, result, tpc>>
             /\ \A o \in Req : pc'[o] = "inserted" => pc[o] = "inserted" /\ run'[o] = run[o]
    BY <1>2 DEF LockUser, ReadIdem, ReadActive, ReadRun, LockToReplace, LockNothingToReplace,
        LockToCancel, LockNothingToCancel, CheckStatus, Decide, CancelTask, AwaitDone, Recheck,
        InsertRefused, AwaitStarted, ReplaceRefused, AnnounceArchived, AwaitTimeout,
        RequestFault, Return, Proceed, Goto, db, taskVars
<1>3. ASSUME NEW q \in Req, MarkCancelling(q)
      PROVE  FreshRuns'
    BY <1>3 DEF MarkCancelling, SetRunStatus, Goto, WaitersKnown, HandlePCs, WaitPCs, Known,
        taskVars
<1>4. ASSUME NEW q \in Req, NEW r \in Run, InsertRun(q, r)
      PROVE  FreshRuns'
    <2>1. UNCHANGED <<result, tpc>> /\ result[r] = "none" /\ runStatus[r] = "absent"
        BY <1>4, InsertWrites DEF InsertRun, taskVars
    <2>2. tpc[r] = "none" /\ \A o \in Req : pc[o] = "inserted" => run[o] \in Run \ {r}
        BY <2>1 DEF WaitersKnown, HandlePCs, Known
    <2>3. \A x \in Run \ {r} : runStatus'[x] = runStatus[x]
        BY <1>4, <2>1, InsertWrites DEF db
    <2>4. \A o \in Req :
              pc'[o] = "inserted" => run'[o] = r \/ (pc[o] = "inserted" /\ run'[o] = run[o])
        BY <1>4, InsertWrites
    <2>5. \A x \in Run : runStatus'[x] = "absent" => tpc'[x] = "none"
        BY <2>1, <2>2, <2>3
    <2>6. ASSUME NEW o \in Req, pc'[o] = "inserted"
          PROVE  result'[run'[o]] = "none" /\ tpc'[run'[o]] = "none"
        <3>1. CASE run'[o] = r
            BY <2>1, <2>2, <3>1
        <3>2. CASE pc[o] = "inserted" /\ run'[o] = run[o]
            BY <2>1, <2>2, <3>2
        <3> QED BY <2>4, <2>6, <3>1, <3>2
    <2> QED BY <2>5, <2>6
<1>5. ASSUME NEW q \in Req, Spawn(q)
      PROVE  FreshRuns'
    <2>1. \A o \in Req \ {q} : pc[o] = "inserted" => run[o] # run[q]
        BY <1>5, OneAtThread DEF Spawn, WaitersKnown, HandlePCs, ThreadPCs
    <2> QED BY <1>5, <2>1 DEF Spawn, Goto, WaitersKnown, HandlePCs, Known, db
<1>6. ASSUME NEW q \in Req, NEW t \in Thread, CommitReplace(q, t)
      PROVE  /\ UNCHANGED <<runStatus, result, tpc>>
             /\ \A o \in Req : pc'[o] = "inserted" => pc[o] = "inserted" /\ run'[o] = run[o]
    BY <1>6 DEF CommitReplace, ReplaceThread, Return, Goto, db, taskVars
<1>7. ASSUME NEW r \in Run,
         \/ BeginTask(r) \/ CommitRunning(r) \/ EnterAgent(r) \/ EndTask(r) \/ SaveFailed(r)
         \/ DeliverCancel(r) \/ StartingFault(r)
      PROVE  FreshRuns'
    <2>1. /\ UNCHANGED <<pc, run, result>> /\ tpc[r] \in LivePCs
          /\ \A x \in Run \ {r} : tpc'[x] = tpc[x] /\ runStatus'[x] = runStatus[x]
          /\ runStatus'[r] = "absent" => runStatus[r] = "absent"
        BY <1>7 DEF BeginTask, CommitRunning, EnterAgent, EndTask, SaveFailed, DeliverCancel,
            StartingFault, Resumes, Live, LivePCs, Saves, Finally, SetRunStatus, TaskFrame,
            reqVars, db
    <2>2. \A x \in Run : runStatus'[x] = "absent" => tpc'[x] = "none"
        BY <2>1 DEF TasksKnown, Live, LivePCs, Known
    <2>3. \A o \in Req : pc[o] = "inserted" => run[o] \in Run \ {r}
        BY <2>1 DEF WaitersKnown, HandlePCs, Live, LivePCs
    <2> QED BY <2>1, <2>2, <2>3
<1>8. ASSUME NEW r \in Run, NEW status \in FinishStatuses, AgentEnds(r, status)
      PROVE  FreshRuns'
    <2>1. /\ UNCHANGED <<pc, run, result, runStatus>> /\ tpc[r] \in LivePCs
          /\ \A x \in Run \ {r} : tpc'[x] = tpc[x]
        BY <1>8 DEF AgentEnds, Resumes, LivePCs, Saves, TaskFrame, reqVars, db
    <2> QED BY <2>1 DEF TasksKnown, WaitersKnown, HandlePCs, Live, LivePCs, Known
<1>9. ASSUME NEW r \in Run, NEW status \in FinishStatuses, CommitFinish(r, status)
      PROVE  FreshRuns'
    <2>1. finishing[r] # {} /\ UNCHANGED <<tpc, pc, run>>
        BY <1>9 DEF CommitFinish, TaskFrame, reqVars
    <2>2. \A x \in Run : runStatus'[x] = "absent" => runStatus[x] = "absent"
        BY <1>9 DEF CommitFinish, FinishRun, FinishStatuses, db
    <2>3. \A x \in Run \ {r} : result'[x] = result[x]
        BY <1>9, FinishWrites DEF db
    <2> QED BY <2>1, <2>2, <2>3 DEF WaitersKnown, HandlePCs
<1>10. ASSUME NEW r \in Run, NEW status \in FinishStatuses,
         \/ FinishConflict(r, status) \/ FinishFault(r, status)
      PROVE  UNCHANGED <<runStatus, result, tpc, pc, run>>
    BY <1>10 DEF FinishConflict, FinishFault, TaskFrame, reqVars, db
<1>11. ASSUME Exit \/ Crash
      PROVE  FreshRuns'
    <2>1. LoseMemory
        BY <1>11 DEF Exit, Crash
    <2>2. /\ UNCHANGED <<runStatus, result, run>>
          /\ \A x \in Run : tpc'[x] = IF Live(x) THEN "dead" ELSE tpc[x]
        BY <2>1 DEF LoseMemory, db
    <2>3. \A o \in Req : pc'[o] # "inserted"
        BY <2>1 DEF LoseMemory, FinalPCs
    <2> QED BY <2>2, <2>3 DEF TasksKnown, Known
<1>12. ASSUME Close
      PROVE  UNCHANGED <<runStatus, result, tpc, pc, run>>
    BY <1>12 DEF Close, reqVars, db
<1>13. ASSUME Restart
      PROVE  FreshRuns'
    BY <1>13 DEF Restart, RecoverAfterRestart, reqVars, taskVars, db
<1>14. ASSUME UNCHANGED vars PROVE UNCHANGED <<runStatus, result, tpc, pc, run>>
    BY <1>14 DEF vars, reqVars, taskVars, db
<1>15. CASE UNCHANGED <<runStatus, result, tpc, pc, run>>
    BY <1>15
<1> QED BY <1>1, <1>2, <1>3, <1>4, <1>5, <1>6, <1>7, <1>8, <1>9, <1>10, <1>11, <1>12, <1>13,
        <1>14, <1>15
    DEF Next, RequestStep, TaskStep, FaultStep, ProcessStep, Quiescent, FinishStatuses

\* Every step of a task, and every commit it waits for, keeps its result row in order.
LEMMA ResultsStep ==
    ASSUME TypeOK, RequestsFit, RowsConsistent, WaitersKnown, TasksKnown, FreshRuns,
           ResultsAreTheTasks, [Next]_vars
    PROVE  ResultsAreTheTasks'
<1> DEFINE Same(r) == /\ tpc'[r] = tpc[r] /\ finishing'[r] = finishing[r]
                      /\ awaits'[r] = awaits[r] /\ saved'[r] = saved[r]
                      /\ result'[r] = result[r]
<1> DEFINE Others(r) == \A x \in Run \ {r} : Same(x)
<1>1. \A r \in Run : ResultFits(r)
    BY DEF ResultsAreTheTasks
<1>2. ASSUME NEW r \in Run, Same(r)
      PROVE  ResultFits(r)'
    BY <1>1, <1>2 DEF ResultFits, MayWrite
<1>3. SUFFICES \A r \in Run : ResultFits(r)'
    BY DEF ResultsAreTheTasks
<1>4. ASSUME NEW r \in Run, Others(r), ResultFits(r)'
      PROVE  \A x \in Run : ResultFits(x)'
    BY <1>2, <1>4
<1>5. ASSUME Arrival PROVE \A r \in Run : Same(r)
    BY <1>5, ArrivalFrame DEF db, taskVars
<1>6. ASSUME NEW q \in Req,
         \/ LockUser(q) \/ ReadIdem(q) \/ ReadActive(q) \/ ReadRun(q) \/ LockToReplace(q)
         \/ LockNothingToReplace(q) \/ LockToCancel(q) \/ LockNothingToCancel(q)
         \/ CheckStatus(q) \/ Decide(q) \/ MarkCancelling(q) \/ CancelTask(q) \/ AwaitDone(q)
         \/ Recheck(q) \/ InsertRefused(q) \/ AwaitStarted(q) \/ ReplaceRefused(q)
         \/ AnnounceArchived(q) \/ AwaitTimeout(q) \/ RequestFault(q)
      PROVE  \A r \in Run : Same(r)
    BY <1>6 DEF LockUser, ReadIdem, ReadActive, ReadRun, LockToReplace, LockNothingToReplace,
        LockToCancel, LockNothingToCancel, CheckStatus, Decide, MarkCancelling, CancelTask,
        AwaitDone, Recheck, InsertRefused, AwaitStarted, ReplaceRefused, AnnounceArchived,
        AwaitTimeout, RequestFault, SetRunStatus, db, taskVars
<1>7. ASSUME NEW q \in Req, NEW r \in Run, InsertRun(q, r)
      PROVE  \A x \in Run : Same(x)
    BY <1>7, InsertWrites DEF InsertRun, taskVars
<1>8. ASSUME NEW q \in Req, NEW t \in Thread, CommitReplace(q, t)
      PROVE  \A r \in Run : Same(r)
    BY <1>8 DEF CommitReplace, ReplaceThread, db, taskVars
<1>9. ASSUME NEW q \in Req, Spawn(q)
      PROVE  \A r \in Run : ResultFits(r)'
    <2>1. PICK r \in Run : r = run[q]
        BY <1>9 DEF Spawn, WaitersKnown, HandlePCs
    <2>2. result[r] = "none" /\ finishing[r] = {}
        BY <1>9, <2>1 DEF Spawn, WaitersKnown, FreshRuns
    <2>3. UNCHANGED <<result, finishing, awaits, saved>> /\ tpc' = [tpc EXCEPT ![r] = "created"]
        BY <1>9, <2>1 DEF Spawn, db
    <2>4. ResultFits(r)'
        BY <2>2, <2>3 DEF ResultFits, TypeOK, TaskTypeOK
    <2>5. Others(r)
        BY <2>3 DEF TypeOK, TaskTypeOK
    <2> QED BY <1>4, <2>4, <2>5
<1>10. ASSUME NEW r \in Run, BeginTask(r) \/ CommitRunning(r) \/ EnterAgent(r)
      PROVE  \A x \in Run : ResultFits(x)'
    <2>1. /\ tpc[r] \in LivePCs \ {"saving"}
          /\ UNCHANGED <<result, finishing, awaits, saved>>
          /\ \E p \in LivePCs \ {"saving"} : tpc' = [tpc EXCEPT ![r] = p]
        BY <1>10 DEF BeginTask, CommitRunning, EnterAgent, Resumes, SetRunStatus, LivePCs, db
    <2>2. ResultFits(r)'
        BY <1>1, <2>1 DEF ResultFits, TypeOK, TaskTypeOK
    <2> QED BY <1>4, <2>1, <2>2 DEF TypeOK, TaskTypeOK
<1>11. ASSUME NEW r \in Run, NEW status \in FinishStatuses, Saves(r, status), UNCHANGED db,
              finishing[r] \subseteq IF status = "cancelled" THEN {"succeeded"} ELSE {},
              result[r] \in {"none"} \cup IF status = "cancelled" THEN {"succeeded"} ELSE {}
      PROVE  \A x \in Run : ResultFits(x)'
    <2>1. /\ tpc'[r] = "saving" /\ awaits'[r] = status /\ saved'[r] = "none"
          /\ finishing'[r] = finishing[r] \cup {status} /\ result'[r] = result[r]
        BY <1>11 DEF Saves, TypeOK, TaskTypeOK, db
    <2>2. ResultFits(r)'
        BY <1>11, <2>1 DEF ResultFits, MayWrite, FinishStatuses
    <2>3. Others(r)
        BY <1>11 DEF Saves, TypeOK, TaskTypeOK, db
    <2> QED BY <1>4, <2>2, <2>3
<1>12. ASSUME NEW r \in Run, Finally(r), UNCHANGED <<db, awaits, saved, finishing>>
      PROVE  \A x \in Run : ResultFits(x)'
    <2>1. ResultFits(r)'
        BY <1>12 DEF Finally, ResultFits, LivePCs, TypeOK, TaskTypeOK
    <2> QED BY <1>4, <1>12, <2>1 DEF Finally, db, TypeOK, TaskTypeOK
<1>13. ASSUME NEW r \in Run, NEW status \in FinishStatuses, AgentEnds(r, status)
      PROVE  \A x \in Run : ResultFits(x)'
    BY <1>1, <1>11, <1>13 DEF AgentEnds, Resumes, ResultFits, LivePCs
<1>14. ASSUME NEW r \in Run, StartingFault(r)
      PROVE  \A x \in Run : ResultFits(x)'
    BY <1>1, <1>11, <1>14 DEF StartingFault, Resumes, ResultFits, LivePCs, FinishStatuses
<1>15. ASSUME NEW r \in Run, EndTask(r)
      PROVE  \A x \in Run : ResultFits(x)'
    BY <1>12, <1>15 DEF EndTask
<1>16. ASSUME NEW r \in Run, SaveFailed(r)
      PROVE  \A x \in Run : ResultFits(x)'
    <2>1. CASE awaits[r] = "succeeded"
        BY <1>1, <1>11, <1>16, <2>1 DEF SaveFailed, Resumes, ResultFits, FinishStatuses
    <2>2. CASE awaits[r] # "succeeded"
        BY <1>12, <1>16, <2>2 DEF SaveFailed
    <2> QED BY <2>1, <2>2
<1>17. ASSUME NEW r \in Run, DeliverCancel(r)
      PROVE  \A x \in Run : ResultFits(x)'
    <2>1. CASE tpc[r] = "created"
        <3>1. /\ UNCHANGED <<result, finishing, awaits, saved>>
              /\ tpc' = [tpc EXCEPT ![r] = "killed"]
            BY <1>17, <2>1 DEF DeliverCancel, db
        <3>2. ResultFits(r)'
            BY <3>1 DEF ResultFits, LivePCs, TypeOK, TaskTypeOK
        <3> QED BY <1>4, <3>1, <3>2 DEF TypeOK, TaskTypeOK
    <2>2. CASE tpc[r] = "saving" /\ awaits[r] # "succeeded"
        BY <1>12, <1>17, <2>2 DEF DeliverCancel
    <2>3. CASE tpc[r] = "saving" /\ awaits[r] = "succeeded"
        BY <1>1, <1>11, <1>17, <2>3 DEF DeliverCancel, ResultFits, MayWrite, FinishStatuses
    <2>4. CASE tpc[r] \notin {"created", "saving"}
        BY <1>1, <1>11, <1>17, <2>4 DEF DeliverCancel, ResultFits, Live, FinishStatuses
    <2> QED BY <2>1, <2>2, <2>3, <2>4
<1>18. ASSUME NEW r \in Run, NEW status \in FinishStatuses, CommitFinish(r, status)
      PROVE  \A x \in Run : ResultFits(x)'
    <2>1. /\ UNCHANGED <<tpc, awaits>> /\ status \in finishing[r]
          /\ finishing' = [finishing EXCEPT ![r] = @ \ {status}]
          /\ saved' = IF tpc[r] = "saving" /\ awaits[r] = status THEN [saved EXCEPT ![r] = "ok"]
                      ELSE saved
        BY <1>18 DEF CommitFinish, Settles
    <2>2. \/ result'[r] = result[r] /\ result[r] # "none"
          \/ result'[r] = status /\ result[r] = "none"
        BY <1>18, FinishWrites DEF db, TypeOK, StoreTypeOK
    <2>3. Others(r)
        BY <1>18, <2>1, FinishWrites, SMTT(15) DEF db, TypeOK, StoreTypeOK, TaskTypeOK
    <2>4. ResultFits(r)'
        BY <1>1, <2>1, <2>2 DEF ResultFits, MayWrite, FinishStatuses, TypeOK, TaskTypeOK
    <2> QED BY <1>4, <2>3, <2>4
<1>19. ASSUME NEW r \in Run, NEW status \in FinishStatuses,
              FinishConflict(r, status) \/ FinishFault(r, status)
      PROVE  \A x \in Run : ResultFits(x)'
    <2>1. /\ UNCHANGED <<tpc, awaits, result>> /\ status \in finishing[r]
          /\ finishing' = [finishing EXCEPT ![r] = @ \ {status}]
          /\ saved' = IF tpc[r] = "saving" /\ awaits[r] = status THEN [saved EXCEPT ![r] = "error"]
                      ELSE saved
        BY <1>19 DEF FinishConflict, FinishFault, Settles, db
    <2>2. ResultFits(r)'
        BY <1>1, <2>1 DEF ResultFits, MayWrite, FinishStatuses, TypeOK, TaskTypeOK
    <2> QED BY <1>4, <2>1, <2>2 DEF TypeOK, TaskTypeOK
<1>20. ASSUME Exit \/ Crash
      PROVE  \A r \in Run : ResultFits(r)'
    <2>1. LoseMemory
        BY <1>20 DEF Exit, Crash
    <2>2. \A r \in Run : tpc'[r] \notin LivePCs
        BY <2>1 DEF LoseMemory, Live, LivePCs
    <2> QED BY <2>2 DEF ResultFits, LivePCs
<1>21. ASSUME Close \/ Restart
      PROVE  \A r \in Run : Same(r)
    BY <1>21 DEF Close, Restart, RecoverAfterRestart, db, taskVars
<1>22. ASSUME UNCHANGED vars PROVE \A r \in Run : Same(r)
    BY <1>22 DEF vars, db, taskVars
<1>23. ASSUME \A r \in Run : Same(r) PROVE \A r \in Run : ResultFits(r)'
    BY <1>2, <1>23
<1> HIDE DEF Same, Others
<1> QED BY <1>5, <1>6, <1>7, <1>8, <1>9, <1>10, <1>13, <1>14, <1>15, <1>16, <1>17, <1>18, <1>19,
        <1>20, <1>21, <1>22, <1>23
    DEF Next, RequestStep, TaskStep, FaultStep, ProcessStep, Quiescent, FinishStatuses

\* A result row is written once.
LEMMA ResultsLast ==
    ASSUME TypeOK, RequestsFit, RowsConsistent, TasksKnown, [Next]_vars
    PROVE  \A r \in Run : result[r] # "none" => result'[r] = result[r]
<1>1. ASSUME NEW q \in Req, NEW r \in Run, InsertRun(q, r)
      PROVE  UNCHANGED result
    BY <1>1, InsertWrites
<1>2. ASSUME NEW r \in Run, NEW status \in FinishStatuses, CommitFinish(r, status)
      PROVE  \A x \in Run : result[x] # "none" => result'[x] = result[x]
    BY <1>2, FinishWrites DEF db, TypeOK, StoreTypeOK
<1>3. ASSUME (\E q \in Req : MarkCancelling(q)) \/ (\E r \in Run : CommitRunning(r)) \/ Restart
      PROVE  UNCHANGED result
    BY <1>3 DEF MarkCancelling, CommitRunning, Restart, SetRunStatus, RecoverAfterRestart
<1> QED BY <1>1, <1>2, <1>3, Writers

\* What a step adds to the streams: a task's first event, the end of a task whose result
\* is stored, or the archive notice.
LEMMA Publications ==
    ASSUME TypeOK, [Next]_vars, NEW r \in Run
    PROVE  \/ stream'[r] \in {stream[r], <<>>}
           \/ \E e \in {"RUN_STARTED", "thread_archived"} : stream'[r] = stream[r] \o <<e>>
           \/ /\ tpc[r] = "saving" /\ saved[r] = "ok"
              /\ stream'[r] = stream[r] \o (Closing(r) \o <<TerminalEventOf[awaits[r]]>>)
<1> DEFINE Told ==
        \/ stream'[r] \in {stream[r], <<>>}
        \/ \E e \in {"RUN_STARTED", "thread_archived"} : stream'[r] = stream[r] \o <<e>>
        \/ /\ tpc[r] = "saving" /\ saved[r] = "ok"
           /\ stream'[r] = stream[r] \o (Closing(r) \o <<TerminalEventOf[awaits[r]]>>)
<1>1. ASSUME Arrival PROVE UNCHANGED stream
    BY <1>1, ArrivalFrame
<1>2. ASSUME NEW q \in Req,
         \/ LockUser(q) \/ ReadIdem(q) \/ ReadActive(q) \/ ReadRun(q) \/ LockToReplace(q)
         \/ LockNothingToReplace(q) \/ LockToCancel(q) \/ LockNothingToCancel(q)
         \/ CheckStatus(q) \/ Decide(q) \/ MarkCancelling(q) \/ CancelTask(q) \/ AwaitDone(q)
         \/ Recheck(q) \/ InsertRefused(q) \/ Spawn(q) \/ AwaitStarted(q) \/ ReplaceRefused(q)
         \/ AwaitTimeout(q) \/ RequestFault(q)
      PROVE  UNCHANGED stream
    BY <1>2 DEF LockUser, ReadIdem, ReadActive, ReadRun, LockToReplace, LockNothingToReplace,
        LockToCancel, LockNothingToCancel, CheckStatus, Decide, MarkCancelling, CancelTask,
        AwaitDone, Recheck, InsertRefused, Spawn, AwaitStarted, ReplaceRefused, AwaitTimeout,
        RequestFault
<1>3. ASSUME NEW q \in Req, AnnounceArchived(q) PROVE Told
    BY <1>3 DEF AnnounceArchived, Publish, TypeOK, TaskTypeOK
<1>4. ASSUME NEW q \in Req, NEW x \in Run, InsertRun(q, x) PROVE UNCHANGED stream
    BY <1>4 DEF InsertRun
<1>5. ASSUME NEW q \in Req, NEW t \in Thread, CommitReplace(q, t) PROVE UNCHANGED stream
    BY <1>5 DEF CommitReplace
<1>6. ASSUME NEW x \in Run, EnterAgent(x) PROVE Told
    BY <1>6 DEF EnterAgent, Publish, TypeOK, TaskTypeOK
<1>7. ASSUME NEW x \in Run, EndTask(x) PROVE Told
    BY <1>7 DEF EndTask, Resumes, Publish, TypeOK, TaskTypeOK
<1>8. ASSUME NEW x \in Run,
         \/ BeginTask(x) \/ CommitRunning(x) \/ SaveFailed(x) \/ DeliverCancel(x)
         \/ StartingFault(x)
      PROVE  UNCHANGED stream
    BY <1>8 DEF BeginTask, CommitRunning, SaveFailed, DeliverCancel, StartingFault
<1>9. ASSUME NEW x \in Run, NEW status \in FinishStatuses,
         \/ AgentEnds(x, status) \/ CommitFinish(x, status) \/ FinishConflict(x, status)
         \/ FinishFault(x, status)
      PROVE  UNCHANGED stream
    BY <1>9 DEF AgentEnds, CommitFinish, FinishConflict, FinishFault
<1>10. ASSUME Exit \/ Crash PROVE Told
    BY <1>10 DEF Exit, Crash, LoseMemory
<1>11. ASSUME Close \/ Restart PROVE UNCHANGED stream
    BY <1>11 DEF Close, Restart
<1>12. ASSUME UNCHANGED vars PROVE UNCHANGED stream
    BY <1>12 DEF vars
<1>13. ASSUME UNCHANGED stream PROVE Told
    BY <1>13
<1> HIDE DEF Told
<1>14. Told
    BY <1>1, <1>2, <1>3, <1>4, <1>5, <1>6, <1>7, <1>8, <1>9, <1>10, <1>11, <1>12, <1>13
    DEF Next, RequestStep, TaskStep, FaultStep, ProcessStep, Quiescent, FinishStatuses
<1> QED BY <1>14 DEF Told

\* What an event on the stream of r promises about its result row.
Promised(e, res) ==
    /\ e = "RUN_FINISHED" => res = "succeeded"
    /\ e = "RUN_ERROR" => res = "failed"
    /\ e = "TASK_CANCELLED" => res \in {"cancelled", "succeeded"}

\* Nothing is announced that is not stored, and what is stored stays.
LEMMA StoredStep ==
    ASSUME TypeOK, RequestsFit, RowsConsistent, TasksKnown, ResultsAreTheTasks,
           StoredBeforeAnnounced, [Next]_vars
    PROVE  StoredBeforeAnnounced'
<1>1. SUFFICES ASSUME NEW r \in Run
               PROVE  \A i \in DOMAIN stream'[r] : Promised(stream'[r][i], result'[r])
    BY DEF StoredBeforeAnnounced, Promised
<1>2. \A i \in DOMAIN stream[r] : Promised(stream[r][i], result[r])
    BY DEF StoredBeforeAnnounced, Promised
<1>3. \A i \in DOMAIN stream[r] : Promised(stream[r][i], result'[r])
    BY <1>2, ResultsLast DEF Promised
<1>4. stream[r] \in Seq(Events)
    BY DEF TypeOK, TaskTypeOK
<1>5. ASSUME NEW new \in Seq(Events), stream'[r] = stream[r] \o new,
             \A i \in DOMAIN new : Promised(new[i], result'[r])
      PROVE  \A i \in DOMAIN stream'[r] : Promised(stream'[r][i], result'[r])
    BY <1>3, <1>4, <1>5
<1>6. CASE stream'[r] \in {stream[r], <<>>}
    BY <1>3, <1>6
<1>7. ASSUME NEW e \in {"RUN_STARTED", "thread_archived"}, stream'[r] = stream[r] \o <<e>>
      PROVE  \A i \in DOMAIN stream'[r] : Promised(stream'[r][i], result'[r])
    <2>1. <<e>> \in Seq(Events)
        BY EventSequences DEF Events
    <2>2. \A i \in DOMAIN <<e>> : Promised(<<e>>[i], result'[r])
        BY DEF Promised
    <2> QED BY <1>5, <1>7, <2>1, <2>2
<1>8. ASSUME tpc[r] = "saving", saved[r] = "ok",
             stream'[r] = stream[r] \o (Closing(r) \o <<TerminalEventOf[awaits[r]]>>)
      PROVE  \A i \in DOMAIN stream'[r] : Promised(stream'[r][i], result'[r])
    <2> DEFINE e == TerminalEventOf[awaits[r]]
    <2>1. awaits[r] \in FinishStatuses /\ result[r] \in MayWrite(r)
        BY <1>8 DEF TasksKnown, ResultsAreTheTasks, ResultFits
    <2>2. e \in TerminalEvents /\ Promised(e, result[r])
        BY <2>1 DEF TerminalEventOf, FinishStatuses, TerminalEvents, MayWrite, Promised
    <2>3. result'[r] = result[r]
        BY <2>1, ResultsLast DEF MayWrite, FinishStatuses
    <2>4. e \in Events /\ Promised("TEXT_MESSAGE_END", result[r])
        BY <2>2 DEF Events, Promised
    <2> HIDE DEF e
    <2>5. CASE Closing(r) = <<>>
        <3>1. Closing(r) \o <<e>> = <<e>> /\ <<e>> \in Seq(Events)
            BY <2>4, <2>5, EventSequences
        <3>2. \A i \in DOMAIN <<e>> : Promised(<<e>>[i], result'[r])
            BY <2>2, <2>3
        <3> QED BY <1>5, <1>8, <3>1, <3>2 DEF e
    <2>6. CASE Closing(r) = <<"TEXT_MESSAGE_END">>
        <3> DEFINE end == <<"TEXT_MESSAGE_END">>
        <3>1. end \in Seq(Events) /\ <<e>> \in Seq(Events) /\ end \o <<e>> \in Seq(Events)
            BY <2>4, EventSequences DEF Events
        <3>2. Len(end) = 1 /\ Len(<<e>>) = 1 /\ end[1] = "TEXT_MESSAGE_END" /\ <<e>>[1] = e
            OBVIOUS
        <3> HIDE DEF end
        <3>3. \A i \in DOMAIN (end \o <<e>>) : (end \o <<e>>)[i] \in {"TEXT_MESSAGE_END", e}
            BY <3>1, <3>2, ConcatProperties
        <3>4. \A i \in DOMAIN (end \o <<e>>) : Promised((end \o <<e>>)[i], result'[r])
            BY <2>2, <2>3, <2>4, <3>3
        <3> QED BY <1>5, <1>8, <2>6, <3>1, <3>4 DEF e, end
    <2> QED BY <2>5, <2>6 DEF Closing
<1> QED BY <1>6, <1>7, <1>8, Publications

\* A key that names a run names it for ever.
LEMMA KeysLast ==
    ASSUME TypeOK, RequestsFit, RowsConsistent, TasksKnown, [Next]_vars
    PROVE  \A k \in Key : idemRun[k] # NoRun => idemRun'[k] = idemRun[k]
<1>1. ASSUME NEW q \in Req, NEW r \in Run, InsertRun(q, r)
      PROVE  \A k \in Key : idemRun[k] # NoRun => idemRun'[k] = idemRun[k]
    BY <1>1, InsertWrites DEF db, TypeOK, StoreTypeOK
<1>2. ASSUME NEW r \in Run, NEW status \in FinishStatuses, CommitFinish(r, status)
      PROVE  UNCHANGED idemRun
    BY <1>2, FinishWrites
<1>3. ASSUME (\E q \in Req : MarkCancelling(q)) \/ (\E r \in Run : CommitRunning(r)) \/ Restart
      PROVE  UNCHANGED idemRun
    BY <1>3 DEF MarkCancelling, CommitRunning, Restart, SetRunStatus, RecoverAfterRestart
<1> QED BY <1>1, <1>2, <1>3, Writers

\* A start_run is answered, or waits for its task, with the run its key names.
LEMMA KeysRememberedStep ==
    ASSUME TypeOK, RequestsFit, RowsConsistent, TasksKnown, KeysRemembered, [Next]_vars
    PROVE  KeysRemembered'
<1> DEFINE Keyed == {"inserted", "await_start", "ok"}
<1> DEFINE Stays(o) ==
        kind'[o] = "start" /\ pc'[o] \in Keyed =>
            kind[o] = "start" /\ pc[o] \in Keyed /\ key'[o] = key[o] /\ run'[o] = run[o]
<1> USE DEF TypeOK, RequestTypeOK
<1>1. ASSUME NEW o \in Req, Stays(o), kind'[o] = "start", pc'[o] \in Keyed
      PROVE  run'[o] \in Run /\ idemRun'[key'[o]] = run'[o]
    BY <1>1, KeysLast, StoreAssumption DEF KeysRemembered, RequestsFit
<1>2. ASSUME Arrival PROVE \A o \in Req : Stays(o)
    <2>1. PICK q \in Req :
            /\ pc'[q] \in {"want_user", "read_run", "error"}
            /\ \A o \in Req \ {q} : /\ pc'[o] = pc[o] /\ kind'[o] = kind[o]
                                    /\ key'[o] = key[o] /\ run'[o] = run[o]
        BY <1>2, ArrivalFrame
    <2> QED BY <2>1
<1>3. ASSUME NEW q \in Req,
         \/ LockUser(q) \/ ReadActive(q) \/ ReadRun(q) \/ LockToReplace(q)
         \/ LockNothingToReplace(q) \/ LockToCancel(q) \/ LockNothingToCancel(q)
         \/ CheckStatus(q) \/ Decide(q) \/ MarkCancelling(q) \/ CancelTask(q)
      PROVE  \A o \in Req : Stays(o)
    BY <1>3 DEF LockUser, ReadActive, ReadRun, LockToReplace, LockNothingToReplace,
        LockToCancel, LockNothingToCancel, TakesLock, CheckStatus, Decide, MarkCancelling,
        CancelTask, Return, Goto, RequestsFit
<1>4. ASSUME NEW q \in Req,
         \/ AwaitDone(q) \/ Recheck(q) \/ InsertRefused(q) \/ Spawn(q) \/ AwaitStarted(q)
         \/ ReplaceRefused(q) \/ AnnounceArchived(q) \/ AwaitTimeout(q) \/ RequestFault(q)
      PROVE  \A o \in Req : Stays(o)
    BY <1>4 DEF AwaitDone, Recheck, InsertRefused, Spawn, AwaitStarted, ReplaceRefused,
        AnnounceArchived, AwaitTimeout, RequestFault, Proceed, Return, Goto, RequestsFit
<1>5. ASSUME NEW q \in Req, ReadIdem(q)
      PROVE  KeysRemembered'
    <2>1. \A o \in Req \ {q} : Stays(o)
        BY <1>5 DEF ReadIdem, Return, Goto
    <2>2. UNCHANGED <<idemRun, key, kind>> /\ pc[q] = "idem" /\ key[q] \in Key
        BY <1>5 DEF ReadIdem, db, RequestsFit
    <2>3. ASSUME kind'[q] = "start", pc'[q] \in Keyed
          PROVE  run'[q] \in Run /\ idemRun'[key'[q]] = run'[q]
        BY <1>5, <2>2, <2>3, StoreAssumption DEF ReadIdem, Return, Goto, StoreTypeOK
    <2> QED BY <1>1, <2>1, <2>3 DEF KeysRemembered
<1>6. ASSUME NEW q \in Req, NEW r \in Run, InsertRun(q, r)
      PROVE  KeysRemembered'
    <2>1. UNCHANGED <<key, kind>> /\ \A o \in Req \ {q} : Stays(o)
        BY <1>6, InsertWrites
    <2>2. run'[q] \in Run /\ idemRun'[key'[q]] = run'[q]
        <3>1. key[q] \in Key /\ key'[q] = key[q]
            BY <1>6, <2>1, InsertWrites
        <3>2. CASE pc'[q] = "ok"
            BY <1>6, <3>1, <3>2, InsertWrites DEF db
        <3>3. CASE pc'[q] = "inserted"
            BY <1>6, <3>1, <3>3, InsertWrites DEF StoreTypeOK
        <3> QED BY <1>6, <3>2, <3>3, InsertWrites
    <2> QED BY <1>1, <2>1, <2>2 DEF KeysRemembered
<1>7. ASSUME NEW q \in Req, NEW t \in Thread, CommitReplace(q, t)
      PROVE  \A o \in Req : Stays(o)
    BY <1>7 DEF CommitReplace, Return, Goto, RequestsFit
<1>8. ASSUME NEW r \in Run,
         \/ BeginTask(r) \/ CommitRunning(r) \/ EnterAgent(r) \/ EndTask(r) \/ SaveFailed(r)
         \/ DeliverCancel(r) \/ StartingFault(r)
      PROVE  \A o \in Req : Stays(o)
    BY <1>8 DEF BeginTask, CommitRunning, EnterAgent, EndTask, SaveFailed, DeliverCancel,
        StartingFault, TaskFrame, reqVars
<1>9. ASSUME NEW r \in Run, NEW status \in FinishStatuses,
         \/ AgentEnds(r, status) \/ CommitFinish(r, status) \/ FinishConflict(r, status)
         \/ FinishFault(r, status)
      PROVE  \A o \in Req : Stays(o)
    BY <1>9 DEF AgentEnds, CommitFinish, FinishConflict, FinishFault, TaskFrame, reqVars
<1>10. ASSUME Exit \/ Crash
      PROVE  \A o \in Req : Stays(o)
    BY <1>10 DEF Exit, Crash, LoseMemory
<1>11. ASSUME Close \/ Restart
      PROVE  \A o \in Req : Stays(o)
    BY <1>11 DEF Close, Restart, reqVars
<1>12. ASSUME UNCHANGED vars PROVE \A o \in Req : Stays(o)
    BY <1>12 DEF vars, reqVars
<1>13. ASSUME \A o \in Req : Stays(o) PROVE KeysRemembered'
    BY <1>1, <1>13 DEF KeysRemembered
<1> HIDE DEF Stays, Keyed
<1> QED BY <1>2, <1>3, <1>4, <1>5, <1>6, <1>7, <1>8, <1>9, <1>10, <1>11, <1>12, <1>13
    DEF Next, RequestStep, TaskStep, FaultStep, ProcessStep, Quiescent, FinishStatuses

\* The last message of r's thread is its question.
Asked(r) ==
    /\ messages[threadOf[r]] # <<>>
    /\ messages[threadOf[r]][Len(messages[threadOf[r]])] = <<"user", r>>

\* What marks, starts or recovers a row keeps its thread and its messages, and wakes only
\* rows that were unfinished, or finished with a result.
LEMMA StatusWrites ==
    ASSUME TypeOK, RowsConsistent, TasksKnown, WaitersKnown,
           \/ \E q \in Req : MarkCancelling(q)
           \/ \E r \in Run : CommitRunning(r)
           \/ Restart
    PROVE  /\ UNCHANGED <<threadOf, result, messages, idemRun>>
           /\ \A r \in Run : runStatus'[r] \in ActiveStatuses /\ result[r] = "none" =>
                  runStatus[r] \in ActiveStatuses
<1> USE DEF TypeOK, StoreTypeOK
<1>1. ASSUME NEW q \in Req, MarkCancelling(q)
      PROVE  /\ UNCHANGED <<threadOf, result, messages, idemRun>>
             /\ \A r \in Run : runStatus'[r] \in ActiveStatuses /\ result[r] = "none" =>
                    runStatus[r] \in ActiveStatuses
    <2>1. Known(run[q]) /\ run[q] \in Run
        BY <1>1 DEF MarkCancelling, WaitersKnown, HandlePCs, WaitPCs
    <2> QED BY <1>1, <2>1 DEF MarkCancelling, SetRunStatus, Known, RowsConsistent,
            TerminalStatuses
<1>2. ASSUME NEW r \in Run, CommitRunning(r)
      PROVE  /\ UNCHANGED <<threadOf, result, messages, idemRun>>
             /\ \A x \in Run : runStatus'[x] \in ActiveStatuses /\ result[x] = "none" =>
                    runStatus[x] \in ActiveStatuses
    BY <1>2 DEF CommitRunning, SetRunStatus, TasksKnown
<1>3. ASSUME Restart
      PROVE  /\ UNCHANGED <<threadOf, result, messages, idemRun>>
             /\ \A r \in Run : runStatus'[r] \in ActiveStatuses => runStatus[r] \in ActiveStatuses
    BY <1>3 DEF Restart, RecoverAfterRestart, ActiveStatuses
<1> QED BY <1>1, <1>2, <1>3

\* A run without a result is the last its thread was asked: a question is added only when
\* the thread has no unfinished run, an answer only by the run itself.
LEMMA QuestionIsLastStep ==
    ASSUME TypeOK, RequestsFit, RowsConsistent, TasksKnown, WaitersKnown,
           OneUnfinishedRunPerThread, QuestionIsLast, [Next]_vars
    PROVE  QuestionIsLast'
<1> USE DEF TypeOK, StoreTypeOK
<1>1. SUFFICES ASSUME NEW r \in Run, runStatus'[r] \in ActiveStatuses, result'[r] = "none"
               PROVE  Asked(r)'
    BY DEF QuestionIsLast, Asked
<1>2. \A x \in Run : runStatus[x] \in ActiveStatuses /\ result[x] = "none" => Asked(x)
    BY DEF QuestionIsLast, Asked
<1>3. CASE UNCHANGED <<runStatus, threadOf, result, messages, idemRun>>
    BY <1>1, <1>2, <1>3 DEF Asked
<1>4. CASE \/ \E q \in Req : MarkCancelling(q)
           \/ \E x \in Run : CommitRunning(x)
           \/ Restart
    BY <1>1, <1>2, <1>4, StatusWrites DEF Asked
<1>5. ASSUME NEW x \in Run, NEW status \in FinishStatuses, CommitFinish(x, status)
      PROVE  Asked(r)'
    <2>1. CASE UNCHANGED db
        BY <1>1, <1>2, <2>1 DEF Asked, db
    <2>2. CASE ~UNCHANGED db
        <3>1. /\ runStatus[x] \in ActiveStatuses /\ result' = [result EXCEPT ![x] = status]
              /\ UNCHANGED threadOf
              /\ \/ UNCHANGED messages
                 \/ messages' = [messages EXCEPT ![threadOf[x]] = Append(@, <<"assistant", x>>)]
            BY <1>5, <2>2, FinishWrites
        <3>2. r # x
            BY <1>1, <3>1 DEF FinishStatuses
        <3>3. runStatus'[r] = runStatus[r] /\ result'[r] = result[r]
            BY <1>5, <3>1, <3>2 DEF CommitFinish, FinishRun, db
        <3>4. threadOf[r] # threadOf[x] /\ threadOf[r] \in Thread
            BY <1>1, <3>1, <3>2, <3>3 DEF RowsConsistent, OneUnfinishedRunPerThread, Unfinished,
                RunsOf, ActiveStatuses
        <3>5. messages'[threadOf[r]] = messages[threadOf[r]]
            BY <3>1, <3>4
        <3> QED BY <1>1, <1>2, <3>1, <3>3, <3>5 DEF Asked
    <2> QED BY <2>1, <2>2
<1>6. ASSUME NEW q \in Req, NEW x \in Run, InsertRun(q, x)
      PROVE  Asked(r)'
    <2>1. CASE UNCHANGED db
        BY <1>1, <1>2, <2>1 DEF Asked, db
    <2>2. CASE ~UNCHANGED db
        <3>1. /\ thr[q] \in Thread /\ Unfinished(thr[q]) = {} /\ UNCHANGED result
              /\ runStatus' = [runStatus EXCEPT ![x] = "starting"]
              /\ threadOf' = [threadOf EXCEPT ![x] = thr[q]]
              /\ messages' = [messages EXCEPT ![thr[q]] = Append(@, <<"user", x>>)]
            BY <1>6, <2>2, InsertWrites
        <3>2. CASE r = x
            <4>1. threadOf'[r] = thr[q]
                BY <3>1, <3>2
            <4>2. messages'[thr[q]] = Append(messages[thr[q]], <<"user", r>>)
                BY <3>1, <3>2
            <4>3. messages[thr[q]] \in Seq({"user", "assistant"} \X Run)
                BY <3>1
            <4> DEFINE more == Append(messages[thr[q]], <<"user", r>>)
            <4>4. Len(more) = Len(messages[thr[q]]) + 1 /\ Len(messages[thr[q]]) \in Nat
                BY <4>3
            <4>5. more # <<>> /\ more[Len(more)] = <<"user", r>>
                BY <4>3, <4>4
            <4> QED BY <4>1, <4>2, <4>5 DEF Asked
        <3>3. CASE r # x
            <4>1. /\ runStatus[r] \in ActiveStatuses /\ result[r] = "none"
                  /\ threadOf'[r] = threadOf[r]
                BY <1>1, <3>1, <3>3
            <4>2. threadOf[r] # thr[q] /\ threadOf[r] \in Thread
                BY <3>1, <4>1 DEF RowsConsistent, Unfinished, RunsOf, ActiveStatuses
            <4> QED BY <1>2, <3>1, <4>1, <4>2 DEF Asked
        <3> QED BY <3>2, <3>3
    <2> QED BY <2>1, <2>2
<1> QED BY <1>3, <1>4, <1>5, <1>6, Writers

\* Every answer directly follows the question of its run.
Ordered(said) ==
    \A i \in DOMAIN said :
        said[i][1] = "assistant" => i > 1 /\ said[i - 1] = <<"user", said[i][2]>>

\* Adding a question, or the answer to the last question, keeps the order.
LEMMA OrderedAppend ==
    ASSUME NEW said \in Seq({"user", "assistant"} \X Run), Ordered(said), NEW r \in Run,
           NEW role \in {"user", "assistant"},
           role = "assistant" => said # <<>> /\ said[Len(said)] = <<"user", r>>
    PROVE  Ordered(Append(said, <<role, r>>))
<1> DEFINE more == Append(said, <<role, r>>)
<1>1. /\ DOMAIN said = 1..Len(said) /\ Len(said) \in Nat
      /\ DOMAIN more = 1..(Len(said) + 1)
      /\ more[Len(said) + 1] = <<role, r>>
      /\ \A i \in 1..Len(said) : more[i] = said[i]
    OBVIOUS
<1>2. said # <<>> => Len(said) > 0
    OBVIOUS
<1> HIDE DEF more
<1>3. SUFFICES ASSUME NEW i \in DOMAIN more, more[i][1] = "assistant"
               PROVE  i > 1 /\ more[i - 1] = <<"user", more[i][2]>>
    BY DEF more, Ordered
<1>4. CASE i = Len(said) + 1
    <2>1. role = "assistant" /\ more[i][2] = r
        BY <1>1, <1>3, <1>4
    <2>2. Len(said) > 0 /\ said[Len(said)] = <<"user", r>>
        BY <1>2, <2>1
    <2> QED BY <1>1, <1>4, <2>1, <2>2
<1>5. CASE i \in 1..Len(said)
    <2>1. i > 1 /\ said[i - 1] = <<"user", said[i][2]>>
        BY <1>1, <1>3, <1>5 DEF Ordered
    <2> QED BY <1>1, <1>5, <2>1
<1> QED BY <1>1, <1>3, <1>4, <1>5

\* Every step keeps the turns of every thread in order.
LEMMA TurnsStep ==
    ASSUME TypeOK, RequestsFit, RowsConsistent, TasksKnown, WaitersKnown, QuestionIsLast,
           TurnsInOrder, [Next]_vars
    PROVE  TurnsInOrder'
<1>1. \A t \in Thread : Ordered(messages[t])
    BY DEF TurnsInOrder, Ordered
<1>2. SUFFICES \A t \in Thread : Ordered(messages'[t])
    BY DEF TurnsInOrder, Ordered
<1>3. CASE UNCHANGED messages
    BY <1>1, <1>3
<1>4. ASSUME NEW u \in Thread, NEW r \in Run, NEW role \in {"user", "assistant"},
             messages' = [messages EXCEPT ![u] = Append(@, <<role, r>>)],
             role = "assistant" =>
                 messages[u] # <<>> /\ messages[u][Len(messages[u])] = <<"user", r>>
      PROVE  \A t \in Thread : Ordered(messages'[t])
    <2>1. messages[u] \in Seq({"user", "assistant"} \X Run)
        BY DEF TypeOK, StoreTypeOK
    <2>2. Ordered(Append(messages[u], <<role, r>>))
        BY <1>1, <1>4, <2>1, OrderedAppend
    <2> QED BY <1>1, <1>4, <2>2 DEF TypeOK, StoreTypeOK
<1>5. ASSUME NEW q \in Req, NEW r \in Run, InsertRun(q, r)
      PROVE  \A t \in Thread : Ordered(messages'[t])
    BY <1>3, <1>4, <1>5, InsertWrites DEF db
<1>6. ASSUME NEW r \in Run, NEW status \in FinishStatuses, CommitFinish(r, status)
      PROVE  \A t \in Thread : Ordered(messages'[t])
    <2>1. CASE UNCHANGED messages
        BY <1>3, <2>1
    <2>2. CASE ~UNCHANGED messages
        <3>1. /\ runStatus[r] \in ActiveStatuses /\ result[r] = "none"
              /\ messages' = [messages EXCEPT ![threadOf[r]] = Append(@, <<"assistant", r>>)]
            BY <1>6, <2>2, FinishWrites DEF db
        <3>2. threadOf[r] \in Thread
            BY <3>1 DEF RowsConsistent, ActiveStatuses
        <3> QED BY <1>4, <3>1, <3>2 DEF QuestionIsLast
    <2> QED BY <2>1, <2>2
<1> QED BY <1>3, <1>5, <1>6, Writers, StatusWrites

\* A task that was reached stays reached: it can only be spawned anew, which happens once.
LEMMA ReachedStays ==
    ASSUME TypeOK, WaitersKnown, FreshRuns, [Next]_vars
    PROVE  \A r \in Run : tpc[r] # "none" =>
               tpc'[r] # "none" /\ (Reached(r) => Reached(r)')
<1> DEFINE Kept == \A r \in Run : tpc[r] # "none" =>
                       tpc'[r] # "none" /\ (Reached(r) => Reached(r)')
<1> USE DEF TypeOK, TaskTypeOK, Reached, Live, LivePCs
<1>1. ASSUME Arrival PROVE UNCHANGED <<tpc, cancelled, awaits>>
    BY <1>1, ArrivalFrame DEF taskVars
<1>2. ASSUME NEW q \in Req,
         \/ LockUser(q) \/ ReadIdem(q) \/ ReadActive(q) \/ ReadRun(q) \/ LockToReplace(q)
         \/ LockNothingToReplace(q) \/ LockToCancel(q) \/ LockNothingToCancel(q)
         \/ CheckStatus(q) \/ Decide(q) \/ MarkCancelling(q) \/ AwaitDone(q)
         \/ Recheck(q) \/ InsertRefused(q) \/ AwaitStarted(q) \/ ReplaceRefused(q)
         \/ AnnounceArchived(q) \/ AwaitTimeout(q) \/ RequestFault(q)
      PROVE  UNCHANGED <<tpc, cancelled, awaits>>
    BY <1>2 DEF LockUser, ReadIdem, ReadActive, ReadRun, LockToReplace, LockNothingToReplace,
        LockToCancel, LockNothingToCancel, CheckStatus, Decide, MarkCancelling, AwaitDone,
        Recheck, InsertRefused, AwaitStarted, ReplaceRefused, AnnounceArchived, AwaitTimeout,
        RequestFault, taskVars
<1>3. ASSUME NEW q \in Req, CancelTask(q) PROVE Kept
    BY <1>3 DEF CancelTask
<1>4. ASSUME NEW q \in Req, Spawn(q) PROVE Kept
    BY <1>4 DEF Spawn, FreshRuns
<1>5. ASSUME NEW q \in Req, NEW r \in Run, InsertRun(q, r)
      PROVE  UNCHANGED <<tpc, cancelled, awaits>>
    BY <1>5 DEF InsertRun, taskVars
<1>6. ASSUME NEW q \in Req, NEW t \in Thread, CommitReplace(q, t)
      PROVE  UNCHANGED <<tpc, cancelled, awaits>>
    BY <1>6 DEF CommitReplace, taskVars
<1>7. ASSUME NEW r \in Run, BeginTask(r) \/ CommitRunning(r) \/ EnterAgent(r) \/ EndTask(r)
      PROVE  Kept
    BY <1>7 DEF BeginTask, CommitRunning, EnterAgent, EndTask, Resumes, Finally
<1>8. ASSUME NEW r \in Run, SaveFailed(r) PROVE Kept
    BY <1>8 DEF SaveFailed, Resumes, Saves, Finally
<1>9. ASSUME NEW r \in Run, DeliverCancel(r) PROVE Kept
    BY <1>9 DEF DeliverCancel, Saves, Finally
<1>10. ASSUME NEW r \in Run, NEW status \in FinishStatuses, AgentEnds(r, status) PROVE Kept
    BY <1>10 DEF AgentEnds, Resumes, Saves
<1>11. ASSUME NEW r \in Run, NEW status \in FinishStatuses,
              CommitFinish(r, status) \/ FinishConflict(r, status) \/ FinishFault(r, status)
      PROVE  UNCHANGED <<tpc, cancelled, awaits>>
    BY <1>11 DEF CommitFinish, FinishConflict, FinishFault
<1>12. ASSUME NEW r \in Run, StartingFault(r) PROVE Kept
    BY <1>12 DEF StartingFault, Resumes, Saves
<1>13. ASSUME Exit \/ Crash PROVE Kept
    <2>1. LoseMemory
        BY <1>13 DEF Exit, Crash
    <2> QED BY <2>1 DEF LoseMemory
<1>14. CASE Close
    BY <1>14 DEF Close
<1>15. ASSUME Restart PROVE UNCHANGED <<tpc, cancelled, awaits>>
    BY <1>15 DEF Restart, taskVars
<1>16. ASSUME UNCHANGED vars PROVE UNCHANGED <<tpc, cancelled, awaits>>
    BY <1>16 DEF vars, taskVars
<1>17. ASSUME UNCHANGED <<tpc, cancelled, awaits>> PROVE Kept
    BY <1>17
<1> QED BY <1>1, <1>2, <1>3, <1>4, <1>5, <1>6, <1>7, <1>8, <1>9, <1>10, <1>11, <1>12, <1>13,
        <1>14, <1>15, <1>16, <1>17
    DEF Next, RequestStep, TaskStep, FaultStep, ProcessStep, Quiescent, FinishStatuses

\* A handle is only of a run whose task was created.
LEMMA HandlesSpawnedStep ==
    ASSUME TypeOK, RequestsFit, HandlesKnown, WaitersKnown, FreshRuns, HandlesSpawned, [Next]_vars
    PROVE  HandlesSpawned'
<1> DEFINE Spawned(r) == tpc[r] # "none"
<1> DEFINE Handles == \A t \in Thread : activeTasks'[t] # NoRun => tpc'[activeTasks'[t]] # "none"
<1> DEFINE Keeps(o) == \/ pc'[o] \notin WaitPCs /\ ~Answered(o)'
                       \/ run'[o] = run[o] /\ (pc[o] \in WaitPCs \/ Answered(o))
<1> DEFINE Statuses == \A r \in Run : hstatus'[r] = "cancelling" => hstatus[r] = "cancelling"
<1> USE DEF TypeOK
<1>1. \A r \in Run : Spawned(r) => Spawned(r)'
    BY ReachedStays
<1>2. ASSUME NEW o \in Req, pc[o] \in WaitPCs \/ Answered(o)
      PROVE  run[o] \in Run
    BY <1>2 DEF WaitersKnown, HandlePCs, Answered, RequestsFit
<1>3. ASSUME UNCHANGED activeTasks, Statuses, \A o \in Req : Keeps(o)
      PROVE  HandlesSpawned'
    BY <1>1, <1>2, <1>3 DEF HandlesSpawned, RegistryTypeOK
<1>4. ASSUME Arrival PROVE UNCHANGED <<activeTasks, hstatus>> /\ \A o \in Req : Keeps(o)
    <2>1. PICK q \in Req :
            /\ pc'[q] \in {"want_user", "read_run", "error"}
            /\ \A o \in Req \ {q} : /\ pc'[o] = pc[o] /\ kind'[o] = kind[o] /\ run'[o] = run[o]
        BY <1>4, ArrivalFrame
    <2> QED BY <1>4, <2>1, ArrivalFrame DEF Answered, WaitPCs, taskVars
<1>5. ASSUME NEW q \in Req,
         \/ LockUser(q) \/ ReadIdem(q) \/ ReadActive(q) \/ ReadRun(q)
         \/ LockNothingToReplace(q) \/ CheckStatus(q) \/ MarkCancelling(q) \/ CancelTask(q)
      PROVE  UNCHANGED <<activeTasks, hstatus>> /\ \A o \in Req : Keeps(o)
    BY <1>5 DEF LockUser, ReadIdem, ReadActive, ReadRun, LockNothingToReplace, CheckStatus,
        MarkCancelling, CancelTask, Return, Goto, RequestsFit, RequestTypeOK, Answered, WaitPCs,
        TerminalStatuses, FinishStatuses, ActiveStatuses, taskVars
<1>6. ASSUME NEW q \in Req,
         \/ AwaitDone(q) \/ Recheck(q) \/ InsertRefused(q) \/ AwaitStarted(q)
         \/ ReplaceRefused(q) \/ AnnounceArchived(q) \/ AwaitTimeout(q) \/ RequestFault(q)
      PROVE  UNCHANGED <<activeTasks, hstatus>> /\ \A o \in Req : Keeps(o)
    BY <1>6 DEF AwaitDone, Recheck, InsertRefused, AwaitStarted, ReplaceRefused,
        AnnounceArchived, AwaitTimeout, RequestFault, Proceed, Return, Goto, RequestsFit,
        RequestTypeOK, Answered, WaitPCs, taskVars
<1>7. ASSUME NEW q \in Req, LockToReplace(q) \/ LockToCancel(q) \/ LockNothingToCancel(q)
      PROVE  HandlesSpawned'
    <2>1. UNCHANGED activeTasks /\ thr[q] \in Thread /\ pc[q] = "want_thread"
        BY <1>7 DEF LockToReplace, LockToCancel, LockNothingToCancel, TakesLock, RequestsFit
    <2>2. \A o \in Req \ {q} : Keeps(o)
        BY <1>7 DEF LockToReplace, LockToCancel, LockNothingToCancel, Goto, Answered,
            RequestTypeOK
    <2>3. \A r \in Run : hstatus'[r] = "cancelling" =>
              hstatus[r] = "cancelling" \/ (r = run[q] /\ activeTasks[thr[q]] = run[q])
        BY <1>7 DEF LockToReplace, LockToCancel, LockNothingToCancel, Handle, TaskTypeOK, taskVars
    <2>4. pc'[q] \in WaitPCs \/ Answered(q)' =>
              activeTasks[thr[q]] # NoRun /\ run'[q] = activeTasks[thr[q]]
        BY <1>7, <2>1, StoreAssumption DEF LockToReplace, LockToCancel, LockNothingToCancel,
            TakesLock, Handle, Goto, Answered, WaitPCs, RequestsFit, RequestTypeOK
    <2>5. \A r \in Run : hstatus'[r] = "cancelling" => Spawned(r)'
        BY <1>1, <2>1, <2>3, StoreAssumption DEF HandlesSpawned
    <2>6. \A o \in Req : pc'[o] \in WaitPCs \/ Answered(o)' => tpc'[run'[o]] # "none"
        BY <1>1, <1>2, <2>1, <2>2, <2>4 DEF HandlesSpawned, RegistryTypeOK
    <2>7. Handles
        BY <1>1, <2>1 DEF HandlesSpawned, RegistryTypeOK
    <2> QED BY <2>5, <2>6, <2>7 DEF HandlesSpawned
<1>8. ASSUME NEW q \in Req, Decide(q) PROVE HandlesSpawned'
    <2>1. UNCHANGED activeTasks /\ \A o \in Req : Keeps(o)
        BY <1>8 DEF Decide, Goto, Answered, WaitPCs, RequestTypeOK
    <2>2. run[q] \in Run /\ Spawned(run[q])
        BY <1>8 DEF Decide, WaitersKnown, HandlePCs, WaitPCs, HandlesSpawned
    <2>3. \A r \in Run : hstatus'[r] = "cancelling" => hstatus[r] = "cancelling" \/ r = run[q]
        BY <1>8 DEF Decide, TaskTypeOK
    <2> QED BY <1>1, <1>2, <2>1, <2>2, <2>3 DEF HandlesSpawned, RegistryTypeOK
<1>9. ASSUME NEW q \in Req, NEW r \in Run, InsertRun(q, r)
      PROVE  UNCHANGED <<activeTasks, hstatus>> /\ \A o \in Req : Keeps(o)
    BY <1>9 DEF InsertRun, Return, Goto, Answered, WaitPCs, RequestsFit, RequestTypeOK, taskVars
<1>10. ASSUME NEW q \in Req, Spawn(q) PROVE HandlesSpawned'
    <2>1. PICK r \in Run : r = run[q]
        BY <1>10 DEF Spawn, WaitersKnown, HandlePCs
    <2>2. Spawned(r)' /\ \A x \in Run : hstatus'[x] = "cancelling" => hstatus[x] = "cancelling"
        BY <1>10, <2>1 DEF Spawn, TaskTypeOK
    <2>3. \A t \in Thread : activeTasks'[t] \in {activeTasks[t], r}
        BY <1>10, <2>1 DEF Spawn, RegistryTypeOK
    <2>4. \A o \in Req : Keeps(o)
        BY <1>10 DEF Spawn, Goto, Answered, WaitPCs, RequestTypeOK
    <2>5. Handles
        BY <1>1, <2>2, <2>3 DEF HandlesSpawned, RegistryTypeOK
    <2> QED BY <1>1, <1>2, <2>2, <2>4, <2>5 DEF HandlesSpawned
<1>11. ASSUME NEW q \in Req, NEW t \in Thread, CommitReplace(q, t)
      PROVE  UNCHANGED <<activeTasks, hstatus>> /\ \A o \in Req : Keeps(o)
    BY <1>11 DEF CommitReplace, Return, Goto, Answered, WaitPCs, RequestsFit, RequestTypeOK,
        taskVars
<1>12. ASSUME NEW r \in Run,
         \/ BeginTask(r) \/ CommitRunning(r) \/ EnterAgent(r) \/ EndTask(r) \/ SaveFailed(r)
         \/ DeliverCancel(r) \/ StartingFault(r)
      PROVE  HandlesSpawned'
    <2>1. UNCHANGED <<pc, kind, seen, run>>
        BY <1>12 DEF BeginTask, CommitRunning, EnterAgent, EndTask, SaveFailed, DeliverCancel,
            StartingFault, TaskFrame, reqVars
    <2>2. \A t \in Thread : activeTasks'[t] \in {activeTasks[t], NoRun}
        BY <1>12 DEF BeginTask, CommitRunning, EnterAgent, EndTask, SaveFailed, DeliverCancel,
            StartingFault, Finally, RegistryTypeOK
    <2>3. awaits[r] # "cancelling"
        BY DEF TaskTypeOK, FinishStatuses
    <2>4. Statuses
        BY <1>12, <2>3 DEF BeginTask, CommitRunning, EnterAgent, EndTask, SaveFailed,
            DeliverCancel, StartingFault, TaskTypeOK
    <2>5. Handles
        BY <1>1, <2>2 DEF HandlesSpawned, RegistryTypeOK
    <2> QED BY <1>1, <1>2, <2>1, <2>4, <2>5 DEF HandlesSpawned, Answered
<1>13. ASSUME NEW r \in Run, NEW status \in FinishStatuses,
         \/ AgentEnds(r, status) \/ CommitFinish(r, status) \/ FinishConflict(r, status)
         \/ FinishFault(r, status)
      PROVE  UNCHANGED <<activeTasks, hstatus>> /\ \A o \in Req : Keeps(o)
    BY <1>13 DEF AgentEnds, CommitFinish, FinishConflict, FinishFault, TaskFrame, reqVars,
        Answered
<1>14. ASSUME Exit \/ Crash PROVE HandlesSpawned'
    <2>1. LoseMemory
        BY <1>14 DEF Exit, Crash
    <2>2. /\ UNCHANGED <<hstatus, run, kind, seen>> /\ \A t \in Thread : activeTasks'[t] = NoRun
          /\ \A q \in Req : pc'[q] \in {pc[q], "lost"} /\ pc'[q] \notin WaitPCs
        BY <2>1 DEF LoseMemory, FinalPCs, WaitPCs
    <2>3. \A q \in Req : Answered(q)' => Answered(q)
        BY <2>2 DEF Answered
    <2> QED BY <1>1, <1>2, <2>2, <2>3 DEF HandlesSpawned
<1>15. ASSUME Close PROVE HandlesSpawned'
    <2>1. UNCHANGED <<activeTasks, pc, kind, seen, run>>
        BY <1>15 DEF Close, reqVars
    <2>2. \A r \in Run : hstatus'[r] = "cancelling" => hstatus[r] = "cancelling" \/ Live(r)
        BY <1>15 DEF Close
    <2>3. \A r \in Run : Live(r) => Spawned(r)
        BY DEF Live, LivePCs
    <2> QED BY <1>1, <1>2, <2>1, <2>2, <2>3 DEF HandlesSpawned, Answered, RegistryTypeOK
<1>16. ASSUME Restart
      PROVE  UNCHANGED <<activeTasks, hstatus>> /\ \A o \in Req : Keeps(o)
    BY <1>16 DEF Restart, reqVars, taskVars, Answered
<1>17. ASSUME UNCHANGED vars
      PROVE  UNCHANGED <<activeTasks, hstatus>> /\ \A o \in Req : Keeps(o)
    BY <1>17 DEF vars, reqVars, taskVars, Answered
<1>18. ASSUME UNCHANGED <<activeTasks, hstatus>>, \A o \in Req : Keeps(o)
       PROVE  HandlesSpawned'
    BY <1>3, <1>18
<1> HIDE DEF Keeps
<1> QED BY <1>4, <1>5, <1>6, <1>7, <1>8, <1>9, <1>10, <1>11, <1>12, <1>13, <1>14, <1>15, <1>16,
        <1>17, <1>18
    DEF Next, RequestStep, TaskStep, FaultStep, ProcessStep, Quiescent, FinishStatuses

\* A handle that says "cancelling" is believed only while somebody sees to the cancel.
LEMMA CancelsDeliveredStep ==
    ASSUME TypeOK, RequestsFit, HandlesKnown, TasksKnown, WaitersKnown, LocksHeld, FreshRuns,
           HandlesSpawned, CancelsDelivered, [Next]_vars
    PROVE  CancelsDelivered'
<1> DEFINE Says == \A r \in Run : hstatus'[r] = "cancelling" => hstatus[r] = "cancelling"
<1> DEFINE Marks(o) ==
        pc[o] \in {"mark", "marked"} => pc'[o] \in {"mark", "marked"} /\ run'[o] = run[o]
<1> DEFINE Answers(o) == Answered(o)' => Answered(o) /\ run'[o] = run[o]
<1> DEFINE Real == \A r \in Run : hstatus'[r] = "cancelling" =>
                       Reached(r)' \/ \E o \in Req : Marking(o, r)'
<1> DEFINE Told == \A o \in Req : Answered(o)' => Reached(run[o])'
<1> USE DEF TypeOK
<1>1. CASE faults' # 0
    BY <1>1 DEF CancelsDelivered
<1>2. \A r \in Run : tpc[r] # "none" /\ Reached(r) => Reached(r)'
    BY ReachedStays
<1>3. ASSUME faults = 0, NEW o \in Req, Answers(o), Answered(o)'
      PROVE  Reached(run[o])'
    <2>1. PICK r \in Run : r = run[o]
        BY <1>3 DEF Answered, RequestsFit
    <2>2. Reached(r) /\ tpc[r] # "none" /\ run'[o] = r
        BY <1>3, <2>1 DEF CancelsDelivered, HandlesSpawned
    <2>3. Reached(r)'
        BY <1>2, <2>2
    <2> QED BY <2>2, <2>3 DEF Reached, Live
<1>4. ASSUME faults = 0, Says, \A o \in Req : Marks(o)
      PROVE  Real
    BY <1>2, <1>4 DEF CancelsDelivered, HandlesSpawned, Marking
<1>5. ASSUME faults = 0, Says, \A o \in Req : Marks(o) /\ Answers(o)
      PROVE  CancelsDelivered'
    BY <1>3, <1>4, <1>5 DEF CancelsDelivered
<1> DEFINE Quiet == faults' = faults /\ Says /\ \A o \in Req : Marks(o) /\ Answers(o)
<1>6. ASSUME Arrival PROVE Quiet
    <2>1. PICK q \in Req :
            /\ pc[q] = "idle" /\ pc'[q] \in {"want_user", "read_run", "error"}
            /\ \A o \in Req \ {q} : /\ pc'[o] = pc[o] /\ kind'[o] = kind[o] /\ run'[o] = run[o]
        BY <1>6, ArrivalFrame
    <2> QED BY <1>6, <2>1, ArrivalFrame DEF Answered, taskVars, bounds
<1>7. ASSUME NEW q \in Req,
         \/ LockUser(q) \/ ReadIdem(q) \/ ReadActive(q) \/ ReadRun(q) \/ LockToReplace(q)
         \/ LockNothingToReplace(q) \/ CheckStatus(q) \/ MarkCancelling(q)
      PROVE  Quiet
    BY <1>7 DEF LockUser, ReadIdem, ReadActive, ReadRun, LockToReplace, LockNothingToReplace,
        TakesLock, CheckStatus, MarkCancelling, Return, Goto, RequestsFit, RequestTypeOK,
        Answered, TerminalStatuses, FinishStatuses, ActiveStatuses, taskVars, bounds
<1>8. ASSUME NEW q \in Req,
         \/ AwaitDone(q) \/ Recheck(q) \/ InsertRefused(q) \/ AwaitStarted(q)
         \/ ReplaceRefused(q) \/ AnnounceArchived(q) \/ AwaitTimeout(q)
      PROVE  Quiet
    BY <1>8 DEF AwaitDone, Recheck, InsertRefused, AwaitStarted, ReplaceRefused,
        AnnounceArchived, AwaitTimeout, Proceed, Return, Goto, RequestsFit, RequestTypeOK,
        Answered, taskVars, bounds
<1>9. ASSUME NEW q \in Req, NEW r \in Run, InsertRun(q, r) PROVE Quiet
    BY <1>9 DEF InsertRun, Return, Goto, RequestsFit, RequestTypeOK, Answered, taskVars, bounds
<1>10. ASSUME NEW q \in Req, NEW t \in Thread, CommitReplace(q, t) PROVE Quiet
    BY <1>10 DEF CommitReplace, Return, Goto, RequestsFit, RequestTypeOK, Answered, taskVars,
        bounds
<1>11. ASSUME NEW q \in Req, Spawn(q) PROVE Quiet
    BY <1>11 DEF Spawn, Goto, RequestTypeOK, TaskTypeOK, Answered, bounds
<1>12. ASSUME NEW r \in Run,
         \/ BeginTask(r) \/ CommitRunning(r) \/ EnterAgent(r) \/ EndTask(r) \/ SaveFailed(r)
         \/ DeliverCancel(r)
      PROVE  Quiet
    <2>1. UNCHANGED <<pc, kind, seen, run, faults>>
        BY <1>12 DEF BeginTask, CommitRunning, EnterAgent, EndTask, SaveFailed, DeliverCancel,
            TaskFrame, reqVars, bounds
    <2>2. awaits[r] # "cancelling"
        BY DEF TaskTypeOK, FinishStatuses
    <2>3. Says
        BY <1>12, <2>2 DEF BeginTask, CommitRunning, EnterAgent, EndTask, SaveFailed,
            DeliverCancel, TaskTypeOK
    <2> QED BY <2>1, <2>3 DEF Answered
<1>13. ASSUME NEW r \in Run, NEW status \in FinishStatuses,
         \/ AgentEnds(r, status) \/ CommitFinish(r, status) \/ FinishConflict(r, status)
      PROVE  Quiet
    BY <1>13 DEF AgentEnds, CommitFinish, FinishConflict, TaskFrame, reqVars, bounds, Answered
<1>14. ASSUME Restart PROVE Quiet
    BY <1>14 DEF Restart, reqVars, taskVars, bounds, Answered
<1>15. ASSUME UNCHANGED vars PROVE Quiet
    BY <1>15 DEF vars, reqVars, taskVars, bounds, Answered
<1>16. ASSUME NEW q \in Req, LockToCancel(q) \/ Decide(q), faults = 0 PROVE CancelsDelivered'
    <2>1. \A o \in Req : Marks(o) /\ Answers(o)
        BY <1>16 DEF LockToCancel, TakesLock, Decide, Goto, RequestTypeOK, Answered
    <2>2. Says \/ Marking(q, run[q])'
        BY <1>16 DEF LockToCancel, Decide, Goto, Marking, RequestTypeOK
    <2>3. \A r \in Run : hstatus'[r] = "cancelling" => hstatus[r] = "cancelling" \/ r = run[q]
        BY <1>16 DEF LockToCancel, Decide, TaskTypeOK
    <2>4. UNCHANGED run
        BY <1>16 DEF LockToCancel, Decide
    <2>5. Real
        BY <1>2, <1>4, <1>16, <2>1, <2>2, <2>3, <2>4 DEF CancelsDelivered, HandlesSpawned, Marking
    <2> QED BY <1>3, <1>16, <2>1, <2>5 DEF CancelsDelivered
<1>17. ASSUME NEW q \in Req, LockNothingToCancel(q), faults = 0 PROVE CancelsDelivered'
    <2>1. /\ pc[q] = "want_thread" /\ kind[q] = "cancel" /\ threadLock[thr[q]] = NoReq
          /\ UNCHANGED <<hstatus, run, kind, seen>> /\ pc' = [pc EXCEPT ![q] = pc'[q]]
          /\ pc'[q] = "ok" => activeTasks[thr[q]] = run[q] /\ hstatus[run[q]] = "cancelling"
        BY <1>17 DEF LockNothingToCancel, TakesLock, Handle, Goto, RequestTypeOK, taskVars
    <2>2. PICK r \in Run : r = run[q] /\ thr[q] = threadOf[r]
        BY <2>1 DEF RequestsFit
    <2>3. \A o \in Req : ~Marking(o, r)
        BY <2>1, <2>2, RegistryAssumption
           DEF Marking, WaitersKnown, LocksHeld, HandlePCs, WaitPCs,
            ThreadPCs
    <2>4. pc'[q] = "ok" => Reached(r)'
        BY <1>2, <1>17, <2>1, <2>2, <2>3 DEF CancelsDelivered, HandlesSpawned
    <2>5. \A o \in Req : Marks(o) /\ (o # q => Answers(o))
        BY <2>1 DEF RequestTypeOK, Answered
    <2>6. ASSUME Answered(q)' PROVE Reached(run[q])'
        BY <2>1, <2>2, <2>4, <2>6 DEF Answered, Reached, Live
    <2>7. Told
        BY <1>3, <1>17, <2>5, <2>6
    <2> QED BY <1>4, <1>17, <2>1, <2>5, <2>7 DEF CancelsDelivered
<1>18. ASSUME NEW q \in Req, CancelTask(q), faults = 0 PROVE CancelsDelivered'
    <2>1. PICK r \in Run : r = run[q]
        BY <1>18 DEF CancelTask, WaitersKnown, HandlePCs, WaitPCs
    <2>2. UNCHANGED <<hstatus, run, kind, seen, tpc, awaits>> /\ Reached(r)'
        BY <1>18, <2>1 DEF CancelTask, Reached, Live, TaskTypeOK
    <2>3. \A o \in Req \ {q} : pc'[o] = pc[o] /\ Marks(o) /\ Answers(o)
        BY <1>18, <2>2 DEF CancelTask, Return, Goto, RequestTypeOK, Answered
    <2>4. Real
        BY <1>2, <1>18, <2>1, <2>2, <2>3 DEF CancelsDelivered, HandlesSpawned, Marking
    <2>5. Reached(run[q])'
        BY <2>1, <2>2 DEF Reached, Live
    <2>6. Told
        BY <1>3, <1>18, <2>3, <2>5
    <2> QED BY <2>4, <2>6 DEF CancelsDelivered
<1>19. ASSUME Exit \/ Crash, faults = 0 PROVE CancelsDelivered'
    <2>1. LoseMemory
        BY <1>19 DEF Exit, Crash
    <2>2. \A r \in Run : ~Live(r)'
        BY <2>1 DEF LoseMemory, Live, LivePCs
    <2>3. \A q \in Req : Answers(q)
        BY <2>1 DEF LoseMemory, Answered
    <2> QED BY <1>3, <1>19, <2>2, <2>3 DEF CancelsDelivered, Reached
<1>20. ASSUME Close, faults = 0 PROVE CancelsDelivered'
    <2>1. UNCHANGED <<pc, kind, seen, run>>
        BY <1>20 DEF Close, reqVars
    <2>2. \A o \in Req : Marks(o) /\ Answers(o)
        BY <2>1 DEF Answered
    <2>3. \A r \in Run : hstatus'[r] = "cancelling" => hstatus[r] = "cancelling" \/ cancelled'[r]
        BY <1>20 DEF Close
    <2>4. Real
        BY <1>2, <1>20, <2>1, <2>3 DEF CancelsDelivered, HandlesSpawned, Marking, Reached
    <2> QED BY <1>3, <1>20, <2>2, <2>4 DEF CancelsDelivered
<1>21. ASSUME NEW q \in Req, RequestFault(q) PROVE faults' # 0
    BY <1>21 DEF RequestFault, Fault, RegistryTypeOK
<1>22. ASSUME NEW r \in Run, StartingFault(r) PROVE faults' # 0
    BY <1>22 DEF StartingFault, Fault, RegistryTypeOK
<1>23. ASSUME NEW r \in Run, NEW status \in FinishStatuses, FinishFault(r, status)
       PROVE  faults' # 0
    BY <1>23 DEF FinishFault, Fault, RegistryTypeOK
<1>24. ASSUME Quiet, faults' = 0 PROVE CancelsDelivered'
    BY <1>5, <1>24
<1>25. ASSUME NEW q \in Req,
              \/ LockToCancel(q) \/ Decide(q) \/ LockNothingToCancel(q) \/ CancelTask(q)
       PROVE  faults' = faults
    BY <1>25 DEF LockToCancel, Decide, LockNothingToCancel, CancelTask, bounds
<1>26. ASSUME Exit \/ Crash \/ Close PROVE faults' = faults
    BY <1>26 DEF Exit, Crash, Close, LoseMemory
<1> HIDE DEF Quiet
<1> QED BY <1>1, <1>6, <1>7, <1>8, <1>9, <1>10, <1>11, <1>12, <1>13, <1>14, <1>15, <1>16, <1>17,
        <1>18, <1>19, <1>20, <1>21, <1>22, <1>23, <1>24, <1>25, <1>26
    DEF Next, RequestStep, TaskStep, FaultStep, ProcessStep, Quiescent, FinishStatuses

\* The initial state satisfies every part.
LEMMA InvariantInit == Init => Invariant
<1> SUFFICES ASSUME Init PROVE Invariant
    OBVIOUS
<1>1. ResultsAreTheTasks /\ FreshRuns
    BY DEF Init, StoreInit, ResultsAreTheTasks, ResultFits, LivePCs, FreshRuns
<1>2. KeysRemembered /\ QuestionIsLast
    BY DEF Init, StoreInit, KeysRemembered, QuestionIsLast, ActiveStatuses
<1>3. StoredBeforeAnnounced /\ TurnsInOrder
    BY DEF Init, StoreInit, StoredBeforeAnnounced, TurnsInOrder
<1>4. HandlesSpawned /\ CancelsDelivered
    BY DEF Init, HandlesSpawned, CancelsDelivered, Answered, WaitPCs
<1> QED BY <1>1, <1>2, <1>3, <1>4, InductiveInit DEF Invariant, Recorded

\* Every step keeps every part.
LEMMA InvariantStep == Invariant /\ [Next]_vars => Invariant'
<1> SUFFICES ASSUME Invariant, [Next]_vars PROVE Invariant'
    OBVIOUS
<1> USE DEF Invariant, Inductive, MemoryKnown, Recorded
<1>1. Inductive'
    BY InductiveStep
<1>2. ResultsAreTheTasks' /\ FreshRuns'
    BY ResultsStep, FreshRunsStep
<1>3. KeysRemembered' /\ QuestionIsLast'
    BY KeysRememberedStep, QuestionIsLastStep
<1>4. StoredBeforeAnnounced' /\ TurnsInOrder'
    BY StoredStep, TurnsStep
<1>5. HandlesSpawned' /\ CancelsDelivered'
    BY HandlesSpawnedStep, CancelsDeliveredStep
<1> QED BY <1>1, <1>2, <1>3, <1>4, <1>5

\* Every part of the invariant that the runs check holds in every reachable state.
THEOREM FullInvariance == Spec => []Invariant
    BY InvariantInit, InvariantStep, PTL DEF Spec

\* A terminal event is published only after the result it announces is stored, and the
\* result never changes afterwards (run_registry.py:486-549).
THEOREM AnnouncedIsStored == Spec => []StoredBeforeAnnounced
<1>1. Invariant => StoredBeforeAnnounced
    BY DEF Invariant, Recorded
<1> QED BY <1>1, FullInvariance, PTL

\* Every answer directly follows the question of its run, whatever finish_run calls are
\* still in flight when the thread goes on (session_store.py:388-418, 499-519).
THEOREM TurnsStayInOrder == Spec => []TurnsInOrder
<1>1. Invariant => TurnsInOrder
    BY DEF Invariant, Recorded
<1> QED BY <1>1, FullInvariance, PTL

\* Two answered start_run requests with one client_request_id name one run, also when the
\* process was restarted between them (run_registry.py:165-167, 196-197).
THEOREM KeysNameRuns == Spec => []SameKeySameRun
<1>1. Invariant => SameKeySameRun
    BY DEF Invariant, Recorded, KeysRemembered, SameKeySameRun
<1> QED BY <1>1, FullInvariance, PTL

\* As long as no database call has failed, a cancel answered "cancelling" has reached its
\* task (run_registry.py:277-282); the run RegistryLostCancel shows what a failed call does.
THEOREM CancelsReachTasks == Spec => [](faults = 0 => CancelReachesTask)
<1>1. Invariant => (faults = 0 => CancelReachesTask)
    BY DEF Invariant, CancelsDelivered, CancelReachesTask, Answered, Reached
<1> QED BY <1>1, FullInvariance, PTL

\* Whatever a late finish_run, a late cancel or a restart does to the status column, the
\* result a run was given stays (session_store.py:436-460, 469-479).
THEOREM ResultsAreFinal == Spec => ResultIsFinal
<1>1. Inductive /\ [Next]_vars => [\A r \in Run : result[r] # "none" => result'[r] = result[r]]_vars
    BY ResultsLast DEF Inductive, MemoryKnown
<1> QED BY <1>1, Invariance, PTL DEF Spec, ResultIsFinal
==============================================================================
