--------------------------- MODULE Consolidation ----------------------------
(***************************************************************************)
(* Memory consolidation of one thread: the memory_consolidation_states     *)
(* row, the transactions of the session store that write it                *)
(* (app/database/session_store.py) and the worker processes that claim it, *)
(* read a window of messages, run the memory manager on it and advance the *)
(* cursor (app/memory/consolidation_worker.py).                            *)
(*                                                                         *)
(* The messages of a run are consecutive (RunRegistry!TurnsInOrder), so an *)
(* ordinal is abstracted to the position of its run in the thread.  A      *)
(* claim token is the worker that drew it: a worker holds one at a time.   *)
(***************************************************************************)
EXTENDS Naturals, Sequences, FiniteSets

CONSTANTS
    Worker,        \* consolidation worker processes
    NoWorker,      \* claim_token is NULL
    RunThreshold,  \* settings.memory_consolidation_run_threshold
    RetryLimit,    \* len(_RETRY_SECONDS)
    MaxRuns,       \* bound: runs of the thread
    MaxMishaps     \* bound: crashes, leases outlived by their worker, requeues

ASSUME ConAssumption ==
    /\ NoWorker \notin Worker
    /\ RunThreshold \in Nat \ {0} /\ RetryLimit \in Nat
    /\ MaxRuns \in Nat /\ MaxMishaps \in Nat

VARIABLES
    outcome,       \* runs.status of the thread's runs, in the order of their messages
    retired,       \* threads.status = 'archived'
    state,         \* the memory_consolidation_states row
    consolidator,  \* run_once of every worker
    consolidated,  \* how often the messages of a run went through the manager
    mishaps

conVars == <<outcome, retired, state, consolidator, consolidated, mishaps>>

AtRest == [phase |-> "idle", runs |-> {}, upto |-> 0]

ConTypeOK ==
    /\ outcome \in Seq({"succeeded", "failed", "interrupted", "cancelling"})
    /\ Len(outcome) <= MaxRuns
    /\ retired \in BOOLEAN
    /\ state \in [pending : 0..MaxRuns, cursor : 0..MaxRuns, due : {"none", "later", "now"},
                  claim : Worker \cup {NoWorker}, lapsed : BOOLEAN,
                  attempts : 0..(RetryLimit + 1), dead : BOOLEAN]
    /\ consolidator \in [Worker ->
            [phase : {"idle", "claimed", "window", "processed"},
             runs : SUBSET (1..MaxRuns), upto : 0..MaxRuns]]
    /\ consolidated \in [1..MaxRuns -> 0..2]
    /\ mishaps \in 0..MaxMishaps

\* A row that is absent and one with nothing pending behave alike.
ConInit ==
    /\ outcome = <<>>
    /\ retired = FALSE
    /\ state = [pending |-> 0, cursor |-> 0, due |-> "none", claim |-> NoWorker,
                lapsed |-> FALSE, attempts |-> 0, dead |-> FALSE]
    /\ consolidator = [w \in Worker |-> AtRest]
    /\ consolidated = [i \in 1..MaxRuns |-> 0]
    /\ mishaps = MaxMishaps

-----------------------------------------------------------------------------
(***************************************************************************)
(* What the session store writes.                                          *)
(***************************************************************************)
Succeeded(i) == i \in DOMAIN outcome /\ outcome[i] = "succeeded"
Unread       == {i \in DOMAIN outcome : i > state.cursor /\ outcome[i] = "succeeded"}

\* set_run_status may reopen the newest run; the thread then accepts no other (RunRegistry).
Blocked == Len(outcome) > 0 /\ outcome[Len(outcome)] = "cancelling"

\* Faulty variant: the counter is set, not increased.
CountedAnew(s) == [s EXCEPT !.pending = 1, !.attempts = 0, !.dead = FALSE]

\* A success is counted and wakes a dead-lettered row; a claim in progress is left alone.
Counted(s) == [s EXCEPT !.pending = @ + 1, !.attempts = 0, !.dead = FALSE]

\* Whatever the outcome, pending work becomes due: now, or after the idle time.
Scheduled(s) ==
    IF s.pending = 0 THEN s
    ELSE [s EXCEPT !.due = IF s.pending >= RunThreshold THEN "now" ELSE "later"]

FinishRun(status) ==
    /\ ~retired /\ ~Blocked /\ Len(outcome) < MaxRuns
    /\ outcome' = Append(outcome, status)
    /\ state' = Scheduled(IF status = "succeeded" THEN Counted(state) ELSE state)
    /\ UNCHANGED <<retired, consolidator, consolidated, mishaps>>

\* Archiving makes the pending work due and takes it away from whoever has claimed it.
ReplaceThread ==
    /\ ~retired /\ ~Blocked /\ outcome # <<>>
    /\ retired' = TRUE
    /\ state' = IF state.pending = 0 THEN state
                ELSE [state EXCEPT !.due = "now", !.attempts = 0, !.dead = FALSE,
                                   !.claim = NoWorker, !.lapsed = FALSE]
    /\ UNCHANGED <<outcome, consolidator, consolidated, mishaps>>

\* A restart archives every thread that was used and interrupts what was unfinished; the
\* row is not touched.
RecoverAfterRestart ==
    /\ ~retired
    /\ \/ Blocked /\ outcome' = [outcome EXCEPT ![Len(outcome)] = "interrupted"]
       \/ ~Blocked /\ Len(outcome) < MaxRuns /\ outcome' = Append(outcome, "interrupted")
       \/ ~Blocked /\ outcome # <<>> /\ outcome' = outcome
    /\ retired' = TRUE
    /\ UNCHANGED <<state, consolidator, consolidated, mishaps>>

\* A late cancel writes "cancelling" over the newest run's "succeeded".
Reopen ==
    /\ ~retired /\ Succeeded(Len(outcome))
    /\ outcome' = [outcome EXCEPT ![Len(outcome)] = "cancelling"]
    /\ UNCHANGED <<retired, state, consolidator, consolidated, mishaps>>

-----------------------------------------------------------------------------
(***************************************************************************)
(* Time, and what an operator or a crash does.                             *)
(***************************************************************************)
BecomeDue ==
    /\ state.due = "later"
    /\ state' = [state EXCEPT !.due = "now"]
    /\ UNCHANGED <<outcome, retired, consolidator, consolidated, mishaps>>

\* The lease runs out: at any time if its worker is gone, and while it still works.
LeaseLapses ==
    /\ state.claim # NoWorker /\ ~state.lapsed
    /\ LET gone == consolidator[state.claim].phase = "idle"
       IN  /\ gone \/ mishaps > 0
           /\ mishaps' = IF gone THEN mishaps ELSE mishaps - 1
    /\ state' = [state EXCEPT !.lapsed = TRUE]
    /\ UNCHANGED <<outcome, retired, consolidator, consolidated>>

WorkerCrashes(w) ==
    /\ mishaps > 0 /\ consolidator[w].phase # "idle"
    /\ mishaps' = mishaps - 1
    /\ consolidator' = [consolidator EXCEPT ![w] = AtRest]
    /\ UNCHANGED <<outcome, retired, state, consolidated>>

\* --requeue-thread
Requeue ==
    /\ mishaps > 0 /\ state.pending > 0
    /\ mishaps' = mishaps - 1
    /\ state' = [state EXCEPT !.attempts = 0, !.dead = FALSE, !.claim = NoWorker,
                              !.lapsed = FALSE, !.due = "now"]
    /\ UNCHANGED <<outcome, retired, consolidator, consolidated>>

-----------------------------------------------------------------------------
(***************************************************************************)
(* run_once, one transaction or await at a time.                           *)
(***************************************************************************)
Claimable == /\ state.pending > 0 /\ state.due = "now" /\ ~state.dead
             /\ state.claim = NoWorker \/ state.lapsed

Claim(w) ==
    /\ consolidator[w].phase = "idle" /\ Claimable
    /\ state' = [state EXCEPT !.claim = w, !.lapsed = FALSE]
    /\ consolidator' = [consolidator EXCEPT ![w] = [AtRest EXCEPT !.phase = "claimed",
                                                                  !.upto = state.cursor]]
    /\ UNCHANGED <<outcome, retired, consolidated, mishaps>>

\* The oldest successful runs behind the cursor that was read with the claim, a
\* threshold of them at most.
WindowAfter(c) ==
    {i \in DOMAIN outcome :
        /\ i > c /\ Succeeded(i)
        /\ Cardinality({j \in DOMAIN outcome : j > c /\ j < i /\ Succeeded(j)}) < RunThreshold}

Window(w) ==
    /\ consolidator[w].phase = "claimed"
    /\ LET runs == WindowAfter(consolidator[w].upto)
       IN  consolidator' = [consolidator EXCEPT ![w] =
               IF runs = {} THEN [@ EXCEPT !.phase = "processed"]
               ELSE [phase |-> "window", runs |-> runs,
                     upto |-> CHOOSE i \in runs : \A j \in runs : j <= i]]
    /\ UNCHANGED <<outcome, retired, state, consolidated, mishaps>>

\* manager.process commits its actions; the count is capped at 2.
Process(w) ==
    /\ consolidator[w].phase = "window"
    /\ consolidated' = [i \in 1..MaxRuns |->
            IF i \in consolidator[w].runs /\ consolidated[i] < 2 THEN consolidated[i] + 1
            ELSE consolidated[i]]
    /\ consolidator' = [consolidator EXCEPT ![w].phase = "processed"]
    /\ UNCHANGED <<outcome, retired, state, mishaps>>

\* Faulty variant: a claim that was lost is completed all the same.
HoldsClaimAlways(w) == TRUE
HoldsClaim(w) == state.claim = w

Released(s) == [s EXCEPT !.claim = NoWorker, !.lapsed = FALSE]

\* Faulty variant: the cursor jumps to the newest message instead of the window's end.
AdvancedToNewest(s, job) ==
    [s EXCEPT !.cursor = Len(outcome),
              !.pending = IF job.runs = {} \/ Cardinality(job.runs) >= @ THEN 0
                          ELSE @ - Cardinality(job.runs)]

\* Nothing was pending after all, or the runs of the window are subtracted.
Advanced(s, job) ==
    [s EXCEPT !.cursor = IF job.upto > @ THEN job.upto ELSE @,
              !.pending = IF job.runs = {} \/ Cardinality(job.runs) >= @ THEN 0
                          ELSE @ - Cardinality(job.runs)]

Complete(w) ==
    /\ consolidator[w].phase = "processed"
    /\ LET next == Advanced(Released(state), consolidator[w])
       IN  state' = IF ~HoldsClaim(w) THEN state
                    ELSE [next EXCEPT !.attempts = 0,
                                      !.due = IF next.pending > 0 THEN "now" ELSE "none"]
    /\ consolidator' = [consolidator EXCEPT ![w] = AtRest]
    /\ UNCHANGED <<outcome, retired, consolidated, mishaps>>

\* Faulty variant: a failed row keeps no due time although it may be tried again.
RetriedNever(s) == [s EXCEPT !.attempts = @ + 1, !.due = "none",
                             !.dead = s.attempts + 1 > RetryLimit]

\* After the last delay the row is dead-lettered and waits for an operator or a new run.
Retried(s) == [s EXCEPT !.attempts = @ + 1,
                        !.due = IF s.attempts + 1 > RetryLimit THEN "none" ELSE "later",
                        !.dead = s.attempts + 1 > RetryLimit]

\* Any await of run_once may raise, the transaction of _complete included.
Fail(w) ==
    /\ consolidator[w].phase # "idle"
    /\ state' = IF HoldsClaim(w) THEN Retried(Released(state)) ELSE state
    /\ consolidator' = [consolidator EXCEPT ![w] = AtRest]
    /\ UNCHANGED <<outcome, retired, consolidated, mishaps>>

RunOnce(w) == Claim(w) \/ Window(w) \/ Process(w) \/ Complete(w) \/ Fail(w)

ConNext ==
    \/ \E status \in {"succeeded", "failed"} : FinishRun(status)
    \/ ReplaceThread \/ RecoverAfterRestart \/ Reopen
    \/ BecomeDue \/ LeaseLapses \/ Requeue
    \/ \E w \in Worker : RunOnce(w) \/ WorkerCrashes(w)

\* The workers poll for ever and clocks advance; nothing makes a call succeed.
ConFairness ==
    /\ WF_conVars(BecomeDue) /\ WF_conVars(LeaseLapses)
    /\ \A w \in Worker : WF_conVars(RunOnce(w))

ConSpec == ConInit /\ [][ConNext]_conVars /\ ConFairness

-----------------------------------------------------------------------------
\* Pending work is never forgotten: the counter covers every successful run behind the
\* cursor, and while it is positive the row is due, claimed or dead-lettered (finish_run,
\* replace_thread, _complete and _fail each write these columns).
NothingForgotten ==
    /\ Cardinality(Unread) <= state.pending
    /\ state.pending > 0 => state.due # "none" \/ state.dead

\* A stale snapshot never moves the cursor over messages that were not consolidated
\* (docs/long-term-memory-v2.md:63): whatever lies before the cursor has been processed.
CursorBehindWork == \A i \in 1..state.cursor : Succeeded(i) => consolidated[i] > 0

\* Every successful run is consolidated in the end, across crashes, lost leases and
\* archiving, unless its row is dead-lettered or the run is reopened.
RunsConsolidated ==
    \A i \in 1..MaxRuns :
        Succeeded(i) ~> (consolidated[i] > 0 \/ state.dead \/ ~Succeeded(i))
=============================================================================
