---------------------------- MODULE WorkerProofs -----------------------------
(***************************************************************************)
(* Proofs about the workers that need no request, for any number of them,  *)
(* of crashes and of lapsed leases.                                        *)
(*                                                                         *)
(* The consolidation: NothingForgotten and CursorBehindWork are not        *)
(* inductive, they depend on what a worker knows between its transactions; *)
(* ConInvariant adds it.                                                   *)
(*                                                                         *)
(* The price worker: an item is bought once a day because nothing is       *)
(* observed of it between the look at its observations and the purchase    *)
(* (NothingYet).                                                           *)
(*                                                                         *)
(* The memory service and its outbox: a transaction makes at most one      *)
(* version of an entry and announces it (Versioned), and an event that is  *)
(* being published is its publisher's own.  The projection catches up with *)
(* a single publisher, because whatever it has read too early is covered   *)
(* by a newer event that is still to come (CaughtUp).                      *)
(***************************************************************************)
EXTENDS MCBackground, FiniteSetTheorems, SequenceTheorems, WellFoundedInduction, TLAPS

\* The thread gets no further runs.
Closing == Blocked \/ retired

\* The row agrees with a thread of n runs; a dead-lettered row is claimed by nobody, and a
\* row that has used its delays is dead-lettered.
RowFits(s, n) ==
    /\ s \in [pending : 0..n, cursor : 0..n, due : {"none", "later", "now"},
              claim : Worker \cup {NoWorker}, lapsed : BOOLEAN,
              attempts : 0..(RetryLimit + 1), dead : BOOLEAN]
    /\ s.claim # NoWorker => ~s.dead
    /\ s.attempts > RetryLimit => s.dead

JobsFit(jobs, n) ==
    jobs \in [Worker -> [phase : {"idle", "claimed", "window", "processed"},
                         runs : SUBSET (1..n), upto : 0..n]]

OutcomeFits(o) ==
    /\ o \in Seq({"succeeded", "failed", "interrupted", "cancelling"})
    /\ Len(o) <= MaxRuns

ConTypes ==
    /\ OutcomeFits(outcome) /\ RowFits(state, Len(outcome))
    /\ JobsFit(consolidator, Len(outcome))
    /\ retired \in BOOLEAN /\ consolidated \in [1..MaxRuns -> 0..2]
    /\ mishaps \in 0..MaxMishaps

\* Whatever lies before the end of a window has been processed or is in the window.
WindowsRead ==
    \A w \in Worker, i \in 1..MaxRuns :
        i <= consolidator[w].upto /\ Succeeded(i) =>
            \/ consolidated[i] > 0
            \/ consolidator[w].phase = "window" /\ i \in consolidator[w].runs

\* The counter is exact until the newest run is reopened or the thread is archived.
CounterFits ==
    /\ Cardinality(Unread) <= state.pending
    /\ state.pending > Cardinality(Unread) => Closing

\* A worker that holds the claim knows the cursor, and its window is the oldest part of what
\* is unread.
ClaimFits(w) ==
    LET job == consolidator[w]
    IN  /\ job.phase # "idle" => state.pending > 0
        /\ job.phase = "claimed" => job.upto = state.cursor /\ job.runs = {}
        /\ job.phase \in {"window", "processed"} =>
            /\ \A i \in job.runs : state.cursor < i /\ i <= job.upto
            /\ \A i \in Unread : i <= job.upto => i \in job.runs
            /\ Cardinality(Unread \cup job.runs) <= state.pending
            /\ ~Closing => job.runs \subseteq Unread
            /\ job.runs = {} => Unread = {} /\ Closing

PendingIsDue == state.pending > 0 => state.due # "none" \/ state.dead

ClaimsFit == \A w \in Worker : state.claim = w => ClaimFits(w)

ConInvariant ==
    ConTypes /\ CursorBehindWork /\ WindowsRead /\ CounterFits /\ PendingIsDue /\ ClaimsFit

-----------------------------------------------------------------------------
\* The end of a window is its newest run.
LEMMA NewestOf ==
    ASSUME NEW n \in Nat, NEW S \in SUBSET (1..n), S # {}
    PROVE  \E i \in S : \A j \in S : j <= i
<1> DEFINE T == {n - i : i \in S}
<1>1. T \subseteq Nat /\ T # {}
    <2>1. \A i \in S : i \in 1..n /\ n - i \in Nat
        OBVIOUS
    <2>2. PICK i \in S : TRUE
        OBVIOUS
    <2>3. n - i \in T
        OBVIOUS
    <2> QED BY <2>1, <2>3
<1>2. PICK x \in T : \A y \in T : ~(<<y, x>> \in OpToRel(<, Nat))
    BY <1>1, NatLessThanWellFounded, WFMin
<1>3. \A y \in T : ~(y < x)
    BY <1>1, <1>2 DEF OpToRel
<1>4. PICK i \in S : x = n - i
    OBVIOUS
<1>5. \A j \in S : j <= i
    BY <1>3, <1>4
<1> QED BY <1>5

\* A nonempty set of runs has an oldest one.
LEMMA OldestOf ==
    ASSUME NEW S \in SUBSET Nat, S # {}
    PROVE  \E i \in S : \A j \in S : i <= j
<1>2. PICK x \in S : \A y \in S : ~(<<y, x>> \in OpToRel(<, Nat))
    BY NatLessThanWellFounded, WFMin
<1>3. \A y \in S : ~(y < x)
    BY <1>2 DEF OpToRel
<1> QED BY <1>3

\* What Window reads: the runs lie behind the cursor, at most RunThreshold of them; every
\* successful run up to the newest of them is among them, and there is none only if no run
\* behind the cursor was successful.
LEMMA WindowIsOldest ==
    ASSUME ConTypes, NEW c \in Nat
    PROVE  /\ WindowAfter(c) \subseteq {i \in DOMAIN outcome : i > c /\ Succeeded(i)}
           /\ \A i \in WindowAfter(c), j \in DOMAIN outcome :
                  j > c /\ j <= i /\ Succeeded(j) => j \in WindowAfter(c)
           /\ WindowAfter(c) = {} => \A j \in DOMAIN outcome : ~(j > c /\ Succeeded(j))
<1>0. DOMAIN outcome = 1..Len(outcome) /\ Len(outcome) \in Nat
    BY DEF ConTypes, OutcomeFits
<1> DEFINE Before(i) == {j \in DOMAIN outcome : j > c /\ j < i /\ Succeeded(j)}
<1>1. \A i : IsFiniteSet(Before(i)) /\ Cardinality(Before(i)) \in Nat
    <2> SUFFICES ASSUME NEW i PROVE IsFiniteSet(Before(i)) /\ Cardinality(Before(i)) \in Nat
        OBVIOUS
    <2>1. Before(i) \subseteq 1..Len(outcome)
        BY <1>0
    <2>2. IsFiniteSet(1..Len(outcome))
        BY <1>0, FS_Interval
    <2> HIDE DEF Before
    <2> QED BY <2>1, <2>2, FS_Subset, FS_CardinalityType
<1>2. WindowAfter(c) = {i \in DOMAIN outcome :
                            i > c /\ Succeeded(i) /\ Cardinality(Before(i)) < RunThreshold}
    BY DEF WindowAfter
<1>3. ASSUME NEW i \in WindowAfter(c), NEW j \in DOMAIN outcome, j > c, j <= i, Succeeded(j)
      PROVE  j \in WindowAfter(c)
    <2>1. Before(j) \subseteq Before(i)
        BY <1>0, <1>2, <1>3
    <2>2. Cardinality(Before(j)) <= Cardinality(Before(i))
        BY <2>1, <1>1, FS_Subset
    <2> HIDE DEF Before
    <2>3. Cardinality(Before(i)) < RunThreshold
        BY <1>2
    <2>4. Cardinality(Before(j)) < RunThreshold
        BY <2>2, <2>3, <1>1, ConAssumption
    <2> QED BY <2>4, <1>2, <1>3
<1>4. ASSUME NEW j \in DOMAIN outcome, j > c, Succeeded(j)
      PROVE  WindowAfter(c) # {}
    <2> DEFINE S == {i \in DOMAIN outcome : i > c /\ Succeeded(i)}
    <2>1. S # {} /\ S \in SUBSET Nat
        BY <1>0, <1>4
    <2>2. PICK i \in S : \A k \in S : i <= k
        BY <2>1, OldestOf
    <2>3. Before(i) = {}
        BY <2>1, <2>2
    <2>4. Cardinality(Before(i)) < RunThreshold
        BY <2>3, FS_EmptySet, ConAssumption
    <2> QED BY <1>2, <2>2, <2>4
<1>5. WindowAfter(c) \subseteq {i \in DOMAIN outcome : i > c /\ Succeeded(i)}
    BY <1>2
<1> HIDE DEF Before
<1> QED BY <1>3, <1>4, <1>5
-----------------------------------------------------------------------------
\* The sharper types imply those that the runs check.
LEMMA TypesHold == ConTypes => ConTypeOK
<1> SUFFICES ASSUME ConTypes PROVE ConTypeOK
    OBVIOUS
<1>1. Len(outcome) \in Nat /\ Len(outcome) <= MaxRuns
    BY DEF ConTypes, OutcomeFits
<1>2. 0..Len(outcome) \subseteq 0..MaxRuns /\ 1..Len(outcome) \subseteq 1..MaxRuns
    BY <1>1, ConAssumption
<1>3. state \in [pending : 0..MaxRuns, cursor : 0..MaxRuns, due : {"none", "later", "now"},
                  claim : Worker \cup {NoWorker}, lapsed : BOOLEAN,
                  attempts : 0..(RetryLimit + 1), dead : BOOLEAN]
    BY <1>2 DEF ConTypes, RowFits
<1>4. consolidator \in [Worker -> [phase : {"idle", "claimed", "window", "processed"},
                                   runs : SUBSET (1..MaxRuns), upto : 0..MaxRuns]]
    BY <1>2 DEF ConTypes, JobsFit
<1> QED BY <1>1, <1>3, <1>4 DEF ConTypes, ConTypeOK, OutcomeFits

\* A run more, counted or not: finish_run's update of the row.
LEMMA RowGrows ==
    ASSUME NEW n \in Nat, NEW s, RowFits(s, n)
    PROVE  RowFits(s, n + 1) /\ RowFits(Counted(s), n + 1) /\ Counted(s).pending = s.pending + 1
           /\ Counted(s).cursor = s.cursor /\ Counted(s).claim = s.claim
<1>1. s.pending + 1 \in 0..(n+1) /\ 0..n \subseteq 0..(n+1)
    BY DEF RowFits
<1>2. RowFits(s, n + 1)
    BY <1>1 DEF RowFits
<1>3. RowFits(Counted(s), n + 1)
    <2>1. PICK p \in 0..(n+1) : p = s.pending + 1
        BY <1>1
    <2>2. Counted(s) = [s EXCEPT !.pending = p, !.attempts = 0, !.dead = FALSE]
        BY <2>1 DEF Counted, RowFits
    <2>3. ~(0 > RetryLimit) /\ 0 \in 0..(RetryLimit + 1)
        BY ConAssumption
    <2> QED BY <1>1, <2>2, <2>3 DEF RowFits
<1>4. Counted(s).pending = s.pending + 1 /\ Counted(s).cursor = s.cursor
         /\ Counted(s).claim = s.claim
    BY DEF RowFits, Counted
<1> QED BY <1>2, <1>3, <1>4

\* Pending work becomes due, and nothing else changes.
LEMMA RowScheduled ==
    ASSUME NEW n \in Nat, NEW s, RowFits(s, n)
    PROVE  /\ RowFits(Scheduled(s), n) /\ Scheduled(s).pending = s.pending
           /\ Scheduled(s).cursor = s.cursor /\ Scheduled(s).claim = s.claim
           /\ s.pending > 0 => Scheduled(s).due # "none"
<1>1. CASE s.pending = 0
    BY <1>1 DEF Scheduled
<1>2. CASE s.pending # 0
    <2>1. Scheduled(s) = [s EXCEPT !.due = IF s.pending >= RunThreshold THEN "now" ELSE "later"]
        BY <1>2 DEF Scheduled
    <2> QED BY <2>1 DEF RowFits
<1> QED BY <1>1, <1>2

\* A claim is given up, and nothing else changes.
LEMMA RowReleased ==
    ASSUME NEW n \in Nat, NEW s, RowFits(s, n)
    PROVE  /\ RowFits(Released(s), n) /\ Released(s).claim = NoWorker
           /\ Released(s).pending = s.pending /\ Released(s).cursor = s.cursor
           /\ Released(s).attempts = s.attempts /\ Released(s).dead = s.dead
    BY DEF RowFits, Released

\* What _complete writes: the cursor moves to the end of the window, and the window is
\* subtracted from the counter.
LEMMA RowAdvanced ==
    ASSUME NEW n \in Nat, NEW s, RowFits(s, n), NEW job, job.upto \in 0..n,
           job.runs \in SUBSET (1..n)
    PROVE  LET next == Advanced(s, job)
           IN  /\ RowFits(next, n) /\ next.claim = s.claim
               /\ next.cursor = (IF job.upto > s.cursor THEN job.upto ELSE s.cursor)
               /\ next.pending = IF job.runs = {} \/ Cardinality(job.runs) >= s.pending THEN 0
                                 ELSE s.pending - Cardinality(job.runs)
<1>1. IsFiniteSet(job.runs)
    <2>1. IsFiniteSet(1..n)
        BY FS_Interval
    <2> QED BY <2>1, FS_Subset
<1>2. PICK k \in Nat : k = Cardinality(job.runs)
    BY <1>1, FS_CardinalityType
<1>3. PICK p \in 0..n : p = IF job.runs = {} \/ k >= s.pending THEN 0 ELSE s.pending - k
    BY <1>2 DEF RowFits
<1>4. PICK c \in 0..n : c = IF job.upto > s.cursor THEN job.upto ELSE s.cursor
    BY DEF RowFits
<1>5. Advanced(s, job) = [s EXCEPT !.cursor = c, !.pending = p]
    BY <1>2, <1>3, <1>4 DEF Advanced, RowFits
<1> QED BY <1>2, <1>3, <1>4, <1>5 DEF RowFits

\* What _fail writes: the row is due again or dead-lettered.
LEMMA RowRetried ==
    ASSUME NEW n \in Nat, NEW s, RowFits(s, n), ~s.dead, s.claim = NoWorker
    PROVE  /\ RowFits(Retried(s), n) /\ Retried(s).claim = NoWorker
           /\ Retried(s).pending = s.pending /\ Retried(s).cursor = s.cursor
           /\ Retried(s).due # "none" \/ Retried(s).dead
<1>1. s.attempts <= RetryLimit /\ s.attempts \in Nat
    BY ConAssumption DEF RowFits
<1>2. PICK a \in 0..(RetryLimit + 1) : a = s.attempts + 1
    BY <1>1, ConAssumption
<1>3. CASE a > RetryLimit
    <2>1. (s.attempts + 1 > RetryLimit) = TRUE
        BY <1>2, <1>3
    <2>2. Retried(s) = [s EXCEPT !.attempts = a, !.due = "none", !.dead = TRUE]
        BY <1>2, <2>1 DEF Retried, RowFits
    <2> QED BY <1>2, <2>2 DEF RowFits
<1>4. CASE ~(a > RetryLimit)
    <2>1. (s.attempts + 1 > RetryLimit) = FALSE
        BY <1>2, <1>4
    <2>2. Retried(s) = [s EXCEPT !.attempts = a, !.due = "later", !.dead = FALSE]
        BY <1>2, <2>1 DEF Retried, RowFits
    <2> QED BY <1>2, <1>4, <2>2 DEF RowFits
<1> QED BY <1>3, <1>4

-----------------------------------------------------------------------------
\* Every step keeps the types.
LEMMA FinishKeepsTypes ==
    ASSUME ConTypes, NEW status \in {"succeeded", "failed"}, FinishRun(status)
    PROVE  ConTypes'
<1>1. PICK n \in Nat : n = Len(outcome)
    BY DEF ConTypes, OutcomeFits
<1>2. Len(outcome') = n + 1 /\ OutcomeFits(outcome')
    BY <1>1, ConAssumption DEF ConTypes, OutcomeFits, FinishRun
<1>3. RowFits(state', n + 1)
    BY <1>1, RowGrows, RowScheduled DEF FinishRun, ConTypes
<1>4. JobsFit(consolidator, n + 1)
    <2>1. 0..n \subseteq 0..(n+1) /\ 1..n \subseteq 1..(n+1)
        BY <1>1
    <2>2. JobsFit(consolidator, n)
        BY <1>1 DEF ConTypes
    <2> QED BY <2>1, <2>2 DEF JobsFit
<1> QED BY <1>2, <1>3, <1>4 DEF ConTypes, FinishRun

\* A restart appends an interrupted run, ends the newest or leaves the runs alone.
LEMMA RecoveryKeepsTypes ==
    ASSUME ConTypes, RecoverAfterRestart
    PROVE  ConTypes'
<1>1. PICK n \in Nat : n = Len(outcome)
    BY DEF ConTypes, OutcomeFits
<1>2. CASE Len(outcome') = n + 1 /\ OutcomeFits(outcome')
    <2>1. 0..n \subseteq 0..(n+1) /\ 1..n \subseteq 1..(n+1)
        BY <1>1
    <2>2. JobsFit(consolidator, n) /\ RowFits(state, n)
        BY <1>1 DEF ConTypes
    <2>3. JobsFit(consolidator, n + 1)
        BY <2>1, <2>2 DEF JobsFit
    <2>4. RowFits(state, n + 1)
        BY <1>1, <2>2, RowGrows
    <2> QED BY <1>2, <2>3, <2>4 DEF ConTypes, RecoverAfterRestart
<1>3. CASE Len(outcome') = n /\ OutcomeFits(outcome')
    BY <1>1, <1>3 DEF ConTypes, RecoverAfterRestart
<1>4. \/ Len(outcome') = n + 1 /\ OutcomeFits(outcome')
      \/ Len(outcome') = n /\ OutcomeFits(outcome')
    BY <1>1, ConAssumption, SMTT(15) DEF RecoverAfterRestart, Blocked, ConTypes, OutcomeFits
<1> QED BY <1>2, <1>3, <1>4

\* A step that touches neither the runs nor what was processed.
LEMMA RowStepKeepsTypes ==
    ASSUME ConTypes, UNCHANGED outcome, retired' \in BOOLEAN, RowFits(state', Len(outcome)),
           JobsFit(consolidator', Len(outcome)), UNCHANGED consolidated,
           mishaps' \in 0..MaxMishaps
    PROVE  ConTypes'
    BY DEF ConTypes

\* All steps together.
LEMMA ConTypesStep ==
    ASSUME ConTypes, [ConNext]_conVars
    PROVE  ConTypes'
<1>1. PICK n \in Nat : n = Len(outcome)
    BY DEF ConTypes, OutcomeFits
<1>2. RowFits(state, n) /\ JobsFit(consolidator, n)
    BY <1>1 DEF ConTypes
<1>3. mishaps \in 0..MaxMishaps /\ (mishaps > 0 => mishaps - 1 \in 0..MaxMishaps)
    BY ConAssumption DEF ConTypes
<1>0. ~(0 > RetryLimit) /\ 0 \in 0..(RetryLimit + 1)
    BY ConAssumption
<1>4. ASSUME NEW w \in Worker, consolidator' = [consolidator EXCEPT ![w] = AtRest]
      PROVE  JobsFit(consolidator', n)
    BY <1>1, <1>2, <1>4 DEF JobsFit, AtRest
<1>5. CASE ReplaceThread
    <2>1. RowFits(state', n)
        BY <1>0, <1>2, <1>5 DEF ReplaceThread, RowFits
    <2> QED BY <1>1, <1>2, <1>5, <2>1, RowStepKeepsTypes DEF ReplaceThread, ConTypes
<1>6. CASE Reopen
    <2>1. OutcomeFits(outcome') /\ Len(outcome') = n
        BY <1>1, <1>6 DEF Reopen, Succeeded, ConTypes, OutcomeFits
    <2> QED BY <1>1, <1>6, <2>1 DEF Reopen, ConTypes
<1>7. CASE BecomeDue
    BY <1>1, <1>2, <1>7, RowStepKeepsTypes DEF BecomeDue, RowFits, ConTypes
<1>8. CASE LeaseLapses
    BY <1>1, <1>2, <1>3, <1>8, RowStepKeepsTypes DEF LeaseLapses, RowFits, ConTypes
<1>9. CASE Requeue
    <2>1. RowFits(state', n)
        BY <1>0, <1>2, <1>9 DEF Requeue, RowFits
    <2> QED BY <1>1, <1>2, <1>3, <1>9, <2>1, RowStepKeepsTypes DEF Requeue, ConTypes
<1>10. ASSUME NEW w \in Worker, Claim(w) PROVE ConTypes'
    <2>1. RowFits(state', n)
        BY <1>2, <1>10 DEF Claim, Claimable, RowFits
    <2>2. JobsFit(consolidator', n)
        BY <1>1, <1>2, <1>10 DEF Claim, AtRest, JobsFit, RowFits
    <2> QED BY <1>1, <1>10, <2>1, <2>2, RowStepKeepsTypes DEF Claim, ConTypes
<1>11. ASSUME NEW w \in Worker, Window(w) PROVE ConTypes'
    <2> DEFINE runs == WindowAfter(consolidator[w].upto)
    <2>1. consolidator[w].upto \in Nat
        BY <1>2 DEF JobsFit
    <2>2. runs \subseteq 1..n
        BY <1>1, <2>1, WindowIsOldest DEF ConTypes, OutcomeFits
    <2>3. JobsFit(consolidator', n)
        <3>1. CASE runs = {}
            BY <1>2, <1>11, <3>1 DEF Window, JobsFit
        <3>2. CASE runs # {}
            <4>1. PICK newest \in runs : newest = CHOOSE i \in runs : \A j \in runs : j <= i
                BY <1>1, <2>2, <3>2, NewestOf
            <4>2. consolidator' = [consolidator EXCEPT ![w] =
                      [phase |-> "window", runs |-> runs, upto |-> newest]]
                BY <1>11, <3>2, <4>1 DEF Window
            <4>3. newest \in 0..n
                BY <2>2, <4>1
            <4> HIDE DEF runs
            <4> QED BY <1>2, <2>2, <4>2, <4>3 DEF JobsFit
        <3> QED BY <3>1, <3>2
    <2> QED BY <1>1, <1>2, <1>11, <2>3, RowStepKeepsTypes DEF Window, ConTypes
<1>12. ASSUME NEW w \in Worker, Process(w) PROVE ConTypes'
    <2>1. consolidated' \in [1..MaxRuns -> 0..2]
        BY <1>12 DEF Process, ConTypes
    <2>2. JobsFit(consolidator', n)
        BY <1>2, <1>12 DEF Process, JobsFit
    <2> QED BY <1>1, <1>2, <1>12, <2>1, <2>2 DEF Process, ConTypes
<1>13. ASSUME NEW w \in Worker, Complete(w) PROVE ConTypes'
    <2>1. consolidator[w].upto \in 0..n /\ consolidator[w].runs \in SUBSET (1..n)
        BY <1>2 DEF JobsFit
    <2> DEFINE next == Advanced(Released(state), consolidator[w])
    <2>2. RowFits(next, n) /\ next.claim = NoWorker
        BY <1>2, <2>1, RowReleased, RowAdvanced
    <2>3. RowFits(state', n)
        <3>1. CASE ~HoldsClaim(w)
            BY <1>2, <1>13, <3>1 DEF Complete
        <3>2. CASE HoldsClaim(w)
            <4>1. state' = [next EXCEPT !.attempts = 0,
                                        !.due = IF next.pending > 0 THEN "now" ELSE "none"]
                BY <1>13, <3>2 DEF Complete
            <4> HIDE DEF next
            <4> QED BY <1>0, <2>2, <4>1 DEF RowFits
        <3> QED BY <3>1, <3>2
    <2> QED BY <1>1, <1>4, <1>13, <2>3, RowStepKeepsTypes DEF Complete, ConTypes
<1>14. ASSUME NEW w \in Worker, Fail(w) PROVE ConTypes'
    <2>1. RowFits(state', n)
        <3>1. CASE ~HoldsClaim(w)
            BY <1>2, <1>14, <3>1 DEF Fail
        <3>2. CASE HoldsClaim(w)
            <4>1. ~state.dead
                BY <1>2, <3>2, ConAssumption DEF HoldsClaim, RowFits
            <4> QED BY <1>2, <1>14, <3>2, <4>1, RowReleased, RowRetried DEF Fail
        <3> QED BY <3>1, <3>2
    <2> QED BY <1>1, <1>4, <1>14, <2>1, RowStepKeepsTypes DEF Fail, ConTypes
<1>15. ASSUME NEW w \in Worker, WorkerCrashes(w) PROVE ConTypes'
    BY <1>1, <1>2, <1>3, <1>4, <1>15, RowStepKeepsTypes DEF WorkerCrashes, ConTypes
<1>16. CASE UNCHANGED conVars
    BY <1>16 DEF conVars, ConTypes
<1> QED BY <1>5, <1>6, <1>7, <1>8, <1>9, <1>10, <1>11, <1>12, <1>13, <1>14, <1>15, <1>16,
        FinishKeepsTypes, RecoveryKeepsTypes DEF ConNext, RunOnce

-----------------------------------------------------------------------------
(***************************************************************************)
(* The cursor stays behind the work.                                       *)
(***************************************************************************)
\* A run becomes successful only as the newest one.
LEMMA SuccessIsAppended ==
    ASSUME ConTypes, [ConNext]_conVars
    PROVE  \A i \in DOMAIN outcome : Succeeded(i)' => Succeeded(i)
<1> SUFFICES ASSUME NEW i \in DOMAIN outcome, Succeeded(i)' PROVE Succeeded(i)
    OBVIOUS
<1>1. outcome \in Seq({"succeeded", "failed", "interrupted", "cancelling"})
    BY DEF ConTypes, OutcomeFits
<1>2. CASE UNCHANGED outcome
    BY <1>2 DEF Succeeded
<1>3. ASSUME NEW status, outcome' = Append(outcome, status) PROVE Succeeded(i)
    BY <1>1, <1>3 DEF Succeeded
<1>4. ASSUME NEW status, outcome' = [outcome EXCEPT ![Len(outcome)] = status],
             status # "succeeded"
      PROVE  Succeeded(i)
    BY <1>1, <1>4 DEF Succeeded
<1>5. \/ UNCHANGED outcome
      \/ \E status \in {"succeeded", "failed", "interrupted"} : outcome' = Append(outcome, status)
      \/ \E status \in {"interrupted", "cancelling"} :
             outcome' = [outcome EXCEPT ![Len(outcome)] = status]
    BY DEF ConNext, RunOnce, FinishRun, ReplaceThread, RecoverAfterRestart, Reopen, BecomeDue,
       LeaseLapses, Requeue, Claim, Window, Process, Complete, Fail, WorkerCrashes, conVars
<1> QED BY <1>2, <1>3, <1>4, <1>5

\* Every run behind the end of a window that its worker has processed was processed.
LEMMA UptoProcessed ==
    ASSUME ConTypes, WindowsRead, NEW w \in Worker, consolidator[w].phase # "window",
           NEW i \in 1..consolidator[w].upto, Succeeded(i)
    PROVE  consolidated[i] > 0
<1>1. consolidator[w].upto \in 0..Len(outcome) /\ Len(outcome) \in Nat /\ Len(outcome) <= MaxRuns
    BY DEF ConTypes, JobsFit, OutcomeFits
<1>2. i \in 1..MaxRuns /\ i <= consolidator[w].upto
    BY <1>1, ConAssumption
<1> QED BY <1>2 DEF WindowsRead

\* The cursor moves only to the end of a window that was processed.
LEMMA CursorMoves ==
    ASSUME ConTypes, [ConNext]_conVars
    PROVE  \/ state'.cursor = state.cursor
           \/ \E w \in Worker : /\ consolidator[w].phase = "processed"
                                /\ state'.cursor = consolidator[w].upto
                                /\ UNCHANGED consolidated
<1>1. RowFits(state, Len(outcome)) /\ Len(outcome) \in Nat
    BY DEF ConTypes, OutcomeFits
<1>2. ASSUME NEW status, FinishRun(status) PROVE state'.cursor = state.cursor
    BY <1>1, <1>2, RowGrows, RowScheduled DEF FinishRun
<1>3. CASE UNCHANGED state
    BY <1>3
<1>4. CASE ReplaceThread \/ BecomeDue \/ LeaseLapses \/ Requeue
    BY <1>1, <1>4 DEF RowFits, ReplaceThread, BecomeDue, LeaseLapses, Requeue
<1>5. ASSUME NEW w \in Worker, Claim(w) PROVE state'.cursor = state.cursor
    BY <1>1, <1>5 DEF RowFits, Claim
<1>6. ASSUME NEW w \in Worker, Fail(w) PROVE state'.cursor = state.cursor
    <2>1. HoldsClaim(w) => ~state.dead
        BY <1>1, ConAssumption DEF HoldsClaim, RowFits
    <2> QED BY <1>1, <1>6, <2>1, RowReleased, RowRetried DEF Fail
<1>7. ASSUME NEW w \in Worker, Complete(w)
      PROVE  state'.cursor = state.cursor \/ state'.cursor = consolidator[w].upto
    <2>1. consolidator[w].upto \in 0..Len(outcome)
             /\ consolidator[w].runs \in SUBSET (1..Len(outcome))
        BY DEF ConTypes, JobsFit
    <2> DEFINE next == Advanced(Released(state), consolidator[w])
    <2>2. /\ RowFits(next, Len(outcome))
          /\ next.cursor = state.cursor \/ next.cursor = consolidator[w].upto
        BY <1>1, <2>1, RowReleased, RowAdvanced
    <2>3. CASE HoldsClaim(w)
        <3>1. state' = [next EXCEPT !.attempts = 0,
                                    !.due = IF next.pending > 0 THEN "now" ELSE "none"]
            BY <1>7, <2>3 DEF Complete
        <3> HIDE DEF next
        <3> QED BY <2>2, <3>1 DEF RowFits
    <2>4. CASE ~HoldsClaim(w)
        BY <1>7, <2>4 DEF Complete
    <2> QED BY <2>3, <2>4
<1>8. ASSUME NEW w \in Worker, Complete(w)
      PROVE  consolidator[w].phase = "processed" /\ UNCHANGED consolidated
    BY <1>8 DEF Complete
<1>9. RecoverAfterRestart \/ Reopen \/ (\E w \in Worker : Window(w) \/ Process(w)
          \/ WorkerCrashes(w)) \/ UNCHANGED conVars => UNCHANGED state
    BY DEF RecoverAfterRestart, Reopen, Window, Process, WorkerCrashes, conVars
<1> QED BY <1>2, <1>3, <1>4, <1>5, <1>6, <1>7, <1>8, <1>9 DEF ConNext, RunOnce

\* What lies before a cursor, or before the end of a window, has been processed or is about
\* to be.
LEMMA CursorStep ==
    ASSUME ConTypes, CursorBehindWork, WindowsRead, [ConNext]_conVars
    PROVE  CursorBehindWork' /\ WindowsRead'
<1>1. PICK n \in Nat : n = Len(outcome) /\ DOMAIN outcome = 1..n /\ n <= MaxRuns
    BY DEF ConTypes, OutcomeFits
<1>2. /\ state.cursor \in 0..n
      /\ \A w \in Worker : consolidator[w].upto \in 0..n /\ consolidator[w].runs \subseteq 1..n
      /\ DOMAIN consolidator = Worker
    BY <1>1 DEF ConTypes, RowFits, JobsFit
<1>3. \A i \in 1..n : Succeeded(i)' => Succeeded(i)
    BY <1>1, SuccessIsAppended
<1>4. \A i \in 1..MaxRuns : consolidated[i] > 0 => consolidated'[i] > 0
    <2>1. ASSUME NEW w \in Worker, Process(w)
          PROVE  \A i \in 1..MaxRuns : consolidated[i] > 0 => consolidated'[i] > 0
        BY <2>1 DEF Process, ConTypes
    <2>2. ~(\E w \in Worker : Process(w)) => UNCHANGED consolidated
        BY DEF ConNext, RunOnce, FinishRun, ReplaceThread, RecoverAfterRestart, Reopen,
           BecomeDue, LeaseLapses, Requeue, Claim, Window, Complete, Fail, WorkerCrashes, conVars
    <2> QED BY <2>1, <2>2
<1>5. CursorBehindWork'
    <2> SUFFICES ASSUME NEW i \in 1..state'.cursor, Succeeded(i)' PROVE consolidated'[i] > 0
        BY DEF CursorBehindWork
    <2>1. CASE state'.cursor = state.cursor
        <3>1. i \in 1..n /\ i \in 1..MaxRuns /\ i \in 1..state.cursor
            BY <1>1, <1>2, <2>1, ConAssumption
        <3> QED BY <1>3, <1>4, <3>1 DEF CursorBehindWork
    <2>2. ASSUME NEW w \in Worker, consolidator[w].phase = "processed",
                 state'.cursor = consolidator[w].upto
          PROVE  consolidated'[i] > 0
        <3>1. i \in 1..n /\ i \in 1..MaxRuns /\ i \in 1..consolidator[w].upto
            BY <1>1, <1>2, <2>2, ConAssumption
        <3> QED BY <1>3, <1>4, <2>2, <3>1, UptoProcessed
    <2> QED BY <2>1, <2>2, CursorMoves
<1>6. WindowsRead'
    <2> SUFFICES ASSUME NEW w \in Worker, NEW i \in 1..MaxRuns,
                        i <= consolidator'[w].upto, Succeeded(i)'
                 PROVE  \/ consolidated'[i] > 0
                        \/ consolidator'[w].phase = "window" /\ i \in consolidator'[w].runs
        BY DEF WindowsRead
    <2>1. CASE consolidator'[w] = consolidator[w]
        <3>1. i \in 1..n /\ i <= consolidator[w].upto
            BY <1>2, <2>1
        <3> QED BY <1>3, <1>4, <2>1, <3>1 DEF WindowsRead
    <2>2. CASE consolidator'[w].upto = 0
        BY <2>2
    <2>3. CASE Claim(w)
        <3>1. consolidator'[w].upto = state.cursor
            BY <1>2, <2>3 DEF Claim, AtRest
        <3>2. i \in 1..state.cursor /\ i \in 1..n
            BY <1>2, <3>1
        <3> QED BY <1>3, <1>4, <3>2 DEF CursorBehindWork
    <2>4. CASE Window(w)
        <3> DEFINE c == consolidator[w].upto
                   runs == WindowAfter(c)
        <3>1. UNCHANGED <<outcome, consolidated>> /\ consolidator[w].phase = "claimed"
            BY <2>4 DEF Window
        <3>2. CASE i <= c
            <4>1. i \in 1..c /\ Succeeded(i)
                BY <1>2, <1>3, <3>2
            <4> QED BY <1>4, <3>1, <4>1, UptoProcessed
        <3>3. CASE i > c
            <4>1. runs # {}
                BY <1>2, <2>4, <3>3 DEF Window
            <4>2. runs \subseteq 1..n
                BY <1>1, <1>2, WindowIsOldest
            <4>3. PICK newest \in runs :
                      /\ newest = CHOOSE k \in runs : \A j \in runs : j <= k
                      /\ \A j \in runs : j <= newest
                BY <4>1, <4>2, NewestOf
            <4>4. consolidator'[w] = [phase |-> "window", runs |-> runs, upto |-> newest]
                BY <1>2, <2>4, <4>1, <4>3 DEF Window
            <4>5. i \in DOMAIN outcome /\ Succeeded(i) /\ i <= newest
                <5>1. i <= newest
                    BY <4>4
                <5>2. i \in 1..n
                    BY <4>2, <4>3, <5>1
                <5> QED BY <1>1, <1>3, <5>1, <5>2
            <4>6. i \in runs
                BY <1>2, <3>3, <4>3, <4>5, WindowIsOldest
            <4> QED BY <4>4, <4>6
        <3> QED BY <1>2, <3>2, <3>3
    <2>5. CASE Process(w)
        <3>1. /\ consolidator'[w].upto = consolidator[w].upto
              /\ UNCHANGED outcome
            BY <1>2, <2>5 DEF Process
        <3>2. consolidated[i] > 0 \/ i \in consolidator[w].runs
            <4>1. i <= consolidator[w].upto /\ Succeeded(i)
                BY <1>2, <1>3, <3>1
            <4> QED BY <4>1 DEF WindowsRead
        <3>3. consolidated[i] \in 0..2
            BY DEF ConTypes
        <3>4. i \in consolidator[w].runs => consolidated'[i] > 0
            BY <2>5, <3>3 DEF Process
        <3> QED BY <1>4, <3>2, <3>4
    <2>6. \/ consolidator'[w] = consolidator[w] \/ consolidator'[w].upto = 0
          \/ Claim(w) \/ Window(w) \/ Process(w)
        <3>1. ASSUME NEW o \in Worker, consolidator' = [consolidator EXCEPT ![o] = AtRest]
              PROVE  consolidator'[w] = consolidator[w] \/ consolidator'[w].upto = 0
            BY <1>2, <3>1 DEF AtRest
        <3>2. ASSUME NEW o \in Worker, Complete(o) \/ Fail(o) \/ WorkerCrashes(o)
              PROVE  consolidator'[w] = consolidator[w] \/ consolidator'[w].upto = 0
            BY <3>1, <3>2 DEF Complete, Fail, WorkerCrashes
        <3>3. ASSUME NEW o \in Worker, Claim(o) \/ Window(o) \/ Process(o), o # w
              PROVE  consolidator'[w] = consolidator[w]
            BY <1>2, <3>3 DEF Claim, Window, Process
        <3>4. (\E status : FinishRun(status)) \/ ReplaceThread \/ RecoverAfterRestart \/ Reopen
                  \/ BecomeDue \/ LeaseLapses \/ Requeue \/ UNCHANGED conVars
              => UNCHANGED consolidator
            BY DEF FinishRun, ReplaceThread, RecoverAfterRestart, Reopen, BecomeDue,
               LeaseLapses, Requeue, conVars
        <3> QED BY <3>2, <3>3, <3>4 DEF ConNext, RunOnce
    <2> QED BY <2>1, <2>2, <2>3, <2>4, <2>5, <2>6
<1> QED BY <1>5, <1>6

-----------------------------------------------------------------------------
(***************************************************************************)
(* The counter covers what is unread.                                      *)
(***************************************************************************)
\* The unread runs are a finite set, so that they can be counted.
LEMMA RunsAreFinite ==
    ASSUME NEW n \in Nat, NEW S \in SUBSET (1..n)
    PROVE  IsFiniteSet(S) /\ Cardinality(S) \in Nat
<1>1. IsFiniteSet(1..n)
    BY FS_Interval
<1> QED BY <1>1, FS_Subset, FS_CardinalityType

\* Their number.
LEMMA UnreadType ==
    ASSUME ConTypes
    PROVE  /\ Unread \subseteq 1..Len(outcome) /\ Len(outcome) \in Nat
           /\ IsFiniteSet(Unread) /\ Cardinality(Unread) \in Nat
           /\ \A i \in Unread : i > state.cursor
           /\ state.pending \in 0..Len(outcome) /\ state.cursor \in 0..Len(outcome)
<1>1. Unread \subseteq 1..Len(outcome) /\ Len(outcome) \in Nat
    BY DEF ConTypes, OutcomeFits, Unread
<1> QED BY <1>1, RunsAreFinite DEF ConTypes, RowFits, Unread

\* A step that leaves the messages, the counter and the cursor alone keeps what a worker knows.
LEMMA ClaimKept ==
    ASSUME NEW w \in Worker, ClaimFits(w), consolidator'[w] = consolidator[w],
           UNCHANGED Unread, state'.pending = state.pending, state'.cursor = state.cursor,
           Closing' \/ ~Closing
    PROVE  ClaimFits(w)'
    BY DEF ClaimFits

\* The counter stays right where the row's counter and the unread runs stay.
LEMMA CounterKept ==
    ASSUME CounterFits, UNCHANGED Unread, state'.pending = state.pending, Closing' \/ ~Closing
    PROVE  CounterFits'
    BY DEF CounterFits

\* The unread runs stay where the runs and the cursor stay.
LEMMA UnreadKept ==
    ASSUME UNCHANGED outcome, state'.cursor = state.cursor
    PROVE  UNCHANGED Unread /\ (Blocked' <=> Blocked)
    BY DEF Unread, Blocked

\* A success is counted.
LEMMA FinishCounted ==
    ASSUME ConTypes, CounterFits, ClaimsFit, NEW status \in {"succeeded", "failed"},
           FinishRun(status)
    PROVE  CounterFits' /\ ClaimsFit' /\ PendingIsDue'
<1>1. PICK n \in Nat : n = Len(outcome) /\ DOMAIN outcome = 1..n
    BY DEF ConTypes, OutcomeFits
<1>2. PICK p \in Nat : p = state.pending
    BY <1>1, UnreadType
<1>3. ~Closing /\ ~Closing'
    BY <1>1 DEF FinishRun, Closing, Blocked, ConTypes, OutcomeFits
<1>4. /\ state'.cursor = state.cursor /\ state'.claim = state.claim
      /\ state'.pending = IF status = "succeeded" THEN p + 1 ELSE p
      /\ PendingIsDue'
    <2>1. RowFits(state, n) /\ RowFits(state, n + 1)
        BY <1>1, RowGrows DEF ConTypes
    <2> QED BY <1>1, <1>2, <2>1, RowGrows, RowScheduled DEF FinishRun, PendingIsDue
<1>5. state.cursor <= n /\ state.cursor \in Nat /\ Unread \subseteq 1..n /\ n + 1 \notin Unread
    BY <1>1, UnreadType
<1>6. Unread' = IF status = "succeeded" THEN Unread \cup {n + 1} ELSE Unread
    <2>1. outcome' = Append(outcome, status)
        BY DEF FinishRun
    <2>2. /\ DOMAIN outcome' = 1..(n+1) /\ outcome'[n+1] = status
          /\ \A i \in 1..n : outcome'[i] = outcome[i]
        BY <1>1, <2>1 DEF ConTypes, OutcomeFits
    <2>3. \A i : i \in 1..(n+1) <=> i \in 1..n \/ i = n + 1
        BY <1>1
    <2> QED BY <1>1, <1>4, <1>5, <2>2, <2>3 DEF Unread
<1>7. Cardinality(Unread) = p
    <2>1. Cardinality(Unread) \in Nat /\ Cardinality(Unread) <= p
        BY <1>2, UnreadType DEF CounterFits
    <2>2. ~(p > Cardinality(Unread))
        BY <1>2, <1>3 DEF CounterFits
    <2> QED BY <2>1, <2>2
<1>8. Cardinality(Unread') = state'.pending
    <2>1. IsFiniteSet(Unread)
        BY UnreadType
    <2>2. Cardinality(Unread \cup {n + 1}) = Cardinality(Unread) + 1
        BY <1>5, <2>1, FS_AddElement
    <2> QED BY <1>4, <1>6, <1>7, <2>2
<1>9. CounterFits'
    BY <1>2, <1>4, <1>8 DEF CounterFits
<1>10. ASSUME NEW w \in Worker, state'.claim = w PROVE ClaimFits(w)'
    <2> DEFINE job == consolidator[w]
    <2>1. ClaimFits(w) /\ consolidator'[w] = job
        BY <1>4, <1>10 DEF ClaimsFit, FinishRun
    <2>2. job.upto \in 0..n /\ job.runs \in SUBSET (1..n)
        BY <1>1 DEF ConTypes, JobsFit
    <2>3. state'.pending >= p
        BY <1>2, <1>4
    <2>4. CASE job.phase \in {"window", "processed"}
        <3>1. /\ \A i \in job.runs : state.cursor < i /\ i <= job.upto
              /\ \A i \in Unread : i <= job.upto => i \in job.runs
              /\ job.runs \subseteq Unread /\ job.runs # {} /\ p > 0
            BY <1>2, <1>3, <2>1, <2>4 DEF ClaimFits
        <3>2. \A i \in Unread' : i <= job.upto => i \in job.runs
            BY <1>6, <2>2, <3>1
        <3>3. job.runs \subseteq Unread'
            BY <1>6, <3>1
        <3>4. Unread' \cup job.runs = Unread'
            BY <3>3
        <3> HIDE DEF job
        <3>5. Cardinality(Unread' \cup job.runs) <= state'.pending
            <4>1. Cardinality(Unread' \cup job.runs) = state'.pending
                BY <1>8, <3>4
            <4>2. state'.pending \in Nat
                BY <1>2, <1>4
            <4> QED BY <4>1, <4>2
        <3>6. state'.pending > 0
            BY <1>2, <2>3, <3>1, <1>4
        <3> QED BY <1>4, <2>1, <2>4, <3>1, <3>2, <3>3, <3>5, <3>6 DEF ClaimFits
    <2>5. CASE job.phase \notin {"window", "processed"}
        BY <1>2, <1>4, <2>1, <2>3, <2>5 DEF ClaimFits
    <2> QED BY <2>4, <2>5
<1> QED BY <1>4, <1>9, <1>10 DEF ClaimsFit

\* A reopened run leaves the window and the unread runs, and the thread gets no further ones.
LEMMA ReopenCounted ==
    ASSUME ConTypes, CounterFits, ClaimsFit, Reopen
    PROVE  CounterFits' /\ ClaimsFit'
<1>1. PICK n \in Nat : n = Len(outcome) /\ DOMAIN outcome = 1..n
    BY DEF ConTypes, OutcomeFits
<1>2. UNCHANGED <<retired, state, consolidator>>
    BY DEF Reopen
<1>3. /\ n \in 1..n /\ DOMAIN outcome' = 1..n /\ outcome'[n] = "cancelling" /\ Len(outcome') = n
      /\ \A i \in 1..n : i # n => outcome'[i] = outcome[i]
    BY <1>1 DEF Reopen, Succeeded, ConTypes, OutcomeFits
<1>4. Closing'
    BY <1>3 DEF Closing, Blocked
<1>5. Unread' = Unread \ {n}
    BY <1>1, <1>2, <1>3 DEF Unread
<1>6. ASSUME NEW S \in SUBSET (1..n)
      PROVE  Cardinality(Unread' \cup S) <= Cardinality(Unread \cup S)
    <2>1. Unread \cup S \in SUBSET (1..n)
        BY <1>1, UnreadType
    <2>2. Unread' \cup S \subseteq Unread \cup S
        BY <1>5
    <2> QED BY <2>1, <2>2, RunsAreFinite, FS_Subset
<1>7. Cardinality(Unread') <= Cardinality(Unread) /\ Cardinality(Unread') \in Nat
    BY <1>1, <1>5, UnreadType, FS_Subset, RunsAreFinite
<1>8. CounterFits'
    BY <1>1, <1>2, <1>4, <1>7, UnreadType DEF CounterFits
<1>9. ASSUME NEW w \in Worker, state'.claim = w PROVE ClaimFits(w)'
    <2> DEFINE runs == consolidator[w].runs
    <2>1. ClaimFits(w)
        BY <1>2, <1>9 DEF ClaimsFit
    <2>2. runs \in SUBSET (1..n)
        BY <1>1 DEF ConTypes, JobsFit
    <2>3. /\ Cardinality(Unread' \cup runs) <= Cardinality(Unread \cup runs)
          /\ Cardinality(Unread' \cup runs) \in Nat /\ Cardinality(Unread \cup runs) \in Nat
        <3>1. Unread \cup runs \in SUBSET (1..n) /\ Unread' \cup runs \in SUBSET (1..n)
            BY <1>1, <1>5, <2>2, UnreadType
        <3> HIDE DEF runs
        <3> QED BY <1>6, <2>2, <3>1, RunsAreFinite
    <2>4. state.pending \in Nat
        BY <1>1, UnreadType
    <2>5. Cardinality(Unread \cup runs) <= state.pending =>
              Cardinality(Unread' \cup runs) <= state.pending
        <3> HIDE DEF runs
        <3> QED BY <2>3, <2>4
    <2> QED BY <1>2, <1>4, <1>5, <2>1, <2>5 DEF ClaimFits
<1> QED BY <1>8, <1>9 DEF ClaimsFit

\* What is read in a window is the oldest part of what is unread.
LEMMA WindowCounted ==
    ASSUME ConTypes, CounterFits, NEW w \in Worker, Window(w), state.claim = w, ClaimFits(w)
    PROVE  ClaimFits(w)'
<1>1. PICK n \in Nat : n = Len(outcome) /\ DOMAIN outcome = 1..n
    BY DEF ConTypes, OutcomeFits
<1>2. UNCHANGED <<outcome, retired, state>> /\ consolidator[w].phase = "claimed"
    BY DEF Window
<1>3. UNCHANGED Unread /\ (Closing' <=> Closing)
    BY <1>2 DEF Unread, Closing, Blocked
<1>4. consolidator[w].upto = state.cursor /\ state.pending > 0 /\ state.cursor \in Nat
    BY <1>1, <1>2, UnreadType DEF ClaimFits
<1> DEFINE runs == WindowAfter(consolidator[w].upto)
<1>5. DOMAIN consolidator = Worker
    BY DEF ConTypes, JobsFit
<1>6. runs \subseteq Unread
    BY <1>4, WindowIsOldest DEF Unread, Succeeded
<1>7. CASE runs = {}
    <2>1. Unread = {}
        BY <1>4, <1>7, WindowIsOldest DEF Unread, Succeeded
    <2>2. Closing
        BY <1>4, <2>1, FS_EmptySet DEF CounterFits
    <2>3. consolidator'[w] = [consolidator[w] EXCEPT !.phase = "processed"]
        BY <1>5, <1>7 DEF Window
    <2>4. consolidator'[w].phase = "processed" /\ consolidator'[w].runs = consolidator[w].runs
          /\ consolidator'[w].upto = consolidator[w].upto
        BY <2>3 DEF ConTypes, JobsFit
    <2>5. consolidator[w].runs = {}
        BY <1>2 DEF ClaimFits
    <2>6. Unread \cup consolidator[w].runs = {} /\ Cardinality({}) = 0
        BY <2>1, <2>5, FS_EmptySet
    <2>7. Cardinality(Unread \cup consolidator[w].runs) <= state.pending
        <3>1. state.pending >= 0
            BY <1>1, UnreadType
        <3>2. Cardinality(Unread \cup consolidator[w].runs) = 0
            BY <2>6
        <3> QED BY <3>1, <3>2
    <2>8. /\ Unread' = {} /\ Closing' /\ state'.pending > 0
          /\ consolidator'[w].runs = {} /\ consolidator'[w].phase = "processed"
        BY <1>2, <1>3, <1>4, <2>1, <2>2, <2>4, <2>5
    <2>9. Cardinality(Unread' \cup consolidator'[w].runs) <= state'.pending
        BY <1>2, <2>1, <2>5, <2>7, <2>8
    <2> QED BY <2>8, <2>9 DEF ClaimFits
<1>8. CASE runs # {}
    <2>1. runs \in SUBSET (1..n)
        BY <1>1, <1>6, UnreadType
    <2>2. PICK newest \in runs : /\ newest = CHOOSE i \in runs : \A j \in runs : j <= i
                                 /\ \A j \in runs : j <= newest
        BY <1>8, <2>1, NewestOf
    <2>3. consolidator'[w] = [phase |-> "window", runs |-> runs, upto |-> newest]
        BY <1>5, <1>8, <2>2 DEF Window
    <2>4. \A i \in Unread : i <= newest => i \in runs
        BY <1>4, <2>2, WindowIsOldest DEF Unread, Succeeded
    <2>5. \A i \in runs : state.cursor < i /\ i <= newest
        BY <1>1, <1>6, <2>1, <2>2, UnreadType
    <2>6. Unread \cup runs = Unread
        BY <1>6
    <2>7. Cardinality(Unread \cup runs) <= state.pending
        BY <2>6 DEF CounterFits
    <2> HIDE DEF runs
    <2> QED BY <1>2, <1>3, <1>4, <1>6, <1>8, <2>3, <2>4, <2>5, <2>7 DEF ClaimFits
<1> QED BY <1>7, <1>8

\* The claim's window is subtracted; nothing unread is left out of the count.
LEMMA CompleteCounted ==
    ASSUME ConTypes, CounterFits, NEW w \in Worker, Complete(w), HoldsClaim(w), ClaimFits(w)
    PROVE  CounterFits' /\ ClaimsFit' /\ PendingIsDue'
<1> DEFINE job == consolidator[w]
           rest == Advanced(Released(state), job)
<1>1. PICK n \in Nat : n = Len(outcome) /\ DOMAIN outcome = 1..n
    BY DEF ConTypes, OutcomeFits
<1>2. job.upto \in 0..n /\ job.runs \in SUBSET (1..n) /\ job.phase = "processed"
    BY <1>1 DEF ConTypes, JobsFit, Complete
<1>3. PICK k \in Nat : k = Cardinality(job.runs)
    BY <1>2, RunsAreFinite
<1>4. PICK p \in Nat : p = state.pending
    BY <1>1, UnreadType
<1>5. /\ RowFits(rest, n) /\ rest.claim = NoWorker
      /\ rest.cursor = (IF job.upto > state.cursor THEN job.upto ELSE state.cursor)
      /\ rest.pending = IF job.runs = {} \/ k >= p THEN 0 ELSE p - k
    <2>1. RowFits(state, n)
        BY <1>1 DEF ConTypes
    <2>2. RowFits(Released(state), n) /\ Released(state).claim = NoWorker
             /\ Released(state).pending = p /\ Released(state).cursor = state.cursor
        BY <1>4, <2>1, RowReleased
    <2> QED BY <1>2, <1>3, <2>2, RowAdvanced
<1>6. /\ state'.claim = NoWorker /\ state'.cursor = rest.cursor /\ state'.pending = rest.pending
      /\ PendingIsDue'
    <2>1. state' = [rest EXCEPT !.attempts = 0,
                                !.due = IF rest.pending > 0 THEN "now" ELSE "none"]
        BY DEF Complete
    <2> HIDE DEF rest
    <2>2. state'.claim = NoWorker /\ state'.cursor = rest.cursor /\ state'.pending = rest.pending
             /\ state'.due = IF rest.pending > 0 THEN "now" ELSE "none"
        BY <1>5, <2>1 DEF RowFits
    <2> QED BY <2>2 DEF PendingIsDue
<1>7. ClaimsFit'
    BY <1>6, ConAssumption DEF ClaimsFit
<1>8. UNCHANGED <<outcome, retired>> /\ (Closing' <=> Closing)
    BY DEF Complete, Closing, Blocked
<1>9. state.cursor \in Nat /\ Unread \in SUBSET (1..n) /\ Unread' \in SUBSET (1..n)
    BY <1>1, <1>8, UnreadType DEF Unread
<1>10. Unread' = {i \in Unread : i > job.upto}
    <2> HIDE DEF rest
    <2> SUFFICES ASSUME NEW i \in 1..n PROVE i > state'.cursor <=> i > state.cursor /\ i > job.upto
        BY <1>1, <1>8 DEF Unread
    <2> HIDE DEF job
    <2> QED BY <1>2, <1>5, <1>6, <1>9
<1>11. /\ \A i \in job.runs : i <= job.upto
       /\ \A i \in Unread : i <= job.upto => i \in job.runs
       /\ Cardinality(Unread \cup job.runs) <= p
       /\ ~Closing => job.runs \subseteq Unread
       /\ job.runs = {} => Unread = {} /\ Closing
    BY <1>2, <1>4 DEF ClaimFits
<1> HIDE DEF job, rest
<1>12. Unread' \cup job.runs \subseteq Unread \cup job.runs /\ Unread' \cap job.runs = {}
    BY <1>2, <1>9, <1>10, <1>11
<1>13. PICK u \in Nat : u = Cardinality(Unread')
    BY <1>9, RunsAreFinite
<1>14. Cardinality(Unread' \cup job.runs) = u + k
    <2>1. IsFiniteSet(Unread') /\ IsFiniteSet(job.runs)
        BY <1>2, <1>9, RunsAreFinite
    <2>2. Cardinality(Unread' \cup job.runs) =
              Cardinality(Unread') + Cardinality(job.runs) - Cardinality(Unread' \cap job.runs)
        BY <2>1, FS_Union
    <2>3. Cardinality(Unread' \cap job.runs) = 0
        BY <1>12, FS_EmptySet
    <2> QED BY <1>3, <1>13, <2>2, <2>3
<1>15. u + k <= p
    <2>1. Unread \cup job.runs \in SUBSET (1..n)
        BY <1>2, <1>9
    <2>2. IsFiniteSet(Unread \cup job.runs) /\ Cardinality(Unread \cup job.runs) \in Nat
        BY <2>1, RunsAreFinite
    <2>3. u + k <= Cardinality(Unread \cup job.runs)
        BY <1>12, <1>14, <2>2, FS_Subset
    <2> QED BY <1>11, <2>2, <2>3
<1>16. ~Closing => Unread = Unread' \cup job.runs
    <2> SUFFICES ASSUME ~Closing PROVE Unread = Unread' \cup job.runs
        OBVIOUS
    <2>1. \A i \in Unread : i > job.upto \/ i <= job.upto
        BY <1>2, <1>9
    <2>2. \A i \in Unread : i \in Unread' \/ i \in job.runs
        BY <1>10, <1>11, <2>1
    <2>3. Unread' \subseteq Unread /\ job.runs \subseteq Unread
        BY <1>10, <1>11
    <2> QED BY <2>2, <2>3
<1>17. CASE job.runs = {}
    <2>1. Unread' = {} /\ Closing /\ state'.pending = 0
        BY <1>5, <1>6, <1>10, <1>11, <1>17
    <2>2. Cardinality(Unread') = 0
        BY <2>1, FS_EmptySet
    <2> QED BY <1>6, <1>7, <1>8, <2>1, <2>2 DEF CounterFits
<1>18. CASE job.runs # {}
    <2>1. state'.pending = p - k
        BY <1>5, <1>6, <1>15, <1>18
    <2>2. ~Closing => p = u + k
        <3> SUFFICES ASSUME ~Closing PROVE p = u + k
            OBVIOUS
        <3>1. Cardinality(Unread) = u + k
            BY <1>14, <1>16
        <3>2. ~(p > Cardinality(Unread))
            BY <1>4 DEF CounterFits
        <3> QED BY <1>15, <3>1, <3>2
    <2>3. u <= p - k /\ (p - k > u => Closing)
        BY <1>15, <2>2
    <2>4. Cardinality(Unread') <= state'.pending
        BY <1>13, <2>1, <2>3
    <2>5. state'.pending > Cardinality(Unread') => Closing
        BY <1>13, <2>1, <2>3
    <2> QED BY <1>6, <1>7, <1>8, <2>4, <2>5 DEF CounterFits
<1> QED BY <1>6, <1>7, <1>17, <1>18

\* Every step keeps the counter, the due time and what the holder of the claim knows.
LEMMA CounterStep ==
    ASSUME ConTypes, CounterFits, ClaimsFit, PendingIsDue, [ConNext]_conVars
    PROVE  CounterFits' /\ ClaimsFit' /\ PendingIsDue'
<1>1. PICK n \in Nat : n = Len(outcome) /\ DOMAIN outcome = 1..n
    BY DEF ConTypes, OutcomeFits
<1>2. /\ RowFits(state, n) /\ DOMAIN consolidator = Worker
      /\ state \in [pending : 0..n, cursor : 0..n, due : {"none", "later", "now"},
                    claim : Worker \cup {NoWorker}, lapsed : BOOLEAN,
                    attempts : 0..(RetryLimit + 1), dead : BOOLEAN]
    BY <1>1 DEF ConTypes, RowFits, JobsFit
\* A step that leaves the messages, the counter and the cursor alone, and the claims of the
\* others.
<1> DEFINE Quiet == /\ UNCHANGED Unread /\ (Closing' \/ ~Closing)
                    /\ state'.pending = state.pending /\ state'.cursor = state.cursor
<1>3. ASSUME Quiet, PendingIsDue',
             \A w \in Worker : state'.claim = w =>
                 \/ state.claim = w /\ consolidator'[w] = consolidator[w]
                 \/ ClaimFits(w)'
      PROVE  CounterFits' /\ ClaimsFit' /\ PendingIsDue'
    <2>1. CounterFits'
        BY <1>3, CounterKept
    <2>2. ClaimsFit'
        BY <1>3, ClaimKept DEF ClaimsFit
    <2> QED BY <1>3, <2>1, <2>2
<1>4. ASSUME NEW w \in Worker, consolidator'[w] = AtRest
      PROVE  ClaimFits(w)'
    BY <1>4 DEF ClaimFits, AtRest
<1>5. CASE ReplaceThread
    <2>1. Quiet
        BY <1>2, <1>5, UnreadKept DEF ReplaceThread, Closing
    <2>2. PendingIsDue'
        BY <1>2, <1>5 DEF ReplaceThread, PendingIsDue
    <2>3. state'.claim = state.claim \/ state'.claim = NoWorker
        BY <1>2, <1>5 DEF ReplaceThread
    <2> QED BY <1>3, <1>5, <2>1, <2>2, <2>3, ConAssumption DEF ReplaceThread
<1>6. CASE RecoverAfterRestart
    <2>1. UNCHANGED Unread
        <3>1. CASE UNCHANGED outcome
            BY <1>6, <3>1, UnreadKept DEF RecoverAfterRestart
        <3>2. CASE outcome' = Append(outcome, "interrupted")
            BY <1>1, <1>6, <3>2 DEF RecoverAfterRestart, Unread, ConTypes, OutcomeFits
        <3>3. CASE Blocked /\ outcome' = [outcome EXCEPT ![Len(outcome)] = "interrupted"]
            BY <1>1, <1>6, <3>3 DEF RecoverAfterRestart, Unread, Blocked, ConTypes, OutcomeFits
        <3> QED BY <1>6, <3>1, <3>2, <3>3 DEF RecoverAfterRestart
    <2>2. Closing' /\ UNCHANGED <<state, consolidator>>
        BY <1>6 DEF RecoverAfterRestart, Closing
    <2> QED BY <1>3, <2>1, <2>2 DEF PendingIsDue
<1>7. CASE Reopen
    BY <1>7, ReopenCounted DEF Reopen, PendingIsDue
<1>8. CASE BecomeDue \/ LeaseLapses
    <2>1. /\ state'.pending = state.pending /\ state'.cursor = state.cursor
          /\ state'.claim = state.claim /\ UNCHANGED <<outcome, retired, consolidator>>
          /\ state'.due = state.due \/ state'.due = "now"
          /\ state'.dead = state.dead
        BY <1>2, <1>8 DEF BecomeDue, LeaseLapses
    <2>2. Quiet
        BY <2>1, UnreadKept DEF Closing
    <2> QED BY <1>3, <2>1, <2>2 DEF PendingIsDue
<1>9. CASE Requeue
    <2>1. /\ state'.pending = state.pending /\ state'.cursor = state.cursor
          /\ state'.claim = NoWorker /\ UNCHANGED <<outcome, retired>> /\ state'.due = "now"
        BY <1>2, <1>9 DEF Requeue
    <2>2. Quiet
        BY <2>1, UnreadKept DEF Closing
    <2> QED BY <1>3, <2>1, <2>2, ConAssumption DEF PendingIsDue
<1>10. ASSUME NEW w \in Worker, Claim(w)
       PROVE  CounterFits' /\ ClaimsFit' /\ PendingIsDue'
    <2>1. /\ state'.pending = state.pending /\ state'.cursor = state.cursor
          /\ state'.claim = w /\ UNCHANGED <<outcome, retired>>
          /\ state'.due = state.due /\ state'.dead = state.dead /\ state.pending > 0
        BY <1>2, <1>10 DEF Claim, Claimable
    <2>2. consolidator'[w] = [phase |-> "claimed", runs |-> {}, upto |-> state.cursor]
        BY <1>2, <1>10 DEF Claim, AtRest
    <2>3. Quiet
        BY <2>1, UnreadKept DEF Closing
    <2>4. ClaimFits(w)'
        BY <2>1, <2>2 DEF ClaimFits
    <2> QED BY <1>3, <2>1, <2>3, <2>4 DEF PendingIsDue
<1>11. ASSUME NEW w \in Worker, Window(w) \/ Process(w)
       PROVE  CounterFits' /\ ClaimsFit' /\ PendingIsDue'
    <2>1. /\ UNCHANGED <<state, outcome, retired>>
          /\ \A o \in Worker \ {w} : consolidator'[o] = consolidator[o]
        BY <1>2, <1>11 DEF Window, Process
    <2>2. Quiet
        BY <2>1, UnreadKept DEF Closing
    <2>3. state.claim = w => ClaimFits(w)
        BY DEF ClaimsFit
    <2>4. ASSUME Process(w), ClaimFits(w) PROVE ClaimFits(w)'
        <3>1. /\ consolidator'[w].phase = "processed" /\ consolidator[w].phase = "window"
              /\ consolidator'[w].runs = consolidator[w].runs
              /\ consolidator'[w].upto = consolidator[w].upto
            BY <1>2, <2>4 DEF Process, ConTypes, JobsFit
        <3> QED BY <2>1, <2>2, <2>4, <3>1 DEF ClaimFits, Closing, Blocked
    <2>5. state.claim = w => ClaimFits(w)'
        BY <1>11, <2>3, <2>4, WindowCounted
    <2> QED BY <1>3, <2>1, <2>2, <2>5 DEF PendingIsDue
<1>12. ASSUME NEW w \in Worker, Complete(w)
       PROVE  CounterFits' /\ ClaimsFit' /\ PendingIsDue'
    <2>1. CASE HoldsClaim(w)
        BY <1>12, <2>1, CompleteCounted DEF ClaimsFit, HoldsClaim
    <2>2. CASE ~HoldsClaim(w)
        <3>1. /\ UNCHANGED <<state, outcome, retired>> /\ state.claim # w
              /\ \A o \in Worker \ {w} : consolidator'[o] = consolidator[o]
            BY <1>2, <1>12, <2>2 DEF Complete, HoldsClaim
        <3>2. Quiet
            BY <3>1, UnreadKept DEF Closing
        <3> QED BY <1>3, <3>1, <3>2 DEF PendingIsDue
    <2> QED BY <2>1, <2>2
<1>13. ASSUME NEW w \in Worker, Fail(w)
       PROVE  CounterFits' /\ ClaimsFit' /\ PendingIsDue'
    <2>1. /\ UNCHANGED <<outcome, retired>> /\ consolidator'[w] = AtRest
          /\ \A o \in Worker \ {w} : consolidator'[o] = consolidator[o]
        BY <1>2, <1>13 DEF Fail
    <2>2. /\ state'.pending = state.pending /\ state'.cursor = state.cursor
          /\ state'.claim = state.claim \/ state'.claim = NoWorker
          /\ PendingIsDue'
        <3>1. CASE HoldsClaim(w)
            <4>1. ~state.dead
                BY <1>2, <3>1, ConAssumption DEF HoldsClaim, RowFits
            <4> QED BY <1>2, <1>13, <3>1, <4>1, RowReleased, RowRetried DEF Fail, PendingIsDue
        <3>2. CASE ~HoldsClaim(w)
            BY <1>13, <3>2 DEF Fail, PendingIsDue
        <3> QED BY <3>1, <3>2
    <2>3. Quiet
        BY <2>1, <2>2, UnreadKept DEF Closing
    <2> QED BY <1>3, <1>4, <2>1, <2>2, <2>3, ConAssumption
<1>14. ASSUME NEW w \in Worker, WorkerCrashes(w)
       PROVE  CounterFits' /\ ClaimsFit' /\ PendingIsDue'
    <2>1. /\ UNCHANGED <<state, outcome, retired>> /\ consolidator'[w] = AtRest
          /\ \A o \in Worker \ {w} : consolidator'[o] = consolidator[o]
        BY <1>2, <1>14 DEF WorkerCrashes
    <2>2. Quiet
        BY <2>1, UnreadKept DEF Closing
    <2> QED BY <1>3, <1>4, <2>1, <2>2 DEF PendingIsDue
<1>15. CASE UNCHANGED conVars
    <2>1. UNCHANGED <<state, outcome, retired, consolidator>>
        BY <1>15 DEF conVars
    <2>2. Quiet
        BY <2>1, UnreadKept DEF Closing
    <2> QED BY <1>3, <2>1, <2>2 DEF PendingIsDue
<1> QED BY <1>5, <1>6, <1>7, <1>8, <1>9, <1>10, <1>11, <1>12, <1>13, <1>14, <1>15, FinishCounted
        DEF ConNext, RunOnce

\* The initial state.
LEMMA ConStarts == ConInit => ConInvariant
<1> SUFFICES ASSUME ConInit PROVE ConInvariant
    OBVIOUS
<1>1. /\ outcome = <<>> /\ Len(outcome) = 0 /\ DOMAIN outcome = {}
      /\ outcome \in Seq({"succeeded", "failed", "interrupted", "cancelling"})
    BY DEF ConInit
<1>2. OutcomeFits(outcome)
    BY <1>1, ConAssumption DEF OutcomeFits
<1>3. Unread = {} /\ Cardinality(Unread) = 0
    BY <1>1, FS_EmptySet DEF Unread
<1>4. RowFits(state, 0)
    BY ConAssumption DEF ConInit, RowFits
<1>5. JobsFit(consolidator, 0)
    BY DEF ConInit, JobsFit, AtRest
<1>6. mishaps \in 0..MaxMishaps
    BY ConAssumption DEF ConInit
<1>7. ConTypes
    <2>1. RowFits(state, Len(outcome)) /\ JobsFit(consolidator, Len(outcome))
        BY <1>1, <1>4, <1>5
    <2>2. consolidated \in [1..MaxRuns -> 0..2]
        BY DEF ConInit
    <2>3. retired \in BOOLEAN
        BY DEF ConInit
    <2> QED BY <1>2, <1>6, <2>1, <2>2, <2>3 DEF ConTypes
<1>8. CursorBehindWork /\ WindowsRead
    BY <1>1 DEF CursorBehindWork, WindowsRead, Succeeded
<1>9. state.pending = 0 /\ state.claim = NoWorker
    BY DEF ConInit
<1>10. CounterFits /\ PendingIsDue /\ ClaimsFit
    BY <1>3, <1>9, ConAssumption DEF CounterFits, PendingIsDue, ClaimsFit
<1> QED BY <1>7, <1>8, <1>10 DEF ConInvariant

\* The parts together are inductive.
THEOREM ConsolidationInvariance == ConSpec => []ConInvariant
<1>1. ConInvariant /\ [ConNext]_conVars => ConInvariant'
    BY ConTypesStep, CursorStep, CounterStep DEF ConInvariant
<1> QED BY <1>1, ConStarts, PTL DEF ConSpec

\* A row, a window and a thread keep their types: the counter never exceeds the runs of the
\* thread, and the cursor never passes its end (finish_run, _complete).
THEOREM ConsolidationTypes == ConSpec => []ConTypeOK
<1>1. ConInvariant => ConTypeOK
    BY TypesHold DEF ConInvariant
<1> QED BY <1>1, ConsolidationInvariance, PTL

\* Whatever the workers, their crashes and the leases they lose do, the cursor never passes a
\* successful run that the manager has not processed (_complete advances it to the window that
\* was read, never to what it finds).
THEOREM CursorNeverAhead == ConSpec => []CursorBehindWork
<1>1. ConInvariant => CursorBehindWork
    BY DEF ConInvariant
<1> QED BY <1>1, ConsolidationInvariance, PTL

\* The counter covers every successful run behind the cursor and keeps the row due or
\* dead-lettered: runs that finish while a window is processed, reopened runs and archived
\* threads are not subtracted with it (finish_run, replace_thread, _complete, _fail).
THEOREM WorkIsNeverForgotten == ConSpec => []NothingForgotten
<1>1. ConInvariant => NothingForgotten
    BY DEF ConInvariant, CounterFits, PendingIsDue, NothingForgotten
<1> QED BY <1>1, ConsolidationInvariance, PTL

-----------------------------------------------------------------------------
(***************************************************************************)
(* The price worker.                                                       *)
(***************************************************************************)
WishRow == [status : {"absent", "active", "inactive"}, next : 0..(LastDay + 7),
            leased : BOOLEAN, failures : 0..3]

\* A run that works has an item left and began today or earlier; the rows of runs left open
\* are those of the crashes and of the run that works.
RunFits ==
    /\ refresher.phase # "idle" => refresher.day <= today /\ Len(refresher.rows) > 0
    /\ openRuns + priceCrashes = IF refresher.phase = "idle" THEN MaxCrashes ELSE MaxCrashes + 1

\* Nothing is bought for a day to come, and while an item is being bought nothing has been
\* since the day its run began.
NothingYet ==
    /\ \A d \in Day : d > today => fetched[d] = 0
    /\ refresher.phase = "fetching" => \A d \in Day : d >= refresher.day => fetched[d] = 0

PriceInvariant == PriceTypeOK /\ RunFits /\ BoughtOncePerDay /\ NothingYet

\* What a run claims is a sequence of items.
LEMMA ClaimedRows ==
    ASSUME NEW S \in SUBSET Item, NEW rows \in SetToAllKPermutations(S)
    PROVE  rows \in Seq(Item)
<1>1. PICK s \in SUBSET S : rows \in SetToSeqs(s)
    BY DEF SetToAllKPermutations
<1>2. PICK n \in Nat : n = Cardinality(s)
    BY <1>1, PriceAssumption, FS_Subset, FS_CardinalityType
<1>3. rows \in [1..n -> Item]
    BY <1>1, <1>2 DEF SetToSeqs
<1> QED BY <1>2, <1>3

\* The initial state.
LEMMA PriceStarts == PriceInit => PriceInvariant
<1> SUFFICES ASSUME PriceInit PROVE PriceInvariant
    OBVIOUS
<1>1. 1 \in Day /\ 0 \in 0..(LastDay + 7) /\ <<>> \in Seq(Item)
    BY PriceAssumption DEF Day
<1>2. /\ openRuns \in 0..(MaxCrashes + 1) /\ priceCrashes \in 0..MaxCrashes
      /\ openRuns + priceCrashes = MaxCrashes
    BY PriceAssumption DEF PriceInit
<1>3. wish \in [Item -> [status : {"absent", "active", "inactive"},
                         next : 0..(LastDay + 7), leased : BOOLEAN, failures : 0..3]]
    BY <1>1 DEF PriceInit
<1>4. fetched \in [Day -> 0..2] /\ \A d \in Day : fetched[d] = 0
    BY DEF PriceInit
<1>5. /\ refresher \in [phase : {"idle", "checking", "fetching"}, day : Day, rows : Seq(Item)]
      /\ refresher.phase = "idle"
    BY <1>1 DEF PriceInit, Waiting
<1>6. today \in Day /\ hydrated \subseteq Day
    BY <1>1 DEF PriceInit
<1> QED BY <1>2, <1>3, <1>4, <1>5, <1>6
        DEF PriceInvariant, PriceTypeOK, RunFits, BoughtOncePerDay, NothingYet

\* The wishlist keeps its type, whoever writes the schedule of an item.
LEMMA WishTypes ==
    ASSUME PriceTypeOK, [PriceNext]_priceVars, refresher.phase # "idle" => Len(refresher.rows) > 0
    PROVE  wish' \in [Item -> WishRow]
<1>1. wish \in [Item -> WishRow]
    BY DEF PriceTypeOK, WishRow
<1>2. today \in 1..LastDay /\ LastDay \in Nat /\ refresher.day \in 1..LastDay
    BY PriceAssumption DEF PriceTypeOK, Day
<1>3. /\ today + 1 \in 0..(LastDay + 7) /\ today \in 0..(LastDay + 7)
      /\ refresher.day + 1 \in 0..(LastDay + 7)
    BY <1>2
<1>4. refresher.phase # "idle" => Head(refresher.rows) \in Item
    BY DEF PriceTypeOK
<1>5. ASSUME NEW i \in Item, AddWish(i) PROVE wish' \in [Item -> WishRow]
    BY <1>1, <1>3, <1>5 DEF AddWish, WishRow
<1>6. ASSUME NEW i \in Item, NEW s \in {"active", "inactive"}, UpdateItem(i, s)
      PROVE  wish' \in [Item -> WishRow]
    BY <1>1, <1>6 DEF UpdateItem, WishRow
<1>7. ASSUME NEW i \in Item, LeaseEnds(i) PROVE wish' \in [Item -> WishRow]
    BY <1>1, <1>7 DEF LeaseEnds, WishRow
<1>8. CASE StartRun
    <2>1. PICK rows : wish' = [i \in Item |-> IF i \in Range(rows) THEN Claimed(i) ELSE wish[i]]
        BY <1>8 DEF StartRun
    <2>2. \A i \in Item : Claimed(i) \in WishRow /\ wish[i] \in WishRow
        BY <1>1, <1>3 DEF Claimed, WishRow
    <2>3. \A i \in Item : wish'[i] \in WishRow
        <3>1. \A i \in Item : wish'[i] = Claimed(i) \/ wish'[i] = wish[i]
            BY <2>1
        <3> QED BY <2>2, <3>1
    <2>4. wish' = [i \in Item |-> wish'[i]]
        BY <2>1
    <2> QED BY <2>3, <2>4
<1>9. ASSUME NEW i \in Item, NEW d, d + 1 \in 0..(LastDay + 7), wish' = Checked(i, d)
      PROVE  wish' \in [Item -> WishRow]
    <2>1. PICK e \in 0..(LastDay + 7) : e = d + 1
        BY <1>9
    <2>2. PICK z \in 0..3 : z = 0
        OBVIOUS
    <2>3. wish' = [wish EXCEPT ![i] =
                      [wish[i] EXCEPT !.next = e, !.leased = FALSE, !.failures = z]]
        BY <1>1, <1>9, <2>1, <2>2 DEF Checked
    <2>4. [wish[i] EXCEPT !.next = e, !.leased = FALSE, !.failures = z] \in WishRow
        BY <1>1 DEF WishRow
    <2> QED BY <1>1, <2>3, <2>4
<1>10. CASE ReuseTodayObservation \/ StorePrice
    BY <1>3, <1>4, <1>9, <1>10 DEF ReuseTodayObservation, StorePrice
<1>11. CASE PriceFails
    <2>1. PICK i \in Item : i = Head(refresher.rows)
        BY <1>4, <1>11 DEF PriceFails
    <2>2. PICK n \in 1..3 : n = IF wish[i].failures < 3 THEN wish[i].failures + 1 ELSE 3
        BY <1>1 DEF WishRow
    <2>3. Backoff(n) \in 1..7
        <3>1. 2 ^ 1 = 2 /\ 2 ^ 2 = 4
            OBVIOUS
        <3>2. Backoff(1) = 2 /\ Backoff(2) = 4 /\ Backoff(3) = 7
            BY <3>1 DEF Backoff
        <3>3. n = 1 \/ n = 2 \/ n = 3
            BY <2>2
        <3> QED BY <3>2, <3>3
    <2>4. PICK d \in 0..(LastDay + 7) : d = today + Backoff(n)
        BY <1>2, <2>3
    <2>5. wish' = [wish EXCEPT ![i] =
                      [wish[i] EXCEPT !.failures = n, !.leased = FALSE, !.next = d]]
        BY <1>1, <1>11, <2>1, <2>2, <2>4 DEF PriceFails
    <2>6. [wish[i] EXCEPT !.failures = n, !.leased = FALSE, !.next = d] \in WishRow
        <3>1. n \in 0..3
            BY <2>2
        <3> QED BY <1>1, <2>4, <3>1 DEF WishRow
    <2> QED BY <1>1, <2>5, <2>6
<1>12. NextDay \/ Hydrate \/ AskProvider \/ RefresherCrashes \/ UNCHANGED priceVars
       => UNCHANGED wish
    BY DEF NextDay, Hydrate, AskProvider, RefresherCrashes, priceVars
<1> QED BY <1>1, <1>5, <1>6, <1>7, <1>8, <1>10, <1>11, <1>12 DEF PriceNext, Refresh

\* The next item of a batch, or the end of its run.
LEMMA Advances ==
    ASSUME PriceTypeOK, RunFits, refresher.phase # "idle", Advance, UNCHANGED priceCrashes
    PROVE  /\ refresher' \in [phase : {"idle", "checking"}, day : Day, rows : Seq(Item)]
           /\ refresher'.phase # "idle" =>
                  refresher'.day = refresher.day /\ Len(refresher'.rows) > 0
           /\ openRuns' \in 0..(MaxCrashes + 1)
           /\ openRuns' + priceCrashes = IF refresher'.phase = "idle" THEN MaxCrashes
                                         ELSE MaxCrashes + 1
<1>1. /\ refresher.rows \in Seq(Item) /\ Len(refresher.rows) \in Nat \ {0} /\ refresher.day \in Day
      /\ openRuns \in Nat /\ priceCrashes \in Nat /\ priceCrashes <= MaxCrashes /\ MaxCrashes \in Nat
      /\ openRuns + priceCrashes = MaxCrashes + 1
    BY PriceAssumption DEF PriceTypeOK, RunFits
<1>2. CASE Len(refresher.rows) = 1
    <2>1. refresher' = [phase |-> "idle", day |-> 1, rows |-> <<>>] /\ openRuns' = openRuns - 1
        BY <1>2 DEF Advance, Waiting
    <2>2. 1 \in Day /\ <<>> \in Seq(Item)
        BY PriceAssumption DEF Day
    <2>3. openRuns' \in 0..(MaxCrashes + 1) /\ openRuns' + priceCrashes = MaxCrashes
        BY <1>1, <2>1
    <2> QED BY <2>1, <2>2, <2>3
<1>3. CASE Len(refresher.rows) # 1
    <2>1. refresher' = [refresher EXCEPT !.phase = "checking", !.rows = Tail(refresher.rows)]
             /\ UNCHANGED openRuns
        BY <1>3 DEF Advance
    <2>2. Tail(refresher.rows) \in Seq(Item) /\ Len(Tail(refresher.rows)) > 0
        <3>0. refresher.rows # <<>>
            BY <1>1
        <3>1. PICK m \in Nat : m = Len(refresher.rows)
            BY <1>1
        <3>2. m # 0 /\ m # 1
            BY <1>1, <1>3, <3>1
        <3>3. m - 1 > 0
            BY <3>2
        <3>4. Tail(refresher.rows) \in Seq(Item)
                 /\ Len(Tail(refresher.rows)) = Len(refresher.rows) - 1
            BY <1>1, <3>0, HeadTailProperties
        <3> QED BY <3>1, <3>3, <3>4
    <2>3. refresher' = [phase |-> "checking", day |-> refresher.day, rows |-> Tail(refresher.rows)]
        BY <2>1 DEF PriceTypeOK
    <2> QED BY <1>1, <2>1, <2>2, <2>3
<1> QED BY <1>2, <1>3

\* Every step keeps the invariant; the crash is what leaves a run row open.
LEMMA PriceStep ==
    ASSUME PriceInvariant, [PriceNext]_priceVars
    PROVE  PriceInvariant'
<1>0. /\ PriceTypeOK /\ RunFits /\ BoughtOncePerDay /\ NothingYet
      /\ today \in Day /\ Day \subseteq Nat
    BY DEF PriceInvariant, PriceTypeOK, Day
<1>1. wish' \in [Item -> WishRow]
    BY <1>0, WishTypes DEF RunFits
<1>2. ASSUME UNCHANGED <<today, fetched, hydrated, refresher, openRuns, priceCrashes>>
      PROVE  PriceInvariant'
    BY <1>0, <1>1, <1>2
       DEF WishRow, PriceInvariant, PriceTypeOK, RunFits, BoughtOncePerDay, NothingYet
<1>3. ASSUME NEW i \in Item, \/ AddWish(i) \/ LeaseEnds(i)
                             \/ \E s \in {"active", "inactive"} : UpdateItem(i, s)
      PROVE  PriceInvariant'
    BY <1>2, <1>3 DEF AddWish, LeaseEnds, UpdateItem
<1>4. CASE NextDay
    <2>1. today' \in Day /\ today' = today + 1
        BY <1>0, <1>4, PriceAssumption DEF NextDay, Day
    <2>2. \A d \in Day : fetched'[d] = fetched[d] \/ fetched'[d] = 0
        BY <1>4 DEF NextDay
    <2>3. fetched' \in [Day -> 0..2]
        BY <1>0, <1>4 DEF NextDay, PriceTypeOK
    <2>4. PriceTypeOK'
        BY <1>0, <1>1, <1>4, <2>1, <2>3 DEF WishRow, NextDay, PriceTypeOK
    <2>5. RunFits'
        <3>1. refresher.phase # "idle" => refresher.day <= today'
            <4>1. refresher.day \in Nat /\ today \in Nat
                BY <1>0 DEF PriceTypeOK
            <4> QED BY <1>0, <2>1, <4>1 DEF RunFits
        <3> QED BY <1>0, <1>4, <3>1 DEF NextDay, RunFits
    <2>6. BoughtOncePerDay'
        BY <1>0, <2>2 DEF BoughtOncePerDay
    <2>7. NothingYet'
        <3>1. \A d \in Day : d > today' => d > today
            BY <1>0, <2>1
        <3>2. refresher' = refresher
            BY <1>4 DEF NextDay
        <3> QED BY <1>0, <2>2, <3>1, <3>2 DEF NothingYet
    <2> QED BY <2>4, <2>5, <2>6, <2>7 DEF PriceInvariant
<1>5. CASE Hydrate
    BY <1>0, <1>1, <1>5 DEF WishRow, Hydrate, PriceInvariant, PriceTypeOK, RunFits,
       BoughtOncePerDay, NothingYet
<1>6. CASE StartRun
    <2>1. PICK rows \in SetToAllKPermutations({i \in Item : Due(i)}) :
              /\ Len(rows) \in 1..PriceBatch
              /\ refresher' = [phase |-> "checking", day |-> today, rows |-> rows]
        BY <1>6 DEF StartRun
    <2>2. rows \in Seq(Item)
        BY <2>1, ClaimedRows
    <2>3. Len(rows) > 0
        BY <2>1, PriceAssumption
    <2>4. /\ openRuns' \in 0..(MaxCrashes + 1) /\ openRuns' + priceCrashes = MaxCrashes + 1
          /\ UNCHANGED <<today, fetched, hydrated, priceCrashes>>
        BY <1>0, <1>6, PriceAssumption DEF StartRun, RunFits, PriceTypeOK
    <2>5. PriceTypeOK'
        BY <1>0, <1>1, <2>1, <2>2, <2>4 DEF WishRow, PriceTypeOK
    <2>6. RunFits' /\ BoughtOncePerDay' /\ NothingYet'
        BY <1>0, <2>1, <2>3, <2>4 DEF RunFits, BoughtOncePerDay, NothingYet
    <2> QED BY <2>5, <2>6 DEF PriceInvariant
<1>7. CASE ReuseTodayObservation \/ PriceFails
    <2>1. Advance /\ UNCHANGED <<today, fetched, hydrated, priceCrashes>> /\ refresher.phase # "idle"
        BY <1>7 DEF ReuseTodayObservation, PriceFails
    <2>2. PriceTypeOK'
        BY <1>0, <1>1, <2>1, Advances DEF WishRow, PriceTypeOK
    <2>3. RunFits' /\ BoughtOncePerDay' /\ NothingYet'
        BY <1>0, <2>1, Advances DEF RunFits, BoughtOncePerDay, NothingYet
    <2> QED BY <2>2, <2>3 DEF PriceInvariant
<1>8. CASE AskProvider
    <2>1. /\ refresher' = [refresher EXCEPT !.phase = "fetching"] /\ refresher.phase = "checking"
          /\ UNCHANGED <<wish, today, fetched, hydrated, openRuns, priceCrashes>>
        BY <1>8 DEF AskProvider
    <2>2. /\ refresher' \in [phase : {"idle", "checking", "fetching"}, day : Day, rows : Seq(Item)]
          /\ refresher'.phase = "fetching"
          /\ refresher'.day = refresher.day /\ refresher'.rows = refresher.rows
        BY <1>0, <2>1 DEF PriceTypeOK
    <2>3. \A d \in Day : d >= refresher.day => fetched[d] = 0
        <3>1. \A d \in Day : fetched[d] \in 0..2
            BY <1>0 DEF PriceTypeOK
        <3>2. \A d \in Day : d >= refresher.day => ~(fetched[d] > 0)
            BY <1>8 DEF AskProvider, Reusable
        <3> QED BY <3>1, <3>2
    <2>4. PriceTypeOK'
        BY <1>0, <2>1, <2>2 DEF PriceTypeOK
    <2>5. RunFits' /\ BoughtOncePerDay' /\ NothingYet'
        BY <1>0, <2>1, <2>2, <2>3 DEF RunFits, BoughtOncePerDay, NothingYet
    <2> QED BY <2>4, <2>5 DEF PriceInvariant
<1>9. CASE StorePrice
    <2>1. Advance /\ UNCHANGED <<today, hydrated, priceCrashes>> /\ refresher.phase = "fetching"
        BY <1>9 DEF StorePrice
    <2>2. fetched[today] = 0
        BY <1>0, <2>1 DEF RunFits, NothingYet
    <2>3. fetched' = [fetched EXCEPT ![today] = 1]
        BY <1>9, <2>2 DEF StorePrice
    <2>4. /\ fetched' \in [Day -> 0..2]
          /\ \A d \in Day : fetched'[d] = IF d = today THEN 1 ELSE fetched[d]
        BY <1>0, <2>3 DEF PriceTypeOK
    <2>5. PriceTypeOK'
        BY <1>0, <1>1, <2>1, <2>4, Advances DEF WishRow, PriceTypeOK
    <2>6. RunFits'
        BY <1>0, <2>1, Advances DEF RunFits
    <2>7. BoughtOncePerDay'
        BY <1>0, <2>4 DEF BoughtOncePerDay
    <2>8. NothingYet'
        <3>1. refresher'.phase # "fetching"
            BY <1>0, <2>1, Advances
        <3> QED BY <1>0, <2>1, <2>4, <3>1 DEF NothingYet
    <2> QED BY <2>5, <2>6, <2>7, <2>8 DEF PriceInvariant
<1>10. CASE RefresherCrashes
    <2>1. /\ refresher' = [phase |-> "idle", day |-> 1, rows |-> <<>>] /\ refresher.phase # "idle"
          /\ UNCHANGED <<wish, today, fetched, hydrated, openRuns>>
        BY <1>10 DEF RefresherCrashes, Waiting
    <2>2. priceCrashes' \in 0..MaxCrashes /\ openRuns + priceCrashes' = MaxCrashes
        BY <1>0, <1>10, PriceAssumption DEF RefresherCrashes, RunFits, PriceTypeOK
    <2>3. 1 \in Day /\ <<>> \in Seq(Item)
        BY PriceAssumption DEF Day
    <2>4. PriceTypeOK'
        BY <1>0, <2>1, <2>2, <2>3 DEF PriceTypeOK
    <2>5. RunFits' /\ BoughtOncePerDay' /\ NothingYet'
        BY <1>0, <2>1, <2>2 DEF RunFits, BoughtOncePerDay, NothingYet
    <2> QED BY <2>4, <2>5 DEF PriceInvariant
<1>11. CASE UNCHANGED priceVars
    BY <1>2, <1>11 DEF priceVars
<1> QED BY <1>3, <1>4, <1>5, <1>6, <1>7, <1>8, <1>9, <1>10, <1>11 DEF PriceNext, Refresh

\* The items, the runs and the observations keep their types; a run row is left open by a
\* crash only.
THEOREM PriceInvariance == PriceSpec => []PriceInvariant
<1> QED BY PriceStarts, PriceStep, PTL DEF PriceSpec

\* However many users watch an offer, its price is bought once a day at most, also by a run
\* that spans midnight and by one that starts after a crash (run_once looks for an observation
\* since the day it began before it asks the provider).
THEOREM PriceBoughtOnce == PriceSpec => []BoughtOncePerDay
<1>1. PriceInvariant => BoughtOncePerDay
    BY DEF PriceInvariant
<1> QED BY <1>1, PriceInvariance, PTL

-----------------------------------------------------------------------------
(***************************************************************************)
(* The memory service and the outbox worker.                               *)
(***************************************************************************)
MemoryRow == [text : Text \cup {NoText}, version : Nat, source : {"user", "agent"}]

MemoryEvent == {"ADD", "UPDATE", "DELETE"}

ProposedAction == [event : {"NONE", "ADD", "UPDATE", "DELETE"}, mem : Mem \cup {NoMem},
                   text : Text \cup {NoText}]

MemoryTx == [ok : BOOLEAN, rows : [Mem -> MemoryRow], objects : [Mem -> MemoryRow],
             history : [Mem -> Seq(MemoryEvent)], changed : Seq(Mem),
             source : {"user", "agent"}]

\* The entries, and what has been recorded of them.
EntriesFit ==
    /\ entries \in [Mem -> MemoryRow] /\ history \in [Mem -> Seq(MemoryEvent)]
    /\ \A m \in Mem : /\ entries[m].version <= MaxVersion
                      /\ Exists(entries[m]) => entries[m].version > 0

Listed(s, x) == \E k \in 1..Len(s) : s[k] = x

Untouched(tx, m) ==
    /\ tx.objects[m] = entries[m] /\ tx.history[m] = history[m]
    /\ ~Listed(tx.changed, m)

\* The transaction made one version of an entry that is in place or is new, recorded it, and
\* announces it unless it is the last.
Versioned(tx, m) ==
    /\ entries[m].version = 0 \/ Exists(entries[m])
    /\ tx.objects[m].version = entries[m].version + 1
    /\ \E event \in MemoryEvent :
           /\ tx.history[m] = Append(history[m], event)
           /\ Exists(tx.objects[m]) <=> event # "DELETE"
           /\ Listed(tx.changed, m) <=> event # "DELETE"

TxFits(tx) ==
    /\ tx \in MemoryTx
    /\ \A i, j \in 1..Len(tx.changed) : tx.changed[i] = tx.changed[j] => i = j
    /\ \A m \in Mem : Untouched(tx, m) \/ Versioned(tx, m)

\* What an action needs of the transaction it joins.
Applicable(tx, a) ==
    /\ a \in ProposedAction
    /\ a.event \in {"UPDATE", "DELETE"} =>
          a.mem \in Mem /\ Exists(entries[a.mem]) /\ Untouched(tx, a.mem)
    /\ a.event = "ADD" => a.mem = NoMem /\ a.text \in Text /\ Fresh(tx.objects) # {}
    /\ a.event = "UPDATE" => a.text \in Text

\* A change of an untouched entry that makes its next version.
NextVersion(tx, changed, m, new, event) ==
    /\ changed \in MemoryTx /\ Untouched(tx, m) /\ new \in MemoryRow
    /\ event \in MemoryEvent
    /\ changed.objects = [tx.objects EXCEPT ![m] = new]
    /\ changed.history = tx.history /\ changed.changed = tx.changed
    /\ entries[m].version = 0 \/ Exists(entries[m])
    /\ new.version = entries[m].version + 1
    /\ Exists(new) <=> event # "DELETE"

\* The events that are recorded.
LEMMA EventKinds == "ADD" \in MemoryEvent /\ "UPDATE" \in MemoryEvent /\ "DELETE" \in MemoryEvent
BY DEF MemoryEvent

\* A note keeps all that it does not note.
LEMMA NoteFits ==
    ASSUME EntriesFit, NEW tx, TxFits(tx), NEW changed, NEW m \in Mem, NEW new,
           NEW event \in MemoryEvent, NextVersion(tx, changed, m, new, event)
    PROVE  /\ TxFits(Note(changed, m, event))
           /\ Note(changed, m, event).objects = changed.objects
           /\ Note(changed, m, event).ok = changed.ok
           /\ \A o \in Mem \ {m} : Untouched(tx, o) => Untouched(Note(changed, m, event), o)
<1> DEFINE n == Note(changed, m, event)
           list == IF event = "DELETE" THEN changed.changed ELSE Append(changed.changed, m)
           past == [changed.history EXCEPT ![m] = Append(changed.history[m], event)]
<1>1. changed \in MemoryTx /\ tx \in MemoryTx
    BY DEF NextVersion, TxFits
<1>2. n = [changed EXCEPT !.history = past, !.changed = list]
    BY <1>1 DEF Note, MemoryTx
<1>3. changed.changed \in Seq(Mem) /\ changed.history \in [Mem -> Seq(MemoryEvent)]
    BY <1>1 DEF MemoryTx
<1>4. /\ Append(changed.changed, m) \in Seq(Mem)
      /\ Len(Append(changed.changed, m)) = Len(changed.changed) + 1
      /\ Append(changed.changed, m)[Len(changed.changed) + 1] = m
      /\ \A k \in 1..Len(changed.changed) : Append(changed.changed, m)[k] = changed.changed[k]
      /\ Len(changed.changed) \in Nat
    BY <1>3, AppendProperties, LenProperties
<1>5. Append(changed.history[m], event) \in Seq(MemoryEvent)
    BY <1>3, AppendProperties
<1>6. past \in [Mem -> Seq(MemoryEvent)] /\ past[m] = Append(changed.history[m], event)
      /\ \A o \in Mem \ {m} : past[o] = changed.history[o]
    BY <1>3, <1>5
<1>7. list \in Seq(Mem)
    BY <1>3, <1>4
<1> HIDE DEF list, past
<1>8. /\ n \in MemoryTx /\ n.objects = changed.objects /\ n.ok = changed.ok
      /\ n.history = past /\ n.changed = list
    BY <1>1, <1>2, <1>6, <1>7 DEF MemoryTx
<1> HIDE DEF n
<1>9. /\ changed.changed = tx.changed /\ changed.history = tx.history
      /\ changed.objects = [tx.objects EXCEPT ![m] = new]
      /\ Untouched(tx, m) /\ tx.objects \in [Mem -> MemoryRow]
    BY <1>1 DEF NextVersion, MemoryTx
<1>10. ~Listed(changed.changed, m)
    BY <1>9 DEF Untouched
<1>11. /\ Listed(list, m) <=> event # "DELETE"
       /\ \A o \in Mem \ {m} : Listed(list, o) <=> Listed(tx.changed, o)
    <2>1. CASE event = "DELETE"
        BY <1>9, <1>10, <2>1 DEF list
    <2>2. CASE event # "DELETE"
        <3>1. list = Append(changed.changed, m) /\ Len(list) = Len(tx.changed) + 1
              /\ Len(tx.changed) \in Nat
            BY <1>4, <1>9, <2>2 DEF list
        <3>2. Listed(list, m)
            BY <1>4, <1>9, <3>1 DEF Listed
        <3>3. ASSUME NEW o \in Mem \ {m}
              PROVE  Listed(list, o) <=> Listed(tx.changed, o)
            <4>1. \A k \in 1..Len(list) : k \in 1..Len(tx.changed) \/ k = Len(tx.changed) + 1
                BY <3>1
            <4>2. \A k \in 1..Len(tx.changed) : k \in 1..Len(list) /\ list[k] = tx.changed[k]
                BY <1>4, <1>9, <3>1
            <4>3. list[Len(tx.changed) + 1] = m
                BY <1>4, <1>9, <3>1
            <4> QED BY <4>1, <4>2, <4>3 DEF Listed
        <3> QED BY <2>2, <3>2, <3>3
    <2> QED BY <2>1, <2>2
<1>12. \A i, j \in 1..Len(list) : list[i] = list[j] => i = j
    <2>1. \A i, j \in 1..Len(tx.changed) : tx.changed[i] = tx.changed[j] => i = j
        BY DEF TxFits
    <2>2. CASE event = "DELETE"
        BY <1>9, <2>1, <2>2 DEF list
    <2>3. CASE event # "DELETE"
        <3>1. list = Append(changed.changed, m) /\ Len(list) = Len(tx.changed) + 1
              /\ Len(tx.changed) \in Nat
            BY <1>4, <1>9, <2>3 DEF list
        <3>2. \A k \in 1..Len(list) : k \in 1..Len(tx.changed) \/ k = Len(tx.changed) + 1
            BY <3>1
        <3>3. \A k \in 1..Len(tx.changed) : list[k] = tx.changed[k] /\ tx.changed[k] # m
            BY <1>4, <1>9, <1>10, <3>1 DEF Listed
        <3>4. list[Len(tx.changed) + 1] = m
            BY <1>4, <1>9, <3>1
        <3> QED BY <2>1, <3>2, <3>3, <3>4
    <2> QED BY <2>2, <2>3
<1>13. \A o \in Mem \ {m} :
           n.objects[o] = tx.objects[o] /\ n.history[o] = tx.history[o]
    BY <1>6, <1>8, <1>9
<1>14. \A o \in Mem \ {m} : Untouched(tx, o) => Untouched(n, o)
    BY <1>8, <1>11, <1>13 DEF Untouched
<1>15. \A o \in Mem \ {m} : Versioned(tx, o) => Versioned(n, o)
    BY <1>8, <1>11, <1>13 DEF Versioned
<1>16. Versioned(n, m)
    <2>1. n.objects[m] = new /\ n.history[m] = Append(history[m], event)
        BY <1>6, <1>8, <1>9 DEF Untouched
    <2>2. /\ entries[m].version = 0 \/ Exists(entries[m])
          /\ new.version = entries[m].version + 1
          /\ Exists(new) <=> event # "DELETE"
        BY DEF NextVersion
    <2> QED BY <1>8, <1>11, <2>1, <2>2 DEF Versioned
<1>17. TxFits(n)
    BY <1>8, <1>12, <1>14, <1>15, <1>16 DEF TxFits
<1> QED BY <1>8, <1>14, <1>17 DEF n

\* What an action leaves of the transaction it joins: it only ever makes one entry new.
ActLeaves(tx, a, done) ==
    /\ TxFits(done)
    /\ done.ok => tx.ok
    /\ \A o \in Mem : o # a.mem /\ entries[o].version > 0 /\ Untouched(tx, o)
                          => Untouched(done, o)
    /\ \E f : Fresh(tx.objects) \subseteq Fresh(done.objects) \cup {f}
    /\ a.event # "ADD" => Fresh(tx.objects) \subseteq Fresh(done.objects)

\* A result that differs in what the duplicate checks read only, or in being refused.
LEMMA NothingLeaves ==
    ASSUME EntriesFit, NEW tx, TxFits(tx), NEW a, NEW done, done \in MemoryTx,
           done.objects = tx.objects, done.history = tx.history, done.changed = tx.changed,
           done.ok => tx.ok
    PROVE  ActLeaves(tx, a, done)
<1>1. \A o \in Mem : /\ Untouched(tx, o) <=> Untouched(done, o)
                     /\ Versioned(tx, o) <=> Versioned(done, o)
    BY DEF Untouched, Versioned
<1>2. TxFits(done)
    BY <1>1 DEF TxFits
<1> QED BY <1>1, <1>2 DEF ActLeaves, Fresh

\* ADD: a text that nobody holds makes a new entry, out of an id that was never used.
LEMMA AddFits ==
    ASSUME EntriesFit, NEW tx, TxFits(tx), NEW a, Applicable(tx, a), a.event = "ADD"
    PROVE  ActLeaves(tx, a, Add(tx, a))
<1> DEFINE m == CHOOSE f \in Fresh(tx.objects) : TRUE
           new == [text |-> a.text, version |-> 1, source |-> tx.source]
           made == [tx.objects EXCEPT ![m] = new]
           changed == [tx EXCEPT !.objects = made, !.rows = made]
<1>1. tx \in MemoryTx /\ a.text \in Text /\ a.mem = NoMem
    BY DEF TxFits, Applicable
<1>2. m \in Mem /\ tx.objects[m].version = 0
    BY DEF Applicable, Fresh
<1> HIDE DEF m
<1>3. Untouched(tx, m) /\ entries[m].version = 0
    <2>1. ~Versioned(tx, m)
        BY <1>2 DEF Versioned, EntriesFit, MemoryRow
    <2>2. Untouched(tx, m)
        BY <1>2, <2>1 DEF TxFits
    <2> QED BY <1>2, <2>2 DEF Untouched
<1>4. new \in MemoryRow /\ new.version = 1 /\ new.text = a.text
    BY <1>1 DEF MemoryRow, MemoryTx
<1> HIDE DEF new
<1>5. made \in [Mem -> MemoryRow]
    BY <1>1, <1>4 DEF MemoryTx
<1>6. /\ changed \in MemoryTx /\ changed.objects = made /\ changed.history = tx.history
      /\ changed.changed = tx.changed /\ changed.ok = tx.ok
    BY <1>1, <1>5 DEF MemoryTx
<1> HIDE DEF made, changed
<1>7. Exists(new)
    BY <1>1, <1>4, MemAssumption DEF Exists
<1>8. CASE Add(tx, a) = Note(changed, m, "ADD")
    <2> DEFINE done == Note(changed, m, "ADD")
    <2>1. NextVersion(tx, changed, m, new, "ADD")
        BY <1>3, <1>4, <1>6, <1>7 DEF NextVersion, MemoryEvent, made
    <2>2. /\ TxFits(done) /\ done.objects = made /\ done.ok = tx.ok
          /\ \A o \in Mem \ {m} : Untouched(tx, o) => Untouched(done, o)
        BY <1>2, <1>6, <2>1, NoteFits, EventKinds
    <2> HIDE DEF done
    <2>3. Fresh(tx.objects) \subseteq Fresh(done.objects) \cup {m}
        BY <1>1, <1>2, <2>2 DEF Fresh, MemoryTx, made
    <2>4. ActLeaves(tx, a, done)
        BY <1>2, <1>3, <2>2, <2>3 DEF ActLeaves
    <2> QED BY <1>8, <2>4 DEF done
<1>9. CASE Add(tx, a) = tx
    BY <1>1, <1>2, <1>9, NothingLeaves
<1>10. CASE Add(tx, a) = [tx EXCEPT !.ok = FALSE]
    <2> DEFINE done == [tx EXCEPT !.ok = FALSE]
    <2>1. done \in MemoryTx /\ ~done.ok /\ done.objects = tx.objects
          /\ done.history = tx.history /\ done.changed = tx.changed
        BY <1>1 DEF MemoryTx
    <2> HIDE DEF done
    <2> QED BY <1>2, <1>10, <2>1, NothingLeaves DEF done
<1>11. CASE Add(tx, a) = [tx EXCEPT !.rows = tx.objects]
    <2> DEFINE done == [tx EXCEPT !.rows = tx.objects]
    <2>1. done \in MemoryTx /\ done.ok = tx.ok /\ done.objects = tx.objects
          /\ done.history = tx.history /\ done.changed = tx.changed
        BY <1>1 DEF MemoryTx
    <2> HIDE DEF done
    <2> QED BY <1>2, <1>11, <2>1, NothingLeaves DEF done
<1> QED BY <1>8, <1>9, <1>10, <1>11 DEF Add, m, new, made, changed

\* UPDATE: a text that is new to its entry makes its next version.
LEMMA UpdateFits ==
    ASSUME EntriesFit, NEW tx, TxFits(tx), NEW a, Applicable(tx, a), a.event = "UPDATE"
    PROVE  ActLeaves(tx, a, Update(tx, a))
<1> DEFINE m == a.mem
           new == [text |-> a.text, version |-> tx.objects[m].version + 1, source |-> tx.source]
           changed == [tx EXCEPT !.objects[m] = new]
<1>1. /\ tx \in MemoryTx /\ a.text \in Text /\ m \in Mem /\ Exists(entries[m])
      /\ Untouched(tx, m)
    BY DEF TxFits, Applicable
<1> HIDE DEF m
<1>2. tx.objects[m] = entries[m] /\ entries[m].version \in Nat /\ entries[m].version > 0
    BY <1>1 DEF Untouched, EntriesFit, MemoryRow
<1>3. /\ new \in MemoryRow /\ new.version = entries[m].version + 1 /\ new.text = a.text
    BY <1>1, <1>2 DEF MemoryRow, MemoryTx
<1> HIDE DEF new
<1>4. /\ changed \in MemoryTx /\ changed.objects = [tx.objects EXCEPT ![m] = new]
      /\ changed.history = tx.history /\ changed.changed = tx.changed /\ changed.ok = tx.ok
    BY <1>1, <1>3 DEF MemoryTx
<1> HIDE DEF changed
<1>5. Exists(new)
    BY <1>1, <1>3, MemAssumption DEF Exists
<1>6. CASE Update(tx, a) = Note(changed, m, "UPDATE")
    <2> DEFINE done == Note(changed, m, "UPDATE")
    <2>1. NextVersion(tx, changed, m, new, "UPDATE")
        BY <1>1, <1>3, <1>4, <1>5 DEF NextVersion, MemoryEvent
    <2>2. /\ TxFits(done) /\ done.objects = [tx.objects EXCEPT ![m] = new] /\ done.ok = tx.ok
          /\ \A o \in Mem \ {m} : Untouched(tx, o) => Untouched(done, o)
        BY <1>1, <1>4, <2>1, NoteFits, EventKinds
    <2> HIDE DEF done
    <2>3. Fresh(tx.objects) \subseteq Fresh(done.objects)
        BY <1>1, <1>2, <2>2 DEF Fresh, MemoryTx
    <2>4. ActLeaves(tx, a, done)
        BY <1>1, <2>2, <2>3 DEF ActLeaves, m
    <2> QED BY <1>6, <2>4 DEF done
<1>7. CASE Update(tx, a) = tx
    BY <1>1, <1>7, NothingLeaves
<1>8. CASE Update(tx, a) = [tx EXCEPT !.ok = FALSE]
    <2> DEFINE done == [tx EXCEPT !.ok = FALSE]
    <2>1. done \in MemoryTx /\ ~done.ok /\ done.objects = tx.objects
          /\ done.history = tx.history /\ done.changed = tx.changed
        BY <1>1 DEF MemoryTx
    <2> HIDE DEF done
    <2> QED BY <1>1, <1>8, <2>1, NothingLeaves DEF done
<1> QED BY <1>6, <1>7, <1>8 DEF Update, m, new, changed

\* DELETE: the last version of an entry.
LEMMA DeleteFits ==
    ASSUME EntriesFit, NEW tx, TxFits(tx), NEW a, Applicable(tx, a), a.event = "DELETE"
    PROVE  ActLeaves(tx, a, Delete(tx, a))
<1> DEFINE m == a.mem
           new == [text |-> NoText, version |-> tx.objects[m].version + 1, source |-> tx.source]
           changed == [tx EXCEPT !.objects[m] = new]
<1>1. tx \in MemoryTx /\ m \in Mem /\ Exists(entries[m]) /\ Untouched(tx, m)
    BY DEF TxFits, Applicable
<1> HIDE DEF m
<1>2. tx.objects[m] = entries[m] /\ entries[m].version \in Nat /\ entries[m].version > 0
    BY <1>1 DEF Untouched, EntriesFit, MemoryRow
<1>3. new \in MemoryRow /\ new.version = entries[m].version + 1 /\ ~Exists(new)
    BY <1>1, <1>2 DEF MemoryRow, MemoryTx, Exists
<1>4. Delete(tx, a) = Note(changed, m, "DELETE")
    BY <1>1 DEF Delete, m, MemoryTx
<1> HIDE DEF new
<1>5. /\ changed \in MemoryTx /\ changed.objects = [tx.objects EXCEPT ![m] = new]
      /\ changed.history = tx.history /\ changed.changed = tx.changed /\ changed.ok = tx.ok
    BY <1>1, <1>3 DEF MemoryTx
<1> HIDE DEF changed
<1> DEFINE done == Note(changed, m, "DELETE")
<1>6. NextVersion(tx, changed, m, new, "DELETE")
    BY <1>1, <1>3, <1>5 DEF NextVersion, MemoryEvent
<1>7. /\ TxFits(done) /\ done.objects = [tx.objects EXCEPT ![m] = new] /\ done.ok = tx.ok
      /\ \A o \in Mem \ {m} : Untouched(tx, o) => Untouched(done, o)
    BY <1>1, <1>5, <1>6, NoteFits, EventKinds
<1> HIDE DEF done
<1>8. Fresh(tx.objects) \subseteq Fresh(done.objects)
    BY <1>1, <1>2, <1>7 DEF Fresh, MemoryTx
<1>9. ActLeaves(tx, a, done)
    BY <1>1, <1>7, <1>8 DEF ActLeaves, m
<1> QED BY <1>4, <1>9 DEF done, changed, new

\* Every action leaves the transaction in order.
LEMMA ActFits ==
    ASSUME EntriesFit, NEW tx, TxFits(tx), NEW a, Applicable(tx, a)
    PROVE  ActLeaves(tx, a, Act(tx, a))
<1>1. ActLeaves(tx, a, tx)
    BY NothingLeaves DEF TxFits
<1>2. a.event \in {"NONE", "ADD", "UPDATE", "DELETE"}
    BY DEF Applicable, ProposedAction
<1>3. CASE a.event = "ADD" /\ tx.ok
    BY <1>3, AddFits DEF Act
<1>4. CASE a.event = "UPDATE" /\ tx.ok
    BY <1>4, UpdateFits DEF Act
<1>5. CASE a.event = "DELETE" /\ tx.ok
    BY <1>5, DeleteFits DEF Act
<1>6. CASE a.event = "NONE" \/ ~tx.ok
    BY <1>1, <1>6 DEF Act
<1> QED BY <1>2, <1>3, <1>4, <1>5, <1>6

\* What the service and the manager let into a batch.
WellFormed(a) ==
    /\ a \in ProposedAction
    /\ a.event = "ADD" => a.mem = NoMem /\ a.text \in Text
    /\ a.event = "UPDATE" => a.mem \in Mem /\ a.text \in Text
    /\ a.event = "DELETE" => a.mem \in Mem

TwoActions(a, b) == WellFormed(a) /\ WellFormed(b) /\ (a.mem # NoMem => a.mem # b.mem)

\* There are unused ids for as many additions as a batch has.
LEMMA IdsLeft ==
    ASSUME NEW a, NEW b, WithinBounds(<<a, b>>)
    PROVE  /\ a.event = "ADD" \/ b.event = "ADD" => Fresh(entries) # {}
           /\ a.event = "ADD" /\ b.event = "ADD" => \A f : Fresh(entries) \ {f} # {}
<1> DEFINE batch == <<a, b>>
           added == {i \in DOMAIN batch : batch[i].event = "ADD"}
<1>1. Cardinality(added) <= Cardinality(Fresh(entries))
    BY DEF WithinBounds
<1>2. IsFiniteSet(Fresh(entries)) /\ Cardinality(Fresh(entries)) \in Nat
    BY MemAssumption, FS_Subset, FS_CardinalityType DEF Fresh
<1>3. added \subseteq 1..2 /\ IsFiniteSet(1..2) /\ Cardinality(1..2) = 2
    <2>1. added \subseteq 1..2
        OBVIOUS
    <2>2. IsFiniteSet(1..2) /\ Cardinality(1..2) = IF 1 > 2 THEN 0 ELSE 2 - 1 + 1
        BY FS_Interval, 1 \in Int, 2 \in Int
    <2> QED BY <2>1, <2>2
<1>4. IsFiniteSet(added) /\ Cardinality(added) \in Nat
    BY <1>3, FS_Subset, FS_CardinalityType
<1>5. ASSUME a.event = "ADD" \/ b.event = "ADD"
      PROVE  Fresh(entries) # {}
    <2>1. added # {}
        <3>1. CASE a.event = "ADD"
            <4>1. 1 \in added
                BY <3>1
            <4> QED BY <4>1
        <3>2. CASE b.event = "ADD"
            <4>1. 2 \in added
                BY <3>2
            <4> QED BY <4>1
        <3> QED BY <1>5, <3>1, <3>2
    <2> HIDE DEF added
    <2>2. Cardinality(added) # 0
        BY <1>4, <2>1, FS_EmptySet
    <2> QED BY <1>1, <1>2, <1>4, <2>2, FS_EmptySet
<1>6. ASSUME a.event = "ADD", b.event = "ADD", NEW f, Fresh(entries) \ {f} = {}
      PROVE  FALSE
    <2>1. added = 1..2
        BY <1>6
    <2> HIDE DEF added
    <2>2. Cardinality(Fresh(entries)) >= 2
        BY <1>1, <1>2, <1>3, <2>1
    <2>3. Fresh(entries) \subseteq {f} /\ IsFiniteSet({f}) /\ Cardinality({f}) = 1
        BY <1>6, FS_Singleton
    <2>4. Cardinality(Fresh(entries)) <= 1
        BY <2>3, FS_Subset
    <2> QED BY <1>2, <2>2, <2>4
<1> QED BY <1>5, <1>6

\* A transaction that commits made one version of each entry it changed.
LEMMA TransactionFits ==
    ASSUME EntriesFit, NEW a, NEW b, TwoActions(a, b), NEW source \in {"user", "agent"},
           WithinBounds(<<a, b>>), Transaction(<<a, b>>, source).ok
    PROVE  /\ TxFits(Transaction(<<a, b>>, source))
           /\ \A m \in Mem : Transaction(<<a, b>>, source).objects[m].version <= MaxVersion
<1> DEFINE batch == <<a, b>>
           ready == \A m \in Targets(batch) : Exists(entries[m])
           begin == [ok |-> ready, rows |-> entries, objects |-> entries, history |-> history,
                     changed |-> <<>>, source |-> source]
           first == Act(begin, a)
           second == Act(first, b)
           tx == [second EXCEPT !.ok = @ /\ UniqueTexts(second.objects)]
<1>1. Transaction(batch, source) = tx
    BY DEF Transaction
<1>2. Targets(batch) = {a.mem, b.mem} \ {NoMem}
    <2>1. DOMAIN batch = {1, 2}
        OBVIOUS
    <2>2. Range(batch) = {a, b}
        BY <2>1 DEF Range
    <2> QED BY <2>2 DEF Targets
<1>3. ready \in BOOLEAN
    BY Zenon
<1>4. /\ begin.rows = entries /\ begin.objects = entries /\ begin.history = history
      /\ begin.changed = <<>> /\ begin.ok = ready
    OBVIOUS
<1> HIDE DEF ready
<1>5. begin \in MemoryTx
    BY <1>3, EmptySeq DEF MemoryTx, EntriesFit
<1> HIDE DEF begin
<1>6. \A m \in Mem : Untouched(begin, m)
    BY <1>4, EmptySeq DEF Untouched, Listed
<1>7. TxFits(begin)
    BY <1>4, <1>5, <1>6, EmptySeq DEF TxFits
<1>8. /\ a.event = "ADD" \/ b.event = "ADD" => Fresh(entries) # {}
      /\ a.event = "ADD" /\ b.event = "ADD" => \A f : Fresh(entries) \ {f} # {}
    BY IdsLeft
<1>9. CASE ~ready
    <2>1. first = begin /\ ~begin.ok
        BY <1>4, <1>9 DEF Act
    <2> HIDE DEF first
    <2>2. second = begin
        BY <2>1 DEF Act
    <2> HIDE DEF second
    <2>3. ~tx.ok
        BY <1>5, <2>1, <2>2 DEF MemoryTx
    <2> QED BY <1>1, <2>3
<1>10. CASE ready
    <2>1. /\ a.mem \in Mem => Exists(entries[a.mem])
          /\ b.mem \in Mem => Exists(entries[b.mem])
        BY <1>2, <1>10, MemAssumption DEF ready
    <2>2. Applicable(begin, a)
        BY <1>4, <1>6, <1>8, <2>1 DEF Applicable, TwoActions, WellFormed
    <2>3. ActLeaves(begin, a, first)
        BY <1>7, <2>2, ActFits
    <2> HIDE DEF first
    <2>4. TxFits(first)
        BY <2>3 DEF ActLeaves
    <2>5. \A m \in Mem : m # a.mem /\ entries[m].version > 0 => Untouched(first, m)
        BY <1>6, <2>3 DEF ActLeaves
    <2>6. b.event = "ADD" => Fresh(first.objects) # {}
        <3>1. CASE a.event = "ADD" /\ b.event = "ADD"
            BY <1>4, <1>8, <2>3, <3>1 DEF ActLeaves
        <3>2. CASE a.event # "ADD" /\ b.event = "ADD"
            BY <1>4, <1>8, <2>3, <3>2 DEF ActLeaves
        <3> QED BY <3>1, <3>2
    <2>7. b.event \in {"UPDATE", "DELETE"} => Untouched(first, b.mem) /\ Exists(entries[b.mem])
                                                  /\ b.mem \in Mem
        BY <2>1, <2>5, MemAssumption DEF TwoActions, WellFormed, EntriesFit
    <2>8. Applicable(first, b)
        BY <2>6, <2>7 DEF Applicable, TwoActions, WellFormed
    <2>9. ActLeaves(first, b, second)
        BY <2>4, <2>8, ActFits
    <2> HIDE DEF second
    <2>10. TxFits(second) /\ second \in MemoryTx
        BY <2>9 DEF ActLeaves, TxFits
    <2>11. \A m \in Mem : m # a.mem /\ m # b.mem /\ entries[m].version > 0
                              => Untouched(second, m)
        BY <2>5, <2>9 DEF ActLeaves
    <2>12. /\ tx \in MemoryTx /\ tx.objects = second.objects
           /\ tx.history = second.history /\ tx.changed = second.changed
        <3>1. (second.ok /\ UniqueTexts(second.objects)) \in BOOLEAN
            OBVIOUS
        <3> QED BY <2>10, <3>1 DEF MemoryTx
    <2> HIDE DEF tx
    <2>13. TxFits(tx)
        BY <2>10, <2>12 DEF TxFits, Untouched, Versioned
    <2>14. ASSUME NEW m \in Mem
           PROVE  tx.objects[m].version <= MaxVersion
        <3>1. CASE Untouched(second, m)
            BY <2>12, <3>1 DEF Untouched, EntriesFit
        <3>2. CASE Versioned(second, m) /\ ~Untouched(second, m)
            <4>1. entries[m].version \in Nat
                BY DEF EntriesFit, MemoryRow
            <4>2. tx.objects[m].version = entries[m].version + 1
                BY <2>12, <3>2 DEF Versioned
            <4>3. CASE entries[m].version = 0
                BY <4>2, <4>3, MemAssumption
            <4>4. CASE entries[m].version # 0
                <5>1. m \in Targets(batch)
                    BY <1>2, <2>11, <3>2, <4>1, <4>4, MemAssumption
                <5>2. entries[m].version < MaxVersion
                    BY <5>1 DEF WithinBounds
                <5> QED BY <4>1, <4>2, <5>2, MemAssumption
            <4> QED BY <4>3, <4>4
        <3> QED BY <2>10, <3>1, <3>2 DEF TxFits
    <2> QED BY <1>1, <2>13, <2>14
<1> QED BY <1>9, <1>10

-----------------------------------------------------------------------------
EventRow == [mem : Mem, version : 1..MaxVersion, published : BOOLEAN,
             due : {"now", "later", "none"}, claim : Publisher \cup {NoPublisher},
             lapsed : BOOLEAN, attempts : 0..(MaxAttempts + 2), dead : BOOLEAN]

PublisherRow == [batch : Seq(Nat), phase : {"idle", "publishing", "encoding"},
                 read : Text \cup {NoText}]

\* Publishers work at events that exist.
PublishersFit(n) ==
    /\ publisher \in [Publisher -> PublisherRow]
    /\ \A p \in Publisher : \A k \in 1..Len(publisher[p].batch) :
           publisher[p].batch[k] \in 1..n

MemTypes ==
    /\ EntriesFit /\ outbox \in Seq(EventRow)
    /\ projection \in [Mem -> Text \cup {NoText}]
    /\ PublishersFit(Len(outbox)) /\ faults \in 0..MaxFaults

\* An event is of a version that has been made; a dead-lettered one is nobody's.
EventsFit ==
    \A i \in 1..Len(outbox) :
        /\ outbox[i].version <= entries[outbox[i].mem].version
        /\ outbox[i].dead => outbox[i].claim = NoPublisher
        /\ ~outbox[i].published /\ ~outbox[i].dead => outbox[i].attempts <= MaxAttempts

\* The event whose vector is being computed is still its publisher's own.
WorkFits ==
    \A p \in Publisher :
        /\ publisher[p].phase # "idle" => publisher[p].batch # <<>>
        /\ publisher[p].phase = "encoding" => Owns(p)

MemInvariant == MemTypes /\ EventsFit /\ WorkFits /\ EveryVersionRecorded

Committed(tx) ==
    /\ TxFits(tx) /\ \A m \in Mem : tx.objects[m].version <= MaxVersion
    /\ entries' = tx.objects /\ history' = tx.history /\ projection' = Cascaded(tx.objects)
    /\ UNCHANGED <<publisher, faults>>
    /\ outbox' \in Seq(EventRow)
    /\ Len(tx.changed) \in Nat /\ Len(outbox') = Len(outbox) + Len(tx.changed)
    /\ \A i \in 1..Len(outbox) : outbox'[i] = outbox[i]
    /\ \A j \in 1..Len(tx.changed) :
           outbox'[Len(outbox) + j]
               = Announcement(tx.changed[j], tx.objects[tx.changed[j]].version)

\* A transaction of the memory service appends the announcements of what it changed.
LEMMA Commits ==
    ASSUME MemTypes, NEW a, NEW b, TwoActions(a, b), NEW source \in {"user", "agent"},
           ApplyActions(<<a, b>>, source)
    PROVE  \E tx : Committed(tx)
<1> DEFINE tx == Transaction(<<a, b>>, source)
           n == Len(outbox)
           k == Len(tx.changed)
           added == [i \in DOMAIN tx.changed |->
                         Announcement(tx.changed[i], tx.objects[tx.changed[i]].version)]
<1>1. TxFits(tx) /\ \A m \in Mem : tx.objects[m].version <= MaxVersion
    BY TransactionFits DEF ApplyActions, MemTypes
<1>2. /\ entries' = tx.objects /\ history' = tx.history /\ projection' = Cascaded(tx.objects)
      /\ UNCHANGED <<publisher, faults>> /\ outbox' = outbox \o added
    BY DEF ApplyActions
<1> HIDE DEF tx
<1>3. tx.changed \in Seq(Mem) /\ k \in Nat /\ DOMAIN tx.changed = 1..k
    BY <1>1, LenProperties DEF TxFits, MemoryTx
<1>4. ASSUME NEW j \in 1..k
      PROVE  Announcement(tx.changed[j], tx.objects[tx.changed[j]].version) \in EventRow
    <2> DEFINE m == tx.changed[j]
    <2>1. m \in Mem /\ Listed(tx.changed, m)
        BY <1>3 DEF Listed
    <2>2. Versioned(tx, m)
        BY <1>1, <2>1 DEF TxFits, Untouched
    <2>3. entries[m].version \in Nat
        BY <2>1 DEF MemTypes, EntriesFit, MemoryRow
    <2>4. tx.objects[m].version \in 1..MaxVersion
        BY <1>1, <2>1, <2>2, <2>3, MemAssumption, SMTT(15) DEF Versioned
    <2> QED BY <2>1, <2>4, MemAssumption DEF Announcement, EventRow
<1>5. /\ added \in Seq(EventRow) /\ Len(added) = k
      /\ \A j \in 1..k :
            added[j] = Announcement(tx.changed[j], tx.objects[tx.changed[j]].version)
    BY <1>3, <1>4
<1> HIDE DEF added
<1>6. outbox \in Seq(EventRow) /\ n \in Nat
    BY LenProperties DEF MemTypes
<1>7. /\ outbox' \in Seq(EventRow) /\ Len(outbox') = n + k
      /\ \A i \in 1..(n + k) : outbox'[i] = IF i <= n THEN outbox[i] ELSE added[i - n]
    <2>1. /\ outbox \o added \in Seq(EventRow) /\ Len(outbox \o added) = n + Len(added)
          /\ \A i \in 1..(n + Len(added)) :
                (outbox \o added)[i] = IF i <= n THEN outbox[i] ELSE added[i - n]
        BY <1>5, <1>6, ConcatProperties, ZenonT(30)
    <2> QED BY <1>2, <1>5, <2>1
<1>8. \A i \in 1..n : outbox'[i] = outbox[i]
    BY <1>3, <1>6, <1>7
<1>9. ASSUME NEW j \in 1..k
      PROVE  outbox'[n + j] = added[j]
    <2>1. n + j \in 1..(n + k) /\ ~(n + j <= n) /\ (n + j) - n = j
        BY <1>3, <1>6
    <2> QED BY <1>7, <2>1
<1>10. Committed(tx)
    BY <1>1, <1>2, <1>3, <1>5, <1>7, <1>8, <1>9 DEF Committed
<1> QED BY <1>10

\* What a transaction commits is recorded version by version.
LEMMA CommitKeeps ==
    ASSUME MemInvariant, NEW tx, Committed(tx)
    PROVE  MemInvariant'
<1> DEFINE n == Len(outbox)
           k == Len(tx.changed)
<1>1. /\ MemTypes /\ EventsFit /\ WorkFits /\ EveryVersionRecorded /\ EntriesFit
      /\ outbox \in Seq(EventRow) /\ n \in Nat /\ DOMAIN outbox = 1..n
    BY LenProperties DEF MemInvariant, MemTypes
<1>2. /\ TxFits(tx) /\ tx \in MemoryTx /\ entries' = tx.objects /\ history' = tx.history
      /\ outbox' \in Seq(EventRow) /\ k \in Nat /\ Len(outbox') = n + k
      /\ DOMAIN outbox' = 1..(n + k)
      /\ \A i \in 1..n : outbox'[i] = outbox[i]
      /\ \A j \in 1..k :
            outbox'[n + j] = Announcement(tx.changed[j], tx.objects[tx.changed[j]].version)
    BY LenProperties DEF Committed, TxFits
<1>3. \A i \in 1..(n + k) : i \in 1..n \/ \E j \in 1..k : i = n + j
    <2> SUFFICES ASSUME NEW i \in 1..(n + k), i \notin 1..n
                 PROVE  \E j \in 1..k : i = n + j
        OBVIOUS
    <2>1. i - n \in 1..k /\ i = n + (i - n)
        BY <1>1, <1>2
    <2> QED BY <2>1
<1>4. ASSUME NEW j \in 1..k
      PROVE  /\ tx.changed[j] \in Mem /\ outbox'[n + j].mem = tx.changed[j]
             /\ outbox'[n + j].version = entries'[tx.changed[j]].version
             /\ ~outbox'[n + j].published /\ ~outbox'[n + j].dead
             /\ outbox'[n + j].claim = NoPublisher /\ outbox'[n + j].attempts = 0
             /\ n + j \in DOMAIN outbox'
    <2>1. tx.changed \in Seq(Mem)
        BY <1>2 DEF MemoryTx
    <2>2. n + j \in 1..(n + k)
        BY <1>1, <1>2
    <2> DEFINE m == tx.changed[j]
    <2>3. m \in Mem
        BY <2>1, <1>2, LenProperties
    <2>4. outbox'[n + j] = Announcement(m, entries'[m].version)
        BY <1>2
    <2>5. n + j \in DOMAIN outbox'
        BY <1>2, <2>2
    <2> HIDE DEF m
    <2>6. /\ outbox'[n + j].mem = m /\ outbox'[n + j].version = entries'[m].version
          /\ ~outbox'[n + j].published /\ ~outbox'[n + j].dead
          /\ outbox'[n + j].claim = NoPublisher /\ outbox'[n + j].attempts = 0
        BY <2>4 DEF Announcement
    <2> QED BY <2>3, <2>5, <2>6 DEF m
<1>5. ASSUME NEW m \in Mem
      PROVE  /\ entries[m].version \in Nat /\ Len(history[m]) = entries[m].version
             /\ history[m] \in Seq(MemoryEvent)
             /\ entries'[m].version >= entries[m].version
             /\ entries'[m].version <= MaxVersion /\ entries'[m] \in MemoryRow
             /\ Exists(entries'[m]) => entries'[m].version > 0
    <2>1. entries[m] \in MemoryRow /\ history[m] \in Seq(MemoryEvent)
          /\ Len(history[m]) = entries[m].version
        BY <1>1 DEF EntriesFit, EveryVersionRecorded
    <2>2. entries'[m] \in MemoryRow /\ entries'[m].version <= MaxVersion
        BY <1>2 DEF MemoryTx, Committed
    <2>3. CASE Untouched(tx, m)
        BY <1>1, <1>2, <2>1, <2>2, <2>3 DEF Untouched, EntriesFit, MemoryRow
    <2>4. CASE Versioned(tx, m)
        BY <1>2, <2>1, <2>2, <2>4 DEF Versioned, MemoryRow
    <2> QED BY <1>2, <2>1, <2>2, <2>3, <2>4 DEF TxFits, MemoryRow
<1>6. EntriesFit'
    BY <1>2, <1>5 DEF EntriesFit, MemoryTx
<1>7. projection' \in [Mem -> Text \cup {NoText}]
    BY <1>1 DEF Committed, Cascaded, MemTypes
<1>8. MemTypes'
    <2>1. publisher' = publisher /\ faults' = faults
        BY DEF Committed
    <2>2. PublishersFit(n)
        BY <1>1 DEF MemTypes
    <2>3. PublishersFit(Len(outbox))'
        BY <1>1, <1>2, <2>1, <2>2 DEF PublishersFit
    <2> QED BY <1>1, <1>2, <1>6, <1>7, <2>1, <2>3 DEF MemTypes
<1>9. EventsFit'
    <2> SUFFICES ASSUME NEW i \in 1..(n + k)
                 PROVE  /\ outbox'[i].version <= entries'[outbox'[i].mem].version
                        /\ outbox'[i].dead => outbox'[i].claim = NoPublisher
                        /\ ~outbox'[i].published /\ ~outbox'[i].dead
                                => outbox'[i].attempts <= MaxAttempts
        BY <1>2 DEF EventsFit
    <2>1. CASE i \in 1..n
        <3>1. outbox'[i] = outbox[i] /\ outbox[i].mem \in Mem /\ outbox[i].version \in Nat
            <4>1. outbox'[i] = outbox[i] /\ outbox[i] \in EventRow
                BY <1>1, <1>2, <2>1
            <4>2. \A e \in EventRow : e.mem \in Mem /\ e.version \in Nat
                BY MemAssumption DEF EventRow
            <4> QED BY <4>1, <4>2
        <3>2. /\ outbox[i].version <= entries[outbox[i].mem].version
              /\ outbox[i].dead => outbox[i].claim = NoPublisher
              /\ ~outbox[i].published /\ ~outbox[i].dead => outbox[i].attempts <= MaxAttempts
            BY <1>1, <2>1 DEF EventsFit
        <3>3. /\ entries[outbox[i].mem].version \in Nat
              /\ entries'[outbox[i].mem].version >= entries[outbox[i].mem].version
              /\ entries'[outbox[i].mem].version \in Nat
            BY <1>5, <3>1 DEF MemoryRow
        <3> QED BY <3>1, <3>2, <3>3
    <2>2. ASSUME NEW j \in 1..k, i = n + j
          PROVE  /\ outbox'[i].version <= entries'[outbox'[i].mem].version
                 /\ outbox'[i].dead => outbox'[i].claim = NoPublisher
                 /\ ~outbox'[i].published /\ ~outbox'[i].dead
                         => outbox'[i].attempts <= MaxAttempts
        <3> DEFINE m == tx.changed[j]
        <3>1. /\ m \in Mem /\ outbox'[i].mem = m /\ outbox'[i].version = entries'[m].version
              /\ ~outbox'[i].dead /\ outbox'[i].attempts = 0
            BY <1>4, <2>2
        <3>2. entries'[m].version \in Nat
            BY <1>5, <3>1 DEF MemoryRow
        <3> HIDE DEF m
        <3> QED BY <3>1, <3>2, MemAssumption
    <2> QED BY <1>3, <2>1, <2>2
<1>10. WorkFits'
    <2> SUFFICES ASSUME NEW p \in Publisher
                 PROVE  /\ publisher'[p].phase # "idle" => publisher'[p].batch # <<>>
                        /\ publisher'[p].phase = "encoding" => Owns(p)'
        BY DEF WorkFits
    <2>1. publisher' = publisher
        BY DEF Committed
    <2>2. publisher[p].phase # "idle" => publisher[p].batch # <<>>
        BY <1>1 DEF WorkFits
    <2>3. ASSUME publisher[p].phase = "encoding"
          PROVE  Owns(p)'
        <3>1. Owns(p) /\ publisher[p].batch # <<>> /\ publisher[p].batch \in Seq(Nat)
            BY <1>1, <2>3 DEF WorkFits, MemTypes, PublishersFit, PublisherRow
        <3>2. 1 \in 1..Len(publisher[p].batch) /\ Current(p) = publisher[p].batch[1]
            BY <3>1, EmptySeq, LenProperties DEF Current
        <3>3. Current(p) \in 1..n
            BY <1>1, <3>2 DEF MemTypes, PublishersFit
        <3>4. Current(p)' = Current(p)
            BY <2>1 DEF Current
        <3> QED BY <1>2, <3>1, <3>3, <3>4 DEF Owns
    <2> QED BY <2>1, <2>2, <2>3
<1>11. EveryVersionRecorded'
    <2> SUFFICES ASSUME NEW m \in Mem
                 PROVE  /\ Len(history'[m]) = entries'[m].version
                        /\ \A v \in 1..entries'[m].version :
                              (history'[m][v] # "DELETE") <=>
                                  \E i \in DOMAIN outbox' :
                                      outbox'[i].mem = m /\ outbox'[i].version = v
        BY DEF EveryVersionRecorded
    <2> DEFINE Announced(v) == \E i \in DOMAIN outbox :
                                   outbox[i].mem = m /\ outbox[i].version = v
               AnnouncedNow(v) == \E i \in DOMAIN outbox' :
                                   outbox'[i].mem = m /\ outbox'[i].version = v
    <2>1. \A v \in 1..entries[m].version : (history[m][v] # "DELETE") <=> Announced(v)
        BY <1>1 DEF EveryVersionRecorded
    <2>2. \A v : Announced(v) => AnnouncedNow(v)
        <3> SUFFICES ASSUME NEW v, Announced(v)
                     PROVE  AnnouncedNow(v)
            OBVIOUS
        <3>1. PICK i \in DOMAIN outbox : outbox[i].mem = m /\ outbox[i].version = v
            OBVIOUS
        <3>2. i \in DOMAIN outbox' /\ outbox'[i] = outbox[i]
            BY <1>1, <1>2
        <3> QED BY <3>1, <3>2
    <2>3. \A v : AnnouncedNow(v) =>
                  Announced(v) \/ (Listed(tx.changed, m) /\ v = entries'[m].version)
        <3> SUFFICES ASSUME NEW v, NEW i \in DOMAIN outbox',
                            outbox'[i].mem = m, outbox'[i].version = v
                     PROVE  Announced(v) \/ (Listed(tx.changed, m) /\ v = entries'[m].version)
            OBVIOUS
        <3>1. CASE i \in 1..n
            BY <1>1, <1>2, <3>1
        <3>2. ASSUME NEW j \in 1..k, i = n + j
              PROVE  Listed(tx.changed, m) /\ v = entries'[m].version
            BY <1>4, <3>2 DEF Listed
        <3> QED BY <1>2, <1>3, <3>1, <3>2
    <2>4. Listed(tx.changed, m) => AnnouncedNow(entries'[m].version)
        <3> SUFFICES ASSUME NEW j \in 1..k, tx.changed[j] = m
                     PROVE  AnnouncedNow(entries'[m].version)
            BY DEF Listed
        <3> QED BY <1>4
    <2>5. \A v : Announced(v) => v <= entries[m].version
        BY <1>1 DEF EventsFit
    <2> HIDE DEF Announced, AnnouncedNow
    <2>6. CASE Untouched(tx, m)
        <3>1. history'[m] = history[m] /\ entries'[m] = entries[m] /\ ~Listed(tx.changed, m)
            BY <1>2, <2>6 DEF Untouched
        <3>2. \A v \in 1..entries'[m].version : (history'[m][v] # "DELETE") <=> AnnouncedNow(v)
            BY <2>1, <2>2, <2>3, <3>1
        <3> QED BY <1>5, <3>1, <3>2 DEF AnnouncedNow
    <2>7. CASE Versioned(tx, m)
        <3>1. PICK event \in MemoryEvent :
                  /\ history'[m] = Append(history[m], event)
                  /\ Listed(tx.changed, m) <=> event # "DELETE"
            BY <1>2, <2>7 DEF Versioned
        <3>2. entries'[m].version = entries[m].version + 1
            BY <1>2, <2>7 DEF Versioned
        <3>3. /\ Len(history'[m]) = entries[m].version + 1
              /\ \A v \in 1..entries[m].version : history'[m][v] = history[m][v]
              /\ history'[m][entries[m].version + 1] = event
            BY <1>5, <3>1, AppendProperties
        <3>4. ASSUME NEW v \in 1..entries'[m].version
              PROVE  (history'[m][v] # "DELETE") <=> AnnouncedNow(v)
            <4>1. entries[m].version \in Nat
                BY <1>5
            <4>2. CASE v \in 1..entries[m].version
                <5>1. history'[m][v] = history[m][v] /\ v # entries'[m].version
                    BY <3>2, <3>3, <4>1, <4>2
                <5>2. AnnouncedNow(v) <=> Announced(v)
                    BY <2>2, <2>3, <5>1
                <5> QED BY <2>1, <4>2, <5>1, <5>2
            <4>3. CASE v = entries[m].version + 1
                <5>1. ~Announced(v)
                    BY <2>5, <4>1, <4>3
                <5>2. AnnouncedNow(v) <=> Listed(tx.changed, m)
                    BY <2>3, <2>4, <3>2, <4>3, <5>1
                <5> QED BY <3>1, <3>3, <4>3, <5>2
            <4> QED BY <3>2, <4>1, <4>2, <4>3
        <3> QED BY <3>2, <3>3, <3>4 DEF AnnouncedNow
    <2> QED BY <1>2, <2>6, <2>7 DEF TxFits
<1> QED BY <1>8, <1>9, <1>10, <1>11 DEF MemInvariant

(***************************************************************************)
(* The worker.                                                             *)
(***************************************************************************)
EventFits(e) ==
    /\ e.dead => e.claim = NoPublisher
    /\ ~e.published /\ ~e.dead => e.attempts <= MaxAttempts

\* The event i is being published by another than p.
BusyFor(p, i) ==
    \E q \in Publisher \ {p} : publisher[q].phase = "encoding" /\ Current(q) = i

\* What a step leaves of an event, if p takes it.
EventStays(p, i, e) ==
    /\ e \in EventRow /\ EventFits(e)
    /\ e.mem = outbox[i].mem /\ e.version = outbox[i].version
    /\ BusyFor(p, i) => e.claim = outbox[i].claim /\ e.published = outbox[i].published

\* p's own row after its step.
OwnRowFits(p, row) ==
    /\ row \in PublisherRow
    /\ \A k \in 1..Len(row.batch) : row.batch[k] \in 1..Len(outbox)
    /\ row.phase # "idle" => row.batch # <<>>
    /\ row.phase = "encoding" =>
          outbox'[Head(row.batch)].claim = p /\ ~outbox'[Head(row.batch)].published

\* A step of the worker p, or of time or an operator, when p is nobody.
WorkStep(p) ==
    /\ UNCHANGED <<entries, history>>
    /\ DOMAIN outbox' = 1..Len(outbox) /\ outbox' \in Seq(EventRow)
    /\ \A i \in 1..Len(outbox) : EventStays(p, i, outbox'[i])
    /\ projection' \in [Mem -> Text \cup {NoText}] /\ faults' \in 0..MaxFaults
    /\ publisher' \in [Publisher -> PublisherRow]
    /\ \A q \in Publisher \ {p} : publisher'[q] = publisher[q]
    /\ p \in Publisher => OwnRowFits(p, publisher'[p])

\* What holds of a publisher that is not idle.
LEMMA WorkKnown ==
    ASSUME MemInvariant, NEW p \in Publisher, publisher[p].phase # "idle"
    PROVE  /\ publisher[p] \in PublisherRow /\ publisher[p].batch \in Seq(Nat)
           /\ publisher[p].batch # <<>> /\ Current(p) = publisher[p].batch[1]
           /\ Current(p) \in 1..Len(outbox) /\ outbox[Current(p)] \in EventRow
           /\ publisher[p].phase = "encoding" => Owns(p)
<1>1. /\ publisher[p] \in PublisherRow /\ publisher[p].batch # <<>>
      /\ publisher[p].batch \in Seq(Nat)
      /\ publisher[p].phase = "encoding" => Owns(p)
    BY DEF MemInvariant, MemTypes, PublishersFit, WorkFits, PublisherRow
<1>2. Current(p) = publisher[p].batch[1] /\ 1 \in 1..Len(publisher[p].batch)
    BY <1>1, EmptySeq, LenProperties DEF Current
<1>3. Current(p) \in 1..Len(outbox)
    BY <1>2 DEF MemInvariant, MemTypes, PublishersFit
<1>4. outbox[Current(p)] \in EventRow
    BY <1>3 DEF MemInvariant, MemTypes
<1> QED BY <1>1, <1>2, <1>3, <1>4

\* Two publishers never hold the row of the same event.
LEMMA NotBusy ==
    ASSUME MemInvariant, NEW p \in Publisher, publisher[p].phase = "encoding"
    PROVE  ~BusyFor(p, Current(p))
<1> SUFFICES ASSUME NEW q \in Publisher \ {p}, publisher[q].phase = "encoding",
                    Current(q) = Current(p)
             PROVE  FALSE
    BY DEF BusyFor
<1>1. Owns(p) /\ Owns(q)
    BY WorkKnown
<1> QED BY <1>1 DEF Owns

\* No step of a worker, of time or of an operator disturbs what was recorded.
LEMMA WorkKeeps ==
    ASSUME MemInvariant, NEW p, WorkStep(p)
    PROVE  MemInvariant'
<1> DEFINE n == Len(outbox)
<1>1. /\ MemTypes /\ EventsFit /\ WorkFits /\ EveryVersionRecorded /\ EntriesFit
      /\ outbox \in Seq(EventRow) /\ n \in Nat /\ DOMAIN outbox = 1..n
    BY LenProperties DEF MemInvariant, MemTypes
<1>2. /\ UNCHANGED <<entries, history>> /\ outbox' \in Seq(EventRow)
      /\ DOMAIN outbox' = 1..n
      /\ \A i \in 1..n : EventStays(p, i, outbox'[i])
      /\ publisher' \in [Publisher -> PublisherRow]
      /\ \A q \in Publisher \ {p} : publisher'[q] = publisher[q]
      /\ p \in Publisher => OwnRowFits(p, publisher'[p])
    BY DEF WorkStep
<1>3. Len(outbox') = n
    BY <1>1, <1>2, LenProperties
<1>4. \A i \in 1..n : outbox'[i].mem = outbox[i].mem /\ outbox'[i].version = outbox[i].version
                       /\ EventFits(outbox'[i])
    BY <1>2 DEF EventStays
<1>5. EntriesFit'
    BY <1>1, <1>2 DEF EntriesFit, Exists
<1>6. PublishersFit(Len(outbox))'
    <2>1. ASSUME NEW q \in Publisher, NEW k \in 1..Len(publisher'[q].batch)
          PROVE  publisher'[q].batch[k] \in 1..n
        <3>1. CASE q = p
            BY <1>2, <3>1 DEF OwnRowFits
        <3>2. CASE q # p
            BY <1>1, <1>2, <3>2 DEF MemTypes, PublishersFit
        <3> QED BY <3>1, <3>2
    <2> QED BY <1>2, <1>3, <2>1 DEF PublishersFit
<1>7. MemTypes'
    BY <1>2, <1>5, <1>6 DEF MemTypes, WorkStep
<1>8. EventsFit'
    BY <1>1, <1>2, <1>3, <1>4 DEF EventsFit, EventFits
<1>9. WorkFits'
    <2> SUFFICES ASSUME NEW q \in Publisher
                 PROVE  /\ publisher'[q].phase # "idle" => publisher'[q].batch # <<>>
                        /\ publisher'[q].phase = "encoding" => Owns(q)'
        BY DEF WorkFits
    <2>1. CASE q = p
        BY <1>2, <2>1 DEF OwnRowFits, Owns, Current
    <2>2. CASE q # p
        <3>1. publisher'[q] = publisher[q] /\ Current(q)' = Current(q)
            BY <1>2, <2>2 DEF Current
        <3>2. publisher[q].phase # "idle" => publisher[q].batch # <<>>
            BY <1>1 DEF WorkFits
        <3>3. ASSUME publisher[q].phase = "encoding"
              PROVE  Owns(q)'
            <4>1. Owns(q) /\ Current(q) \in 1..n
                BY <3>3, WorkKnown
            <4>2. BusyFor(p, Current(q))
                BY <2>2, <3>3 DEF BusyFor
            <4> QED BY <1>2, <3>1, <4>1, <4>2 DEF Owns, EventStays
        <3> QED BY <3>1, <3>2, <3>3
    <2> QED BY <2>1, <2>2
<1>10. EveryVersionRecorded'
    BY <1>1, <1>2, <1>4, SMTT(20) DEF EveryVersionRecorded
<1> QED BY <1>7, <1>8, <1>9, <1>10 DEF MemInvariant

\* One event changes.
LEMMA EventChanges ==
    ASSUME MemInvariant, NEW p, NEW i \in 1..Len(outbox), NEW e, EventStays(p, i, e),
           outbox' = [outbox EXCEPT ![i] = e]
    PROVE  /\ DOMAIN outbox' = 1..Len(outbox) /\ outbox' \in Seq(EventRow)
           /\ \A j \in 1..Len(outbox) : EventStays(p, j, outbox'[j])
           /\ outbox'[i] = e
<1>1. outbox \in Seq(EventRow) /\ DOMAIN outbox = 1..Len(outbox) /\ Len(outbox) \in Nat
    BY LenProperties DEF MemInvariant, MemTypes
<1>2. e \in EventRow
    BY DEF EventStays
<1>3. DOMAIN outbox' = 1..Len(outbox) /\ outbox' \in Seq(EventRow) /\ outbox'[i] = e
      /\ \A j \in 1..Len(outbox) \ {i} : outbox'[j] = outbox[j]
    BY <1>1, <1>2
<1>4. \A j \in 1..Len(outbox) : EventStays(p, j, outbox[j])
    BY <1>1 DEF EventStays, EventFits, MemInvariant, EventsFit
<1> QED BY <1>3, <1>4

\* No event changes.
LEMMA NoEventChanges ==
    ASSUME MemInvariant, NEW p, outbox' = outbox
    PROVE  /\ DOMAIN outbox' = 1..Len(outbox) /\ outbox' \in Seq(EventRow)
           /\ \A j \in 1..Len(outbox) : EventStays(p, j, outbox'[j])
<1>1. outbox \in Seq(EventRow) /\ DOMAIN outbox = 1..Len(outbox) /\ Len(outbox) \in Nat
    BY LenProperties DEF MemInvariant, MemTypes
<1>2. \A j \in 1..Len(outbox) : EventStays(p, j, outbox[j])
    BY <1>1 DEF EventStays, EventFits, MemInvariant, EventsFit
<1> QED BY <1>1, <1>2

\* The row of a publisher that is done with an event.
LEMMA RestFits ==
    ASSUME MemInvariant, NEW p \in Publisher, publisher[p].phase # "idle"
    PROVE  OwnRowFits(p, Rest(p)) /\ Rest(p) \in PublisherRow /\ Rest(p).phase # "encoding"
<1> DEFINE b == publisher[p].batch
<1>1. b \in Seq(Nat) /\ b # <<>> /\ \A k \in 1..Len(b) : b[k] \in 1..Len(outbox)
    BY WorkKnown DEF MemInvariant, MemTypes, PublishersFit
<1>2. CASE Len(b) = 1
    <2>1. Rest(p) = Resting
        BY <1>2 DEF Rest
    <2> QED BY <2>1, EmptySeq DEF OwnRowFits, PublisherRow, Resting
<1>3. CASE Len(b) # 1
    <2>1. Rest(p) = [Resting EXCEPT !.phase = "publishing", !.batch = Tail(b)]
        BY <1>3 DEF Rest
    <2>2. /\ Tail(b) \in Seq(Nat) /\ Len(Tail(b)) = Len(b) - 1 /\ Len(b) \in Nat
          /\ \A k \in 1..Len(Tail(b)) : Tail(b)[k] = b[k + 1]
        BY <1>1, HeadTailProperties, LenProperties
    <2>3. Len(b) # 0
        BY <1>1, EmptySeq
    <2>4. Tail(b) # <<>>
        <3>1. Len(Tail(b)) # 0
            BY <1>3, <2>2, <2>3
        <3> QED BY <2>2, <3>1, EmptySeq
    <2>5. \A k \in 1..Len(Tail(b)) : Tail(b)[k] \in 1..Len(outbox)
        BY <1>1, <2>2, SMTT(20)
    <2> HIDE DEF b
    <2>6. /\ Rest(p).batch = Tail(b) /\ Rest(p).phase = "publishing"
          /\ Rest(p) \in PublisherRow
        BY <2>1, <2>2 DEF Resting, PublisherRow
    <2> QED BY <2>4, <2>5, <2>6 DEF OwnRowFits
<1> QED BY <1>2, <1>3

\* The claimed events are free ones, and at least one.
LEMMA ClaimStep ==
    ASSUME MemInvariant, NEW p \in Publisher, ClaimBatch(p)
    PROVE  WorkStep(p)
<1> DEFINE n == Len(outbox)
<1>1. outbox \in Seq(EventRow) /\ DOMAIN outbox = 1..n /\ n \in Nat
    BY LenProperties DEF MemInvariant, MemTypes
<1>2. Oldest \subseteq Open /\ Open \subseteq 1..n /\ Oldest # {}
    BY <1>1 DEF Oldest, Open, ClaimBatch
<1>3. IsFiniteSet(Oldest)
    <2>1. IsFiniteSet(1..n)
        BY <1>1, FS_Interval
    <2> QED BY <1>2, <2>1, FS_Subset
<1> DEFINE k == Cardinality(Oldest)
<1>4. k \in Nat /\ k # 0
    BY <1>2, <1>3, FS_CardinalityType, FS_EmptySet
<1>5. PICK batch \in SetToSeqs(Oldest) :
          publisher' = [publisher EXCEPT ![p] =
              [Resting EXCEPT !.phase = "publishing", !.batch = batch]]
    BY DEF ClaimBatch
<1>6. batch \in [1..k -> Oldest]
    BY DEF SetToSeqs
<1> HIDE DEF k
<1>7. /\ batch \in Seq(Nat) /\ Len(batch) = k /\ batch # <<>>
      /\ \A j \in 1..Len(batch) : batch[j] \in 1..n
    <2>1. Oldest \subseteq Nat
        BY <1>2
    <2>2. batch \in Seq(Nat) /\ Len(batch) = k
        <3>1. batch \in [1..k -> Nat]
            BY <1>6, <2>1
        <3> QED BY <1>4, <3>1
    <2>3. batch # <<>>
        BY <1>4, <2>2, EmptySeq
    <2> QED BY <1>2, <1>6, <2>2, <2>3
<1> DEFINE row == [Resting EXCEPT !.phase = "publishing", !.batch = batch]
<1>8. row \in PublisherRow /\ row.batch = batch /\ row.phase = "publishing"
    BY <1>7 DEF Resting, PublisherRow
<1> HIDE DEF row
<1>9. OwnRowFits(p, row)
    BY <1>7, <1>8 DEF OwnRowFits
<1>10. /\ publisher \in [Publisher -> PublisherRow]
       /\ publisher' = [publisher EXCEPT ![p] = row]
    BY <1>5 DEF MemInvariant, MemTypes, PublishersFit, row
<1>11. ASSUME NEW i \in 1..n
       PROVE  EventStays(p, i, outbox'[i])
    <2>1. /\ outbox[i] \in EventRow /\ EventFits(outbox[i])
          /\ outbox'[i] = IF i \in Oldest THEN [outbox[i] EXCEPT !.claim = p, !.lapsed = FALSE]
                          ELSE outbox[i]
        <3>1. outbox[i] \in EventRow /\ EventFits(outbox[i])
            BY <1>1 DEF MemInvariant, EventsFit, EventFits
        <3>2. outbox' = [j \in DOMAIN outbox |->
                  IF j \in Oldest THEN [outbox[j] EXCEPT !.claim = p, !.lapsed = FALSE]
                  ELSE outbox[j]]
            BY DEF ClaimBatch
        <3> QED BY <1>1, <3>1, <3>2
    <2>2. CASE i \notin Oldest
        BY <2>1, <2>2 DEF EventStays
    <2>3. CASE i \in Oldest
        <3> DEFINE e == [outbox[i] EXCEPT !.claim = p, !.lapsed = FALSE]
        <3>1. ~outbox[i].dead /\ ~Locked(i)
            BY <1>2, <2>3 DEF Open, Available
        <3>2. /\ e \in EventRow /\ e.mem = outbox[i].mem /\ e.version = outbox[i].version
              /\ e.published = outbox[i].published /\ e.dead = outbox[i].dead
              /\ e.attempts = outbox[i].attempts
            BY <2>1 DEF EventRow
        <3>3. outbox'[i] = e
            BY <2>1, <2>3
        <3> HIDE DEF e
        <3>4. EventFits(e)
            BY <2>1, <3>1, <3>2 DEF EventFits
        <3>5. ~BusyFor(p, i)
            BY <3>1 DEF BusyFor, Locked, Current
        <3> QED BY <3>2, <3>3, <3>4, <3>5 DEF EventStays
    <2> QED BY <2>2, <2>3
<1>12. DOMAIN outbox' = 1..n /\ outbox' \in Seq(EventRow)
    <2>1. DOMAIN outbox' = 1..n /\ outbox' = [i \in 1..n |-> outbox'[i]]
        BY <1>1 DEF ClaimBatch
    <2>2. \A i \in 1..n : outbox'[i] \in EventRow
        BY <1>11 DEF EventStays
    <2> QED BY <1>1, <2>1, <2>2
<1>13. /\ UNCHANGED <<entries, history, projection, faults>>
       /\ projection \in [Mem -> Text \cup {NoText}] /\ faults \in 0..MaxFaults
    BY DEF ClaimBatch, MemInvariant, MemTypes
<1> QED BY <1>8, <1>9, <1>10, <1>11, <1>12, <1>13 DEF WorkStep

\* The publisher p moves on, and one event, its own, changes.
LEMMA OwnStep ==
    ASSUME MemInvariant, NEW p \in Publisher, NEW row \in PublisherRow, OwnRowFits(p, row),
           publisher' = [publisher EXCEPT ![p] = row], UNCHANGED <<entries, history>>,
           DOMAIN outbox' = 1..Len(outbox), outbox' \in Seq(EventRow),
           \A i \in 1..Len(outbox) : EventStays(p, i, outbox'[i]),
           projection' \in [Mem -> Text \cup {NoText}], faults' \in 0..MaxFaults
    PROVE  WorkStep(p)
<1>1. publisher \in [Publisher -> PublisherRow]
    BY DEF MemInvariant, MemTypes, PublishersFit
<1>2. /\ publisher' \in [Publisher -> PublisherRow] /\ publisher'[p] = row
      /\ \A q \in Publisher \ {p} : publisher'[q] = publisher[q]
    BY <1>1
<1> QED BY <1>2 DEF WorkStep

\* An event that was lost meanwhile is skipped.
LEMMA ReadStep ==
    ASSUME MemInvariant, NEW p \in Publisher, ReadEntry(p)
    PROVE  WorkStep(p)
<1>1. /\ publisher[p].phase = "publishing" /\ UNCHANGED <<entries, history, outbox>>
      /\ projection' = projection /\ faults' = faults
      /\ projection \in [Mem -> Text \cup {NoText}] /\ faults \in 0..MaxFaults
    BY DEF ReadEntry, MemInvariant, MemTypes
<1>2. /\ DOMAIN outbox' = 1..Len(outbox) /\ outbox' \in Seq(EventRow)
      /\ \A i \in 1..Len(outbox) : EventStays(p, i, outbox'[i])
    BY <1>1, NoEventChanges
<1>3. /\ publisher[p] \in PublisherRow /\ publisher[p].batch # <<>>
      /\ outbox[Current(p)] \in EventRow
    BY <1>1, WorkKnown
<1>4. CASE Owns(p)
    <2> DEFINE x == entries[outbox[Current(p)].mem].text
               row == [publisher[p] EXCEPT !.phase = "encoding", !.read = x]
    <2>1. publisher' = [publisher EXCEPT ![p] = row]
        BY <1>4 DEF ReadEntry
    <2>2. outbox[Current(p)].mem \in Mem
        BY <1>3 DEF EventRow
    <2>3. x \in Text \cup {NoText}
        BY <2>2 DEF MemInvariant, MemTypes, EntriesFit, MemoryRow
    <2> HIDE DEF x
    <2>4. row \in PublisherRow /\ row.batch = publisher[p].batch
        BY <1>3, <2>3 DEF PublisherRow
    <2> HIDE DEF row
    <2>5. OwnRowFits(p, row)
        BY <1>1, <1>3, <1>4, <2>4 DEF OwnRowFits, Owns, Current, MemInvariant, MemTypes,
           PublishersFit
    <2> QED BY <1>1, <1>2, <2>1, <2>4, <2>5, OwnStep
<1>5. CASE ~Owns(p)
    <2>1. publisher' = [publisher EXCEPT ![p] = Rest(p)]
        BY <1>5 DEF ReadEntry
    <2>2. OwnRowFits(p, Rest(p)) /\ Rest(p) \in PublisherRow
        BY <1>1, RestFits
    <2> QED BY <1>1, <1>2, <2>1, <2>2, OwnStep
<1> QED BY <1>4, <1>5

\* An unpublished event has attempts left.
LEMMA AttemptsLeft ==
    ASSUME MemInvariant, NEW p \in Publisher, publisher[p].phase = "encoding"
    PROVE  /\ outbox[Current(p)].attempts \in 0..MaxAttempts /\ ~outbox[Current(p)].dead
           /\ ~outbox[Current(p)].published /\ outbox[Current(p)].claim = p
<1>1. /\ Owns(p) /\ Current(p) \in 1..Len(outbox) /\ outbox[Current(p)] \in EventRow
    BY WorkKnown
<1>2. ~outbox[Current(p)].published /\ outbox[Current(p)].claim = p
    BY <1>1 DEF Owns
<1>3. ~outbox[Current(p)].dead /\ outbox[Current(p)].attempts <= MaxAttempts
    BY <1>1, <1>2, MemAssumption DEF MemInvariant, EventsFit
<1> QED BY <1>1, <1>2, <1>3, MemAssumption DEF EventRow

\* A published event is done with.
LEMMA WriteStep ==
    ASSUME MemInvariant, NEW p \in Publisher, WriteProjection(p)
    PROVE  WorkStep(p)
<1> DEFINE i == Current(p)
           o == outbox[i]
           e == Published(o)
<1>1. /\ publisher[p].phase = "encoding" /\ UNCHANGED <<entries, history, faults>>
      /\ publisher' = [publisher EXCEPT ![p] = Rest(p)]
      /\ projection' = [projection EXCEPT ![o.mem] = Source(p)]
      /\ outbox' = [outbox EXCEPT ![i] = Published(@)]
    BY DEF WriteProjection
<1>2. publisher[p] \in PublisherRow /\ i \in 1..Len(outbox) /\ o \in EventRow
    BY <1>1, WorkKnown
<1>3. o.attempts \in 0..MaxAttempts /\ ~o.dead
    BY <1>1, AttemptsLeft
<1>4. outbox' = [outbox EXCEPT ![i] = e]
    BY <1>1, <1>2 DEF MemInvariant, MemTypes
<1> HIDE DEF i, o
<1>5. /\ e \in EventRow /\ e.mem = o.mem /\ e.version = o.version /\ e.published
      /\ e.dead = o.dead /\ e.claim = NoPublisher
    <2>1. PICK n \in Nat : n = o.attempts + 1 /\ n \in 0..(MaxAttempts + 2)
        BY <1>3, MemAssumption
    <2>2. e = [o EXCEPT !.published = TRUE, !.due = "now", !.claim = NoPublisher,
                        !.lapsed = FALSE, !.attempts = n]
        BY <1>2, <2>1 DEF Published, EventRow
    <2> HIDE DEF e
    <2> QED BY <1>2, <2>1, <2>2 DEF EventRow
<1> HIDE DEF e
<1>6. ~BusyFor(p, i)
    BY <1>1, NotBusy DEF i
<1>7. EventStays(p, i, e)
    BY <1>3, <1>5, <1>6 DEF EventStays, EventFits, o
<1>8. /\ DOMAIN outbox' = 1..Len(outbox) /\ outbox' \in Seq(EventRow)
      /\ \A j \in 1..Len(outbox) : EventStays(p, j, outbox'[j])
    BY <1>2, <1>4, <1>7, EventChanges
<1>9. projection' \in [Mem -> Text \cup {NoText}] /\ faults' \in 0..MaxFaults
    BY <1>1, <1>2 DEF Source, PublisherRow, MemInvariant, MemTypes
<1>10. OwnRowFits(p, Rest(p)) /\ Rest(p) \in PublisherRow
    BY <1>1, RestFits
<1> QED BY <1>1, <1>8, <1>9, <1>10, OwnStep

\* An event that failed has used one of its attempts.
LEMMA FailStep ==
    ASSUME MemInvariant, NEW p \in Publisher, PublishFails(p)
    PROVE  WorkStep(p)
<1> DEFINE i == Current(p)
           o == outbox[i]
           e == PutOff(o)
<1>1. /\ publisher[p].phase = "encoding" /\ UNCHANGED <<entries, history, projection>>
      /\ publisher' = [publisher EXCEPT ![p] = Rest(p)]
      /\ outbox' = [outbox EXCEPT ![i] = PutOff(@)]
      /\ faults' = faults \/ (faults > 0 /\ faults' = faults - 1)
    BY DEF PublishFails
<1>2. publisher[p] \in PublisherRow /\ i \in 1..Len(outbox) /\ o \in EventRow
    BY <1>1, WorkKnown
<1>3. o.attempts \in 0..MaxAttempts /\ ~o.dead /\ ~o.published
    BY <1>1, AttemptsLeft
<1>4. outbox' = [outbox EXCEPT ![i] = e]
    BY <1>1, <1>2 DEF MemInvariant, MemTypes
<1> HIDE DEF i, o
<1>5. PICK n \in 0..(MaxAttempts + 2) :
          /\ n = o.attempts + 1
          /\ e = [o EXCEPT !.attempts = n, !.claim = NoPublisher, !.lapsed = FALSE,
                           !.dead = (n > MaxAttempts),
                           !.due = IF n > MaxAttempts THEN "none" ELSE "later"]
    <2>1. PICK n \in 0..(MaxAttempts + 2) : n = o.attempts + 1
        BY <1>3, MemAssumption
    <2> QED BY <1>2, <2>1 DEF PutOff, EventRow
<1>6. /\ e \in EventRow /\ e.mem = o.mem /\ e.version = o.version
      /\ e.claim = NoPublisher /\ e.attempts = n
      /\ ~e.dead => n <= MaxAttempts
    <2>1. CASE n > MaxAttempts
        <3>1. (n > MaxAttempts) = TRUE
            BY <2>1
        <3>2. e = [o EXCEPT !.attempts = n, !.claim = NoPublisher,
                            !.lapsed = FALSE, !.dead = TRUE, !.due = "none"]
            BY <1>2, <1>5, <3>1 DEF EventRow
        <3> HIDE DEF e
        <3> QED BY <1>2, <3>2 DEF EventRow
    <2>2. CASE ~(n > MaxAttempts)
        <3>1. (n > MaxAttempts) = FALSE
            BY <2>2
        <3>2. e = [o EXCEPT !.attempts = n, !.claim = NoPublisher,
                            !.lapsed = FALSE, !.dead = FALSE, !.due = "later"]
            BY <1>2, <1>5, <3>1 DEF EventRow
        <3> HIDE DEF e
        <3>3. n <= MaxAttempts
            BY <2>2, MemAssumption
        <3> QED BY <1>2, <3>2, <3>3 DEF EventRow
    <2> QED BY <2>1, <2>2
<1> HIDE DEF e
<1>7. ~BusyFor(p, i)
    BY <1>1, NotBusy DEF i
<1>8. EventStays(p, i, e)
    BY <1>6, <1>7 DEF EventStays, EventFits, o
<1>9. /\ DOMAIN outbox' = 1..Len(outbox) /\ outbox' \in Seq(EventRow)
      /\ \A j \in 1..Len(outbox) : EventStays(p, j, outbox'[j])
    BY <1>2, <1>4, <1>8, EventChanges
<1>10. projection' \in [Mem -> Text \cup {NoText}] /\ faults' \in 0..MaxFaults
    BY <1>1, MemAssumption DEF MemInvariant, MemTypes
<1>11. OwnRowFits(p, Rest(p)) /\ Rest(p) \in PublisherRow
    BY <1>1, RestFits
<1> QED BY <1>1, <1>9, <1>10, <1>11, OwnStep

\* A worker that dies leaves its claims to the lease.
LEMMA CrashStep ==
    ASSUME MemInvariant, NEW p \in Publisher, PublisherCrashes(p)
    PROVE  WorkStep(p)
<1>1. /\ UNCHANGED <<entries, history, outbox, projection>>
      /\ publisher' = [publisher EXCEPT ![p] = Resting]
      /\ projection \in [Mem -> Text \cup {NoText}] /\ faults' \in 0..MaxFaults
    BY MemAssumption DEF PublisherCrashes, MemInvariant, MemTypes
<1>2. /\ DOMAIN outbox' = 1..Len(outbox) /\ outbox' \in Seq(EventRow)
      /\ \A i \in 1..Len(outbox) : EventStays(p, i, outbox'[i])
    BY <1>1, NoEventChanges
<1>3. OwnRowFits(p, Resting) /\ Resting \in PublisherRow
    BY EmptySeq DEF OwnRowFits, PublisherRow, Resting
<1> QED BY <1>1, <1>2, <1>3, OwnStep

\* One event changes by itself, or at an operator's request.
LEMMA TimeStep ==
    ASSUME MemInvariant, NEW i \in DOMAIN outbox, NEW e, EventStays(NoPublisher, i, e),
           outbox' = [outbox EXCEPT ![i] = e], UNCHANGED <<entries, history, projection, publisher>>,
           faults' \in 0..MaxFaults
    PROVE  WorkStep(NoPublisher)
<1>1. i \in 1..Len(outbox)
    BY LenProperties DEF MemInvariant, MemTypes
<1>2. /\ DOMAIN outbox' = 1..Len(outbox) /\ outbox' \in Seq(EventRow)
      /\ \A j \in 1..Len(outbox) : EventStays(NoPublisher, j, outbox'[j])
    BY <1>1, EventChanges
<1> QED BY <1>2, MemAssumption DEF WorkStep, MemInvariant, MemTypes, PublishersFit

\* The delay and the lease run out, and a requeued event starts over.
LEMMA TimeSteps ==
    ASSUME MemInvariant, NEW i \in DOMAIN outbox,
           EventAvailable(i) \/ ClaimLapses(i) \/ RequeueEvent(i)
    PROVE  WorkStep(NoPublisher)
<1> DEFINE o == outbox[i]
<1>1. /\ i \in 1..Len(outbox) /\ o \in EventRow /\ EventFits(o) /\ faults \in 0..MaxFaults
      /\ outbox \in Seq(EventRow)
    BY LenProperties DEF MemInvariant, MemTypes, EventsFit, EventFits
<1>2. CASE EventAvailable(i)
    <2> DEFINE e == [o EXCEPT !.due = "now"]
    <2>1. outbox' = [outbox EXCEPT ![i] = e] /\ UNCHANGED <<entries, history, projection, publisher>>
          /\ faults' = faults
        BY <1>2 DEF EventAvailable
    <2> HIDE DEF o
    <2>2. /\ e \in EventRow /\ e.mem = o.mem /\ e.version = o.version /\ e.claim = o.claim
          /\ e.published = o.published /\ e.dead = o.dead /\ e.attempts = o.attempts
        BY <1>1 DEF EventRow
    <2> HIDE DEF e
    <2>3. EventStays(NoPublisher, i, e)
        BY <1>1, <2>2 DEF EventStays, EventFits, o
    <2> QED BY <1>1, <2>1, <2>3, TimeStep
<1>3. CASE ClaimLapses(i)
    <2> DEFINE e == [o EXCEPT !.lapsed = TRUE]
    <2>1. outbox' = [outbox EXCEPT ![i] = e] /\ UNCHANGED <<entries, history, projection, publisher>>
        BY <1>3 DEF ClaimLapses
    <2>2. faults' \in 0..MaxFaults
        BY <1>1, <1>3, MemAssumption DEF ClaimLapses
    <2> HIDE DEF o
    <2>3. /\ e \in EventRow /\ e.mem = o.mem /\ e.version = o.version /\ e.claim = o.claim
          /\ e.published = o.published /\ e.dead = o.dead /\ e.attempts = o.attempts
        BY <1>1 DEF EventRow
    <2> HIDE DEF e
    <2>4. EventStays(NoPublisher, i, e)
        BY <1>1, <2>3 DEF EventStays, EventFits, o
    <2> QED BY <1>1, <2>1, <2>2, <2>4, TimeStep
<1>4. CASE RequeueEvent(i)
    <2> DEFINE e == Announcement(o.mem, o.version)
    <2>1. outbox' = [outbox EXCEPT ![i] = e] /\ UNCHANGED <<entries, history, projection, publisher>>
          /\ ~Locked(i)
        BY <1>1, <1>4 DEF RequeueEvent
    <2>2. faults' \in 0..MaxFaults
        BY <1>1, <1>4, MemAssumption DEF RequeueEvent
    <2> HIDE DEF o
    <2>3. /\ e \in EventRow /\ e.mem = o.mem /\ e.version = o.version /\ ~e.dead
          /\ e.attempts = 0
        BY <1>1, MemAssumption DEF EventRow, Announcement
    <2> HIDE DEF e
    <2>4. ~BusyFor(NoPublisher, i)
        BY <2>1 DEF BusyFor, Locked, Current
    <2>5. EventStays(NoPublisher, i, e)
        BY <2>3, <2>4, MemAssumption DEF EventStays, EventFits, o
    <2> QED BY <1>1, <2>1, <2>2, <2>5, TimeStep
<1> QED BY <1>2, <1>3, <1>4

-----------------------------------------------------------------------------
\* No memory has been issued.
LEMMA MemStarts == MemInit => MemInvariant
<1> SUFFICES ASSUME MemInit PROVE MemInvariant
    OBVIOUS
<1> USE DEF MemInit
<1>1. outbox \in Seq(EventRow) /\ Len(outbox) = 0 /\ DOMAIN outbox = {}
    BY EmptySeq
<1>2. \A m \in Mem : Len(history[m]) = 0 /\ history[m] \in Seq(MemoryEvent)
                      /\ entries[m].version = 0 /\ entries[m].text = NoText
    BY EmptySeq
<1>3. EntriesFit
    BY <1>2, MemAssumption, EmptySeq DEF EntriesFit, MemoryRow, Exists
<1>4. PublishersFit(0)
    BY EmptySeq DEF PublishersFit, PublisherRow, Resting
<1>5. MemTypes
    BY <1>1, <1>3, <1>4, MemAssumption DEF MemTypes
<1>6. EventsFit /\ WorkFits
    BY <1>1 DEF EventsFit, WorkFits, Resting
<1>7. EveryVersionRecorded
    BY <1>1, <1>2 DEF EveryVersionRecorded
<1> QED BY <1>5, <1>6, <1>7 DEF MemInvariant

\* What users and the model ask for are batches of two actions.
LEMMA ActionsFit ==
    /\ \A x \in Text : TwoActions(Action("ADD", NoMem, x), Nothing)
    /\ \A m \in Mem, x \in Text : TwoActions(Action("UPDATE", m, x), Nothing)
    /\ \A m \in Mem : TwoActions(Action("DELETE", m, NoText), Nothing)
    /\ \A a, b \in Proposals : Valid(<<a, b>>) => TwoActions(a, b)
<1>1. ASSUME NEW a \in Proposals
      PROVE  WellFormed(a)
    <2>1. CASE a \in {Action("NONE", m, NoText) : m \in Mem \cup {NoMem}}
        BY <2>1 DEF WellFormed, Action, ProposedAction
    <2>2. CASE a \in {Action("ADD", NoMem, x) : x \in Text}
        BY <2>2 DEF WellFormed, Action, ProposedAction
    <2>3. CASE a \in {Action("UPDATE", m, x) : m \in Mem, x \in Text}
        BY <2>3 DEF WellFormed, Action, ProposedAction
    <2>4. CASE a \in {Action("DELETE", m, NoText) : m \in Mem}
        BY <2>4 DEF WellFormed, Action, ProposedAction
    <2> QED BY <2>1, <2>2, <2>3, <2>4 DEF Proposals
<1>2. /\ \A x \in Text : Action("ADD", NoMem, x) \in Proposals
      /\ \A m \in Mem, x \in Text : Action("UPDATE", m, x) \in Proposals
      /\ \A m \in Mem : Action("DELETE", m, NoText) \in Proposals
      /\ Nothing \in Proposals
    BY DEF Proposals, Nothing
<1>3. Nothing.mem = NoMem
    BY DEF Nothing, Action
<1>4. \A m \in Mem : m # NoMem
    BY MemAssumption
<1>5. ASSUME NEW a \in Proposals, NEW b \in Proposals, Valid(<<a, b>>)
      PROVE  TwoActions(a, b)
    <2>1. DOMAIN <<a, b>> = {1, 2} /\ <<a, b>>[1] = a /\ <<a, b>>[2] = b
        OBVIOUS
    <2>2. a.mem # NoMem => a.mem # b.mem
        BY <1>5, <2>1 DEF Valid
    <2> QED BY <1>1, <2>2 DEF TwoActions
<1>6. \A e, m, x : Action(e, m, x).mem = m
    BY DEF Action
<1> QED BY <1>1, <1>2, <1>3, <1>4, <1>5, <1>6 DEF TwoActions

\* Every step is a transaction of the service, or a step of a worker or of time.
LEMMA MemSteps ==
    ASSUME MemInvariant, MemNext
    PROVE  (\E tx : Committed(tx)) \/ \E p \in Publisher \cup {NoPublisher} : WorkStep(p)
<1>1. MemTypes /\ "user" \in {"user", "agent"} /\ "agent" \in {"user", "agent"}
    BY DEF MemInvariant
<1>2. CASE \E x \in Text : Create(x)
    <2>1. PICK x \in Text : ApplyActions(<<Action("ADD", NoMem, x), Nothing>>, "user")
        BY <1>2 DEF Create
    <2> QED BY <1>1, <2>1, Commits, ActionsFit
<1>3. CASE \E m \in Mem, x \in Text : UserUpdates(m, x)
    <2>1. PICK m \in Mem, x \in Text :
              ApplyActions(<<Action("UPDATE", m, x), Nothing>>, "user")
        BY <1>3 DEF UserUpdates
    <2> QED BY <1>1, <2>1, Commits, ActionsFit
<1>4. CASE \E m \in Mem : UserDeletes(m)
    <2>1. PICK m \in Mem : ApplyActions(<<Action("DELETE", m, NoText), Nothing>>, "user")
        BY <1>4 DEF UserDeletes
    <2> QED BY <1>1, <2>1, Commits, ActionsFit
<1>5. CASE \E a, b \in Proposals : AgentDecides(a, b)
    <2>1. PICK a \in Proposals, b \in Proposals :
              Valid(<<a, b>>) /\ ApplyActions(<<a, b>>, "agent")
        BY <1>5 DEF AgentDecides
    <2>2. TwoActions(a, b)
        BY <2>1, ActionsFit
    <2> QED BY <1>1, <2>1, <2>2, Commits
<1>6. CASE \E p \in Publisher : Publish(p) \/ PublisherCrashes(p)
    BY <1>6, ClaimStep, ReadStep, WriteStep, FailStep, CrashStep DEF Publish
<1>7. CASE \E i \in DOMAIN outbox : EventAvailable(i) \/ ClaimLapses(i) \/ RequeueEvent(i)
    BY <1>7, TimeSteps
<1> QED BY <1>2, <1>3, <1>4, <1>5, <1>6, <1>7, Zenon DEF MemNext

\* Every step keeps the invariant.
LEMMA MemKeeps == MemInvariant /\ [MemNext]_memVars => MemInvariant'
<1>1. ASSUME MemInvariant, MemNext PROVE MemInvariant'
    BY <1>1, MemSteps, CommitKeeps, WorkKeeps
<1>2. ASSUME MemInvariant, UNCHANGED memVars PROVE MemInvariant'
    BY <1>2 DEF MemInvariant, MemTypes, EntriesFit, PublishersFit, EventsFit, WorkFits, Owns,
       Current, EveryVersionRecorded, memVars
<1> QED BY <1>1, <1>2

\* For any memories, texts, publishers, versions and faults: what is recorded, announced and
\* claimed fits together.
THEOREM MemInvariance == MemSpec => []MemInvariant
BY MemStarts, MemKeeps, PTL DEF MemSpec

\* Every version has its audit record and, unless it is the last, its outbox event
\* (MemoryService._record, ._outbox).
THEOREM EveryVersionHasItsEvent == MemSpec => []EveryVersionRecorded
<1>1. MemInvariant => EveryVersionRecorded
    BY DEF MemInvariant
<1> QED BY <1>1, MemInvariance, PTL

\* The rows of the memory service and the state of its workers have their types.
THEOREM MemTypeCorrect == MemSpec => []MemTypeOK
<1>1. MemInvariant => MemTypeOK
    <2> SUFFICES ASSUME MemInvariant PROVE MemTypeOK
        OBVIOUS
    <2>1. MemTypes /\ EntriesFit /\ PublishersFit(Len(outbox))
        BY DEF MemInvariant, MemTypes
    <2>2. entries \in [Mem -> [text : Text \cup {NoText}, version : 0..MaxVersion,
                               source : {"user", "agent"}]]
        <3>1. ASSUME NEW m \in Mem
              PROVE  entries[m] \in [text : Text \cup {NoText}, version : 0..MaxVersion,
                                     source : {"user", "agent"}]
            <4>1. /\ entries[m] \in MemoryRow /\ entries[m].version \in Nat
                  /\ entries[m].version <= MaxVersion
                BY <2>1 DEF EntriesFit, MemoryRow
            <4>2. entries[m].version \in 0..MaxVersion
                BY <4>1, MemAssumption
            <4> QED BY <4>1, <4>2 DEF MemoryRow
        <3> QED BY <2>1, <3>1 DEF EntriesFit
    <2>3. ASSUME NEW p \in Publisher
          PROVE  publisher[p] \in [batch : Seq(DOMAIN outbox),
                                   phase : {"idle", "publishing", "encoding"},
                                   read : Text \cup {NoText}]
        <3>1. /\ publisher[p] \in PublisherRow
              /\ \A k \in 1..Len(publisher[p].batch) :
                    publisher[p].batch[k] \in 1..Len(outbox)
            BY <2>1 DEF PublishersFit
        <3>2. DOMAIN outbox = 1..Len(outbox)
            BY <2>1, LenProperties DEF MemTypes
        <3>3. publisher[p].batch \in Seq(DOMAIN outbox)
            BY <3>1, <3>2 DEF PublisherRow
        <3> QED BY <3>1, <3>3 DEF PublisherRow
    <2>4. publisher \in [Publisher -> [batch : Seq(DOMAIN outbox),
                                       phase : {"idle", "publishing", "encoding"},
                                       read : Text \cup {NoText}]]
        BY <2>1, <2>3 DEF PublishersFit
    <2> QED BY <2>1, <2>2, <2>4 DEF MemTypes, EntriesFit, MemTypeOK, EventRow, MemoryEvent
<1> QED BY <1>1, MemInvariance, PTL

-----------------------------------------------------------------------------
(***************************************************************************)
(* With one publisher.                                                     *)
(***************************************************************************)
Unpublished(m) == \E i \in 1..Len(outbox) : outbox[i].mem = m /\ ~outbox[i].published

\* Whatever p has read and is outdated is made up for by an event that is still to come.
StaleCovered(p) ==
    \A m \in Mem :
        publisher[p].phase = "encoding" /\ outbox[Current(p)].mem = m =>
            /\ publisher[p].read = NoText => ~Exists(entries[m])
            /\ Exists(entries[m]) /\ publisher[p].read # entries[m].text =>
                  \E i \in 1..Len(outbox) :
                      i # Current(p) /\ outbox[i].mem = m /\ ~outbox[i].published

CaughtUp(p) ==
    StaleCovered(p) /\ \A m \in Mem : Unpublished(m) \/ projection[m] = entries[m].text

\* A transaction announces what it makes outdated, or deletes it.
LEMMA CommitCaughtUp ==
    ASSUME MemInvariant, NEW p \in Publisher, CaughtUp(p), NEW tx, Committed(tx)
    PROVE  CaughtUp(p)'
<1> DEFINE n == Len(outbox)
           k == Len(tx.changed)
<1>1. /\ TxFits(tx) /\ entries' = tx.objects /\ projection' = Cascaded(tx.objects)
      /\ publisher' = publisher /\ k \in Nat /\ Len(outbox') = n + k /\ n \in Nat
      /\ \A i \in 1..n : outbox'[i] = outbox[i] /\ i \in 1..Len(outbox')
      /\ \A j \in 1..k : outbox'[n + j]
                            = Announcement(tx.changed[j], tx.objects[tx.changed[j]].version)
    BY LenProperties DEF Committed, MemInvariant, MemTypes
<1>2. \A m \in Mem : Unpublished(m) => Unpublished(m)'
    BY <1>1 DEF Unpublished
<1>3. \A m \in Mem : Listed(tx.changed, m) =>
          \E i \in 1..Len(outbox') :
              i \notin 1..n /\ outbox'[i].mem = m /\ ~outbox'[i].published
    <2> SUFFICES ASSUME NEW m \in Mem, NEW j \in 1..k, tx.changed[j] = m
                 PROVE  \E i \in 1..Len(outbox') :
                            i \notin 1..n /\ outbox'[i].mem = m /\ ~outbox'[i].published
        BY DEF Listed
    <2>1. n + j \in 1..Len(outbox') /\ n + j \notin 1..n
        BY <1>1
    <2>2. outbox'[n + j] = Announcement(m, tx.objects[m].version)
        BY <1>1
    <2>3. outbox'[n + j].mem = m /\ ~outbox'[n + j].published
        BY <2>2 DEF Announcement
    <2> QED BY <2>1, <2>3
<1>4. ASSUME NEW m \in Mem
      PROVE  Unpublished(m)' \/ projection'[m] = entries'[m].text
    <2>1. CASE Untouched(tx, m)
        <3>1. entries'[m] = entries[m]
            BY <1>1, <2>1 DEF Untouched
        <3>2. CASE Unpublished(m)
            BY <1>2, <3>2
        <3>3. CASE projection[m] = entries[m].text
            BY <1>1, <3>1, <3>3 DEF Cascaded, Exists
        <3> QED BY <3>2, <3>3 DEF CaughtUp
    <2>2. CASE Versioned(tx, m)
        <3>1. CASE Listed(tx.changed, m)
            BY <1>3, <3>1 DEF Unpublished
        <3>2. CASE ~Listed(tx.changed, m)
            <4>1. ~Exists(entries'[m])
                BY <1>1, <2>2, <3>2 DEF Versioned
            <4> QED BY <1>1, <4>1 DEF Cascaded, Exists
        <3> QED BY <3>1, <3>2
    <2> QED BY <1>1, <2>1, <2>2 DEF TxFits
<1>5. StaleCovered(p)'
    <2> SUFFICES ASSUME NEW m \in Mem, publisher[p].phase = "encoding",
                        outbox'[Current(p)].mem = m
                 PROVE  /\ publisher[p].read = NoText => ~Exists(entries'[m])
                        /\ Exists(entries'[m]) /\ publisher[p].read # entries'[m].text =>
                              \E i \in 1..Len(outbox') :
                                  i # Current(p) /\ outbox'[i].mem = m /\ ~outbox'[i].published
        BY <1>1 DEF StaleCovered, Current
    <2>1. Current(p) \in 1..n /\ outbox[Current(p)].mem = m
          /\ outbox[Current(p)] \in EventRow
        BY <1>1, WorkKnown
    <2>2. /\ publisher[p].read = NoText => ~Exists(entries[m])
          /\ Exists(entries[m]) /\ publisher[p].read # entries[m].text =>
                \E i \in 1..Len(outbox) :
                    i # Current(p) /\ outbox[i].mem = m /\ ~outbox[i].published
        BY <2>1 DEF CaughtUp, StaleCovered
    <2>3. entries[m].version # 0
        <3>1. outbox[Current(p)].version <= entries[m].version
            BY <2>1 DEF MemInvariant, EventsFit
        <3>2. entries[m].version \in Nat
            BY DEF MemInvariant, MemTypes, EntriesFit, MemoryRow
        <3>3. \A e \in EventRow : e.version \in Nat /\ e.version > 0
            BY MemAssumption DEF EventRow
        <3> QED BY <2>1, <3>1, <3>2, <3>3
    <2>4. CASE Untouched(tx, m)
        <3>1. entries'[m] = entries[m]
            BY <1>1, <2>4 DEF Untouched
        <3> QED BY <1>1, <2>2, <3>1
    <2>5. CASE Versioned(tx, m)
        <3>1. Exists(entries[m])
            BY <2>3, <2>5 DEF Versioned
        <3>2. CASE Listed(tx.changed, m)
            BY <1>3, <2>1, <2>2, <3>1, <3>2
        <3>3. CASE ~Listed(tx.changed, m)
            <4>1. ~Exists(entries'[m])
                BY <1>1, <2>5, <3>3 DEF Versioned
            <4> QED BY <4>1
        <3> QED BY <3>2, <3>3
    <2> QED BY <1>1, <2>4, <2>5 DEF TxFits
<1> QED BY <1>4, <1>5 DEF CaughtUp

\* Nothing is published, and what p reads is up to date.
QuietStep(p) ==
    /\ UNCHANGED <<entries, projection>> /\ Len(outbox') = Len(outbox)
    /\ \A i \in 1..Len(outbox) :
           outbox'[i].mem = outbox[i].mem /\ outbox'[i].published = outbox[i].published
    /\ \/ publisher'[p] = publisher[p]
       \/ publisher'[p].phase # "encoding"
       \/ /\ publisher'[p].batch = publisher[p].batch /\ publisher[p].phase # "idle"
          /\ publisher'[p].read = entries[outbox[Current(p)].mem].text

\* Where nothing is published nothing falls behind.
LEMMA QuietCaughtUp ==
    ASSUME MemInvariant, NEW p \in Publisher, CaughtUp(p), QuietStep(p)
    PROVE  CaughtUp(p)'
<1>1. \A m \in Mem : Unpublished(m)' <=> Unpublished(m)
    BY DEF QuietStep, Unpublished
<1>2. \A m \in Mem : Unpublished(m)' \/ projection'[m] = entries'[m].text
    BY <1>1 DEF CaughtUp, QuietStep
<1>3. StaleCovered(p)'
    <2> SUFFICES ASSUME NEW m \in Mem, publisher'[p].phase = "encoding",
                        outbox'[Current(p)'].mem = m
                 PROVE  /\ publisher'[p].read = NoText => ~Exists(entries[m])
                        /\ Exists(entries[m]) /\ publisher'[p].read # entries[m].text =>
                              \E i \in 1..Len(outbox) : i # Current(p)'
                                  /\ outbox'[i].mem = m /\ ~outbox'[i].published
        BY DEF StaleCovered, QuietStep
    <2>1. CASE publisher'[p] = publisher[p]
        <3>1. Current(p)' = Current(p) /\ Current(p) \in 1..Len(outbox)
            BY <2>1, WorkKnown DEF Current
        <3>2. outbox[Current(p)].mem = m
            BY <3>1 DEF QuietStep
        <3>3. /\ publisher[p].read = NoText => ~Exists(entries[m])
              /\ Exists(entries[m]) /\ publisher[p].read # entries[m].text =>
                    \E i \in 1..Len(outbox) :
                        i # Current(p) /\ outbox[i].mem = m /\ ~outbox[i].published
            BY <2>1, <3>2 DEF CaughtUp, StaleCovered
        <3> QED BY <2>1, <3>1, <3>3 DEF QuietStep
    <2>2. CASE /\ publisher'[p].batch = publisher[p].batch /\ publisher[p].phase # "idle"
               /\ publisher'[p].read = entries[outbox[Current(p)].mem].text
        <3>1. Current(p)' = Current(p) /\ Current(p) \in 1..Len(outbox)
            BY <2>2, WorkKnown DEF Current
        <3>2. outbox[Current(p)].mem = m
            BY <3>1 DEF QuietStep
        <3> QED BY <2>2, <3>2 DEF Exists
    <2> QED BY <2>1, <2>2 DEF QuietStep
<1> QED BY <1>2, <1>3 DEF CaughtUp

\* The projection that is stored is that of the newest text, or is not the last.
LEMMA WriteCaughtUp ==
    ASSUME MemInvariant, NEW p \in Publisher, CaughtUp(p), WriteProjection(p)
    PROVE  CaughtUp(p)'
<1> DEFINE i == Current(p)
           m == outbox[i].mem
<1>1. /\ publisher[p].phase = "encoding" /\ UNCHANGED <<entries, history, faults>>
      /\ publisher' = [publisher EXCEPT ![p] = Rest(p)]
      /\ projection' = [projection EXCEPT ![m] = publisher[p].read]
      /\ outbox' = [outbox EXCEPT ![i] = Published(@)]
      /\ publisher[p].read # NoText => Exists(entries[m])
    BY DEF WriteProjection, Source
<1>2. i \in 1..Len(outbox) /\ outbox[i] \in EventRow /\ m \in Mem
    BY <1>1, WorkKnown DEF EventRow
<1>3. publisher'[p].phase # "encoding"
    BY <1>1, RestFits DEF MemInvariant, MemTypes, PublishersFit
<1>4. StaleCovered(p)'
    BY <1>3 DEF StaleCovered
<1>5. /\ \A j \in 1..Len(outbox) \ {i} : outbox'[j] = outbox[j]
      /\ Len(outbox') = Len(outbox) /\ outbox'[i].mem = m /\ outbox'[i].published
    <2>1. outbox \in Seq(EventRow) /\ DOMAIN outbox = 1..Len(outbox) /\ Len(outbox) \in Nat
        BY LenProperties DEF MemInvariant, MemTypes
    <2>2. Published(outbox[i]).mem = m /\ Published(outbox[i]).published
        BY <1>2 DEF Published, EventRow
    <2> HIDE DEF i
    <2>3. outbox' = [outbox EXCEPT ![i] = Published(outbox[i])]
        BY <1>1, <1>2, <2>1
    <2>4. DOMAIN outbox' = 1..Len(outbox) /\ Len(outbox') = Len(outbox)
        BY <2>1, <2>3
    <2> QED BY <1>2, <2>1, <2>2, <2>3, <2>4
<1>6. ASSUME NEW o \in Mem
      PROVE  Unpublished(o)' \/ projection'[o] = entries'[o].text
    <2>1. CASE o # m
        <3>1. projection'[o] = projection[o]
            BY <1>1, <1>2, <2>1 DEF MemInvariant, MemTypes
        <3>2. Unpublished(o) => Unpublished(o)'
            BY <1>5, <2>1 DEF Unpublished
        <3> QED BY <1>1, <3>1, <3>2 DEF CaughtUp
    <2>2. CASE o = m
        <3>1. projection'[m] = publisher[p].read
            BY <1>1, <1>2 DEF MemInvariant, MemTypes
        <3>2. /\ publisher[p].read = NoText => ~Exists(entries[m])
              /\ Exists(entries[m]) /\ publisher[p].read # entries[m].text =>
                    \E j \in 1..Len(outbox) :
                        j # i /\ outbox[j].mem = m /\ ~outbox[j].published
            BY <1>1, <1>2 DEF CaughtUp, StaleCovered
        <3> HIDE DEF i, m
        <3>3. CASE publisher[p].read = entries[m].text
            BY <1>1, <2>2, <3>1, <3>3
        <3>4. CASE publisher[p].read # entries[m].text
            <4>1. Exists(entries[m])
                BY <1>1, <3>2, <3>4 DEF Exists
            <4>2. PICK j \in 1..Len(outbox) : j # i /\ outbox[j].mem = m /\ ~outbox[j].published
                BY <3>2, <3>4, <4>1
            <4>3. j \in 1..Len(outbox') /\ outbox'[j] = outbox[j]
                BY <1>5, <4>2
            <4> QED BY <2>2, <4>2, <4>3 DEF Unpublished
        <3> QED BY <3>3, <3>4
    <2> QED BY <2>1, <2>2
<1> QED BY <1>4, <1>6 DEF CaughtUp

\* The steps that publish nothing.
LEMMA QuietSteps ==
    ASSUME MemInvariant, NEW p \in Publisher,
           \/ ClaimBatch(p) \/ ReadEntry(p) \/ PublishFails(p) \/ PublisherCrashes(p)
           \/ \E i \in DOMAIN outbox : EventAvailable(i) \/ ClaimLapses(i) \/ RequeueEvent(i)
    PROVE  QuietStep(p)
<1>1. /\ outbox \in Seq(EventRow) /\ DOMAIN outbox = 1..Len(outbox) /\ Len(outbox) \in Nat
      /\ publisher \in [Publisher -> PublisherRow]
    BY LenProperties DEF MemInvariant, MemTypes, PublishersFit
<1>2. ASSUME NEW i \in 1..Len(outbox), NEW e, outbox' = [outbox EXCEPT ![i] = e],
             e.mem = outbox[i].mem, e.published = outbox[i].published
      PROVE  /\ Len(outbox') = Len(outbox)
             /\ \A j \in 1..Len(outbox) :
                    outbox'[j].mem = outbox[j].mem /\ outbox'[j].published = outbox[j].published
    BY <1>1, <1>2
<1>3. CASE ClaimBatch(p)
    <2>1. outbox' = [i \in 1..Len(outbox) |->
              IF i \in Oldest THEN [outbox[i] EXCEPT !.claim = p, !.lapsed = FALSE]
              ELSE outbox[i]]
        BY <1>1, <1>3 DEF ClaimBatch
    <2>2. \A e \in EventRow : /\ [e EXCEPT !.claim = p, !.lapsed = FALSE].mem = e.mem
                              /\ [e EXCEPT !.claim = p, !.lapsed = FALSE].published = e.published
        BY DEF EventRow
    <2>3. Len(outbox') = Len(outbox)
        <3>1. outbox' \in Seq(EventRow) /\ DOMAIN outbox' = 1..Len(outbox)
            BY <1>3, ClaimStep DEF WorkStep
        <3> QED BY <1>1, <3>1, LenProperties
    <2>4. ASSUME NEW j \in 1..Len(outbox)
          PROVE  outbox'[j].mem = outbox[j].mem /\ outbox'[j].published = outbox[j].published
        <3>1. outbox[j] \in EventRow
            BY <1>1
        <3> QED BY <2>1, <2>2, <3>1
    <2>5. PICK batch : publisher'[p] = [Resting EXCEPT !.phase = "publishing", !.batch = batch]
        BY <1>1, <1>3 DEF ClaimBatch
    <2>6. publisher'[p].phase = "publishing"
        BY <2>5 DEF Resting
    <2> QED BY <1>3, <2>3, <2>4, <2>6 DEF ClaimBatch, QuietStep
<1>4. CASE ReadEntry(p)
    <2>1. UNCHANGED <<entries, outbox, projection>> /\ publisher[p].phase # "idle"
        BY <1>4 DEF ReadEntry
    <2>2. CASE Owns(p)
        <3>1. publisher' = [publisher EXCEPT ![p] = [@ EXCEPT !.phase = "encoding",
                                !.read = entries[outbox[Current(p)].mem].text]]
            BY <1>4, <2>2 DEF ReadEntry
        <3>2. publisher'[p].batch = publisher[p].batch
              /\ publisher'[p].read = entries[outbox[Current(p)].mem].text
            BY <1>1, <3>1 DEF PublisherRow
        <3> QED BY <2>1, <3>2 DEF QuietStep
    <2>3. CASE ~Owns(p)
        <3>1. publisher' = [publisher EXCEPT ![p] = Rest(p)]
            BY <1>4, <2>3 DEF ReadEntry
        <3>2. publisher'[p].phase # "encoding"
            BY <1>1, <2>1, <3>1, RestFits
        <3> QED BY <2>1, <3>2 DEF QuietStep
    <2> QED BY <2>2, <2>3
<1>5. CASE PublishFails(p)
    <2> DEFINE i == Current(p)
    <2>1. /\ publisher[p].phase = "encoding" /\ UNCHANGED <<entries, projection>>
          /\ publisher' = [publisher EXCEPT ![p] = Rest(p)]
          /\ outbox' = [outbox EXCEPT ![i] = PutOff(@)]
        BY <1>5 DEF PublishFails
    <2>2. i \in 1..Len(outbox) /\ outbox[i] \in EventRow
        BY <2>1, WorkKnown
    <2> HIDE DEF i
    <2>3. outbox' = [outbox EXCEPT ![i] = PutOff(outbox[i])]
        BY <1>1, <2>1, <2>2
    <2>4. PutOff(outbox[i]).mem = outbox[i].mem
          /\ PutOff(outbox[i]).published = outbox[i].published
        BY <2>2 DEF PutOff, EventRow
    <2>5. publisher'[p].phase # "encoding"
        BY <1>1, <2>1, RestFits
    <2> QED BY <1>2, <2>1, <2>2, <2>3, <2>4, <2>5 DEF QuietStep
<1>6. CASE PublisherCrashes(p)
    BY <1>1, <1>6 DEF PublisherCrashes, QuietStep, Resting
<1>7. ASSUME NEW i \in DOMAIN outbox, EventAvailable(i) \/ ClaimLapses(i) \/ RequeueEvent(i)
      PROVE  QuietStep(p)
    <2>1. i \in 1..Len(outbox) /\ outbox[i] \in EventRow
        BY <1>1
    <2>2. UNCHANGED <<entries, projection, publisher>>
        BY <1>7 DEF EventAvailable, ClaimLapses, RequeueEvent
    <2>3. PICK e : /\ outbox' = [outbox EXCEPT ![i] = e]
                   /\ e.mem = outbox[i].mem /\ e.published = outbox[i].published
        <3>1. CASE EventAvailable(i)
            <4>1. outbox' = [outbox EXCEPT ![i] = [outbox[i] EXCEPT !.due = "now"]]
                BY <3>1 DEF EventAvailable
            <4>2. /\ [outbox[i] EXCEPT !.due = "now"].mem = outbox[i].mem
                  /\ [outbox[i] EXCEPT !.due = "now"].published = outbox[i].published
                BY <2>1 DEF EventRow
            <4> QED BY <4>1, <4>2
        <3>2. CASE ClaimLapses(i)
            <4>1. outbox' = [outbox EXCEPT ![i] = [outbox[i] EXCEPT !.lapsed = TRUE]]
                BY <3>2 DEF ClaimLapses
            <4>2. /\ [outbox[i] EXCEPT !.lapsed = TRUE].mem = outbox[i].mem
                  /\ [outbox[i] EXCEPT !.lapsed = TRUE].published = outbox[i].published
                BY <2>1 DEF EventRow
            <4> QED BY <4>1, <4>2
        <3>3. CASE RequeueEvent(i)
            <4> DEFINE e == Announcement(outbox[i].mem, outbox[i].version)
            <4>1. outbox' = [outbox EXCEPT ![i] = e] /\ ~outbox[i].published
                BY <1>1, <2>1, <3>3 DEF RequeueEvent
            <4>2. e.mem = outbox[i].mem /\ e.published = FALSE
                BY DEF Announcement
            <4>3. e.published = outbox[i].published
                BY <2>1, <4>1, <4>2 DEF EventRow
            <4> QED BY <4>1, <4>2, <4>3
        <3> QED BY <1>7, <3>1, <3>2, <3>3
    <2> QED BY <1>2, <2>1, <2>2, <2>3 DEF QuietStep
<1> QED BY <1>3, <1>4, <1>5, <1>6, <1>7

\* With one publisher no step leaves a projection behind for good.
LEMMA CaughtUpKept ==
    ASSUME NEW p, Publisher = {p}, MemInvariant, CaughtUp(p), [MemNext]_memVars
    PROVE  CaughtUp(p)'
<1>1. p \in Publisher
    OBVIOUS
<1>2. CASE UNCHANGED memVars
    BY <1>2 DEF memVars, CaughtUp, StaleCovered, Unpublished, Current
<1>3. ASSUME NEW tx, Committed(tx) PROVE CaughtUp(p)'
    BY <1>1, <1>3, CommitCaughtUp
<1>4. ASSUME NEW a, NEW b, TwoActions(a, b), NEW source \in {"user", "agent"},
             ApplyActions(<<a, b>>, source)
      PROVE  CaughtUp(p)'
    BY <1>3, <1>4, Commits DEF MemInvariant
<1>5. CASE \/ \E x \in Text : Create(x)
           \/ \E m \in Mem, x \in Text : UserUpdates(m, x)
           \/ \E m \in Mem : UserDeletes(m)
    BY <1>4, <1>5, ActionsFit DEF Create, UserUpdates, UserDeletes
<1>6. CASE \E a, b \in Proposals : AgentDecides(a, b)
    BY <1>4, <1>6, ActionsFit DEF AgentDecides
<1>7. ASSUME QuietStep(p) PROVE CaughtUp(p)'
    BY <1>1, <1>7, QuietCaughtUp
<1>8. CASE \E q \in Publisher : Publish(q) \/ PublisherCrashes(q)
    <2>1. Publish(p) \/ PublisherCrashes(p)
        BY <1>8
    <2> QED BY <1>1, <1>7, <2>1, QuietSteps, WriteCaughtUp DEF Publish
<1>9. CASE \E i \in DOMAIN outbox : EventAvailable(i) \/ ClaimLapses(i) \/ RequeueEvent(i)
    BY <1>1, <1>7, <1>9, QuietSteps
<1> QED BY <1>2, <1>5, <1>6, <1>8, <1>9, Zenon DEF MemNext

\* With one publisher, a memory whose events are all published has the projection of its text,
\* however stale the reads of earlier publications were (OutboxWorker._publish).
THEOREM OnePublisherCatchesUp ==
    ASSUME NEW CONSTANT p, Publisher = {p}
    PROVE  MemSpec => []ProjectionCatchesUp
<1>1. MemInit => CaughtUp(p)
    BY DEF MemInit, CaughtUp, StaleCovered, Resting
<1>2. MemInvariant /\ CaughtUp(p) /\ [MemNext]_memVars => CaughtUp(p)'
    BY CaughtUpKept
<1>3. MemInvariant /\ CaughtUp(p) => ProjectionCatchesUp
    BY LenProperties DEF MemInvariant, MemTypes, CaughtUp, Unpublished, ProjectionCatchesUp
<1> QED BY <1>1, <1>2, <1>3, MemInvariance, PTL DEF MemSpec

-----------------------------------------------------------------------------
(***************************************************************************)
(* The workers together.                                                   *)
(***************************************************************************)
\* Side by side, the workers do what each of them does alone: they share no row.
THEOREM WorkersSideBySide == Spec => ConSpec /\ MemSpec /\ PriceSpec
<1>1. Init => ConInit /\ MemInit /\ PriceInit
    BY DEF Init
<1>2. [Next]_vars => [ConNext]_conVars
    <2>1. Next => ConNext \/ UNCHANGED conVars
        BY DEF Next, Consolidating, Publishing, Watching
    <2> QED BY <2>1 DEF vars
<1>3. [Next]_vars => [MemNext]_memVars
    <2>1. Next => MemNext \/ UNCHANGED memVars
        BY DEF Next, Consolidating, Publishing, Watching
    <2> QED BY <2>1 DEF vars
<1>4. [Next]_vars => [PriceNext]_priceVars
    <2>1. Next => PriceNext \/ UNCHANGED priceVars
        BY DEF Next, Consolidating, Publishing, Watching
    <2> QED BY <2>1 DEF vars
<1> QED BY <1>1, <1>2, <1>3, <1>4, PTL DEF Spec, ConSpec, MemSpec, PriceSpec

\* The rows of the three workers and what each of them holds between two transactions keep
\* their types in the deployment as a whole.
THEOREM BackgroundTypeCorrect == Spec => []TypeOK
<1>1. PriceInvariant => PriceTypeOK
    BY DEF PriceInvariant
<1> QED BY <1>1, WorkersSideBySide, ConsolidationTypes, MemTypeCorrect, PriceInvariance, PTL
        DEF TypeOK
=============================================================================
