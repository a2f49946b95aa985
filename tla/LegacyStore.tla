----------------------------- MODULE LegacyStore -----------------------------
(***************************************************************************)
(* The SQLite session store (app/api/storage.py) of one user: threads,     *)
(* runs, messages, artifacts and idempotency keys behind one connection.   *)
(*                                                                         *)
(* A method holds the store's lock for its whole transaction and is one    *)
(* action; a refused call rolls back and is no step.  Two calls are longer *)
(* than a transaction and interleave with all others: the registration of  *)
(* an artifact, which reads the run before it inserts, and the walk of a   *)
(* client through the pages of the archive.  Times are read from the wall  *)
(* clock, which need not advance between two calls, nor go forward.        *)
(***************************************************************************)
EXTENDS Naturals, Sequences, FiniteSets, SequencesExt

CONSTANTS
    Threads,          \* bound: how many threads may be created; a thread's id is its number
    LegacyRun,        \* bound: the runs that may be created
    LegacyKey,        \* bound: client request ids
    PageLimit,        \* the limit of list_threads
    Times,            \* bound: the milliseconds at which something is archived
    MaxArtifacts,     \* bound: registered artifacts
    NoRow             \* no run, no thread, no response

Thread == 1..Threads

\* None is not the id of anything, nor a cursor.
ASSUME LegacyAssumption ==
    /\ Threads \in Nat /\ PageLimit \in Nat \ {0} /\ Times \subseteq Nat
    /\ NoRow \notin LegacyRun \cup Thread \cup (Nat \X Nat)

VARIABLES
    threads,          \* [Thread -> [status, at, last]]
    transcript,       \* [Thread -> the messages in ordinal order]
    runRows,          \* [LegacyRun -> [thread, status]]
    responses,        \* [operation -> [LegacyKey -> the stored response]]
    registering,      \* a registration that has read its run, or NoRow
    artifacts,        \* the registered artifacts
    walk              \* a client's way through the archive

legacyVars == <<threads, transcript, runRows, responses, registering, artifacts, walk>>

NoWalk == [open |-> FALSE, before |-> {}, seen |-> <<>>, cursor |-> NoRow]

LegacyTypeOK ==
    /\ \A t \in Thread :
        /\ threads[t].status \in {"none", "active", "archived", "deleted"}
        /\ threads[t].at \in Times \cup {0} /\ threads[t].last \in LegacyRun \cup {NoRow}
        /\ \A i \in DOMAIN transcript[t] :
               transcript[t][i].run \in LegacyRun /\ transcript[t][i].role \in {"user", "assistant"}
    /\ \A r \in LegacyRun : /\ runRows[r].thread \in Thread \cup {NoRow}
                            /\ runRows[r].status \in {"none", "unfinished", "ended"}
    /\ \A k \in LegacyKey : /\ responses.create_thread[k] \in Thread \cup {NoRow}
                            /\ responses.create_run[k] \in LegacyRun \cup {NoRow}
    /\ registering \in LegacyRun \cup {NoRow}
    /\ artifacts \subseteq LegacyRun
    /\ walk.open \in BOOLEAN /\ walk.before \subseteq Thread

LegacyInit ==
    /\ threads = [t \in Thread |-> [status |-> "none", at |-> 0, last |-> NoRow]]
    /\ transcript = [t \in Thread |-> <<>>]
    /\ runRows = [r \in LegacyRun |-> [thread |-> NoRow, status |-> "none"]]
    /\ responses = [create_thread |-> [k \in LegacyKey |-> NoRow],
                    create_run    |-> [k \in LegacyKey |-> NoRow]]
    /\ registering = NoRow /\ artifacts = {} /\ walk = NoWalk

-----------------------------------------------------------------------------
\* active_thread
ActiveThread == LET active == {t \in Thread : threads[t].status = "active"}
                IN  IF active = {} THEN NoRow ELSE CHOOSE t \in active : TRUE

RunsOf(t) == {r \in LegacyRun : runRows[r].thread = t}
Busy(t)   == \E r \in RunsOf(t) : runRows[r].status = "unfinished"
Used(t)   == RunsOf(t) # {} \/ transcript[t] # <<>>

\* A used thread is archived with its time, an unused one deleted.
Put(t, at) ==
    IF Used(t) THEN [threads[t] EXCEPT !.status = "archived", !.at = at]
    ELSE [threads[t] EXCEPT !.status = "deleted"]

\* replace_thread: the caller names the active thread it knows; a key answered before
\* answers again and changes nothing.
ReplaceThread(k, current, new, at) ==
    /\ responses.create_thread[k] = NoRow
    /\ current = ActiveThread
    /\ current # NoRow => ~Busy(current)
    /\ threads[new].status = "none"
    /\ threads' = [t \in Thread |->
                      IF t = new THEN [threads[t] EXCEPT !.status = "active"]
                      ELSE IF t = current THEN Put(t, at) ELSE threads[t]]
    /\ responses' = [responses EXCEPT !.create_thread[k] = new]
    /\ UNCHANGED <<transcript, runRows, registering, artifacts, walk>>

\* create_run: the run, the user's message and the thread's last run, all or nothing.
InsertRun(k, t, r) ==
    /\ responses.create_run[k] = NoRow
    /\ threads[t].status = "active" /\ ~Busy(t)
    /\ runRows[r].status = "none"
    /\ runRows' = [runRows EXCEPT ![r] = [thread |-> t, status |-> "unfinished"]]
    /\ transcript' = [transcript EXCEPT ![t] = Append(@, [run |-> r, role |-> "user"])]
    /\ threads' = [threads EXCEPT ![t].last = r]
    /\ responses' = [responses EXCEPT !.create_run[k] = r]
    /\ UNCHANGED <<registering, artifacts, walk>>

\* set_run_status, to running or cancelling, does not look at the status it replaces.
SetRunStatus(r) ==
    /\ runRows[r].status # "none"
    /\ runRows' = [runRows EXCEPT ![r].status = "unfinished"]
    /\ UNCHANGED <<threads, transcript, responses, registering, artifacts, walk>>

\* INSERT OR IGNORE under the message id of the run.
Answered(r, text) ==
    LET ms == transcript[runRows[r].thread]
        m  == [run |-> r, role |-> "assistant"]
    IN  IF text /\ m \notin Range(ms) THEN Append(ms, m) ELSE ms

\* finish_run: a run that has ended stays as it is.
StoreEnd(r, text) ==
    /\ runRows[r].status = "unfinished"
    /\ runRows' = [runRows EXCEPT ![r].status = "ended"]
    /\ transcript' = [transcript EXCEPT ![runRows[r].thread] = Answered(r, text)]
    /\ UNCHANGED <<threads, responses, registering, artifacts, walk>>

\* recover_after_restart: the process died, and with it what was under way in it.
RecoverAfterRestart(at) ==
    /\ runRows' = [r \in LegacyRun |-> IF runRows[r].status = "unfinished"
                                       THEN [runRows[r] EXCEPT !.status = "ended"]
                                       ELSE runRows[r]]
    /\ threads' = [t \in Thread |-> IF threads[t].status = "active" THEN Put(t, at)
                                    ELSE threads[t]]
    /\ registering' = NoRow
    /\ UNCHANGED <<transcript, responses, artifacts, walk>>

\* register_artifact reads the run and its thread, leaves the lock, and inserts.
ReadRun(r) ==
    /\ registering = NoRow /\ Cardinality(artifacts) < MaxArtifacts
    /\ runRows[r].status # "none" /\ threads[runRows[r].thread].status = "active"
    /\ registering' = r
    /\ UNCHANGED <<threads, transcript, runRows, responses, artifacts, walk>>

InsertArtifact ==
    /\ registering # NoRow
    /\ artifacts' = artifacts \cup {registering}
    /\ registering' = NoRow
    /\ UNCHANGED <<threads, transcript, runRows, responses, walk>>

-----------------------------------------------------------------------------
(***************************************************************************)
(* list_threads: the archive, newest first, page by page.                  *)
(***************************************************************************)
Archive == {t \in Thread : threads[t].status = "archived"}

Place(t) == <<threads[t].at, t>>
Newer(p, q) == p[1] > q[1] \/ (p[1] = q[1] /\ p[2] > q[2])

\* Faulty variant: the cursor is the time alone.
BehindTime(t) == walk.cursor = NoRow \/ threads[t].at < walk.cursor[1]

\* The cursor is the time and the id of the last thread of the page before.
Behind(t) == walk.cursor = NoRow \/ Newer(walk.cursor, Place(t))

Unseen == {t \in Archive : Behind(t)}

\* The rest of the archive as the query orders it: there is one such sequence.
Listings ==
    {s \in SetToSeqs(Unseen) :
        \A i, j \in DOMAIN s : i < j => Newer(Place(s[i]), Place(s[j]))}

OpenWalk ==
    /\ ~walk.open
    /\ walk' = [NoWalk EXCEPT !.open = TRUE, !.before = Archive]
    /\ UNCHANGED <<threads, transcript, runRows, responses, registering, artifacts>>

NextPage ==
    \E rows \in Listings :
        LET more == Len(rows) > PageLimit
            page == IF more THEN SubSeq(rows, 1, PageLimit) ELSE rows
        IN  /\ walk.open
            /\ walk' = [walk EXCEPT !.seen = @ \o page, !.open = more,
                                    !.cursor = IF more THEN Place(Last(page)) ELSE NoRow]
            /\ UNCHANGED <<threads, transcript, runRows, responses, registering, artifacts>>

LegacyNext ==
    \/ \E k \in LegacyKey, current \in Thread \cup {NoRow}, new \in Thread, at \in Times :
           ReplaceThread(k, current, new, at)
    \/ \E k \in LegacyKey, t \in Thread, r \in LegacyRun : InsertRun(k, t, r)
    \/ \E r \in LegacyRun : SetRunStatus(r)
    \/ \E r \in LegacyRun, text \in BOOLEAN : StoreEnd(r, text)
    \/ \E at \in Times : RecoverAfterRestart(at)
    \/ \E r \in LegacyRun : ReadRun(r)
    \/ InsertArtifact
    \/ OpenWalk \/ NextPage

LegacySpec == LegacyInit /\ [][LegacyNext]_legacyVars

-----------------------------------------------------------------------------
\* A client that has read the archive to its end was shown every thread that was archived
\* when it began, and none twice, whatever was archived in between and however many threads
\* share one millisecond (list_threads).
PagesSeeEverything ==
    /\ ~walk.open => walk.before \subseteq Range(walk.seen)
    /\ IsInjective(walk.seen)

\* However often a run is ended, reopened by a late status and ended again, its thread shows
\* its question once and its answer at most once, in this order (create_run, finish_run).
OneAnswerPerRun ==
    \A t \in Thread :
        /\ IsInjective(transcript[t])
        /\ \A i \in DOMAIN transcript[t] :
               transcript[t][i].role = "assistant" =>
                   \E j \in 1..(i - 1) : transcript[t][j] = [run |-> transcript[t][i].run,
                                                             role |-> "user"]

\* What a client reads of the past is complete, without repetitions, and in order.
HistoryReadable == PagesSeeEverything /\ OneAnswerPerRun
=============================================================================
