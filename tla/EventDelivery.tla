--------------------------- MODULE EventDelivery ----------------------------
(***************************************************************************)
(* How the events of a run reach the workbench: the broker, the WebSocket  *)
(* endpoint (app/api/server.py), and one browser tab that subscribes,      *)
(* reconnects with its cursor and asks for the run's status                *)
(* (frontend/src/useGlobuyTask.ts, state.ts).  The registry is reduced to  *)
(* what RunRegistry establishes: one run at a time, its terminal event     *)
(* after its terminal status.  All runs are of one thread.                 *)
(***************************************************************************)
EXTENDS EventBroker

CONSTANTS
    Sync,          \* status requests of the tab that overlap
    NoRun, NoConn,
    MaxEvents,     \* bound: events of a run before its terminal event
    MaxDrops,      \* bound: connections lost
    MaxClicks,     \* bound: "reconnect now" clicks
    MaxCancels,    \* bound: cancel clicks
    MaxFails,      \* bound: status requests that fail
    MaxAges,       \* bound: streams that outlive their retention
    MaxRestarts    \* bound: restarts of the server

ASSUME DeliveryAssumption == NoRun \notin Run /\ NoConn \notin Sub

Conn == Sub    \* a WebSocket, both ends; the server's end has one Subscription

VARIABLES
    \* the server
    row,           \* runs.status: "absent", "active" or "ended"
    newest,        \* the last run of the thread
    archived,      \* threads.status = 'archived'
    tasks,         \* runs whose task has not published its terminal event
    handler,       \* the endpoint coroutine of a connection
    \* the tab: useGlobuyTask
    sock,          \* socket of a connection: "free", "open", "closing", "lost"
    wants,         \* the run its URL names
    after,         \* and the cursor, until the endpoint has used it
    socket, subscription, cursor, terminal, intentional,
    timers,        \* runs that a pending reconnect timer will connect to
    timerRef,      \* the one clearTimeout can still reach
    reconnecting,  \* connectionStatus = "reconnecting"
    posting,       \* run whose POST /tasks has not been answered
    sync,          \* status requests
    \* the tab: workbenchReducer
    viewRun, viewStatus,
    shown,         \* events reduced since the last TASK_ACCEPTED: <<run, seq>>
    \* what the properties remember
    asked,         \* the run of the last TASK_ACCEPTED
    told,          \* the highest sequence a notice or an answer accounts for
    budget         \* what is left of the bounds

serverVars == <<row, newest, archived, tasks, handler>>
connVars   == <<sock, wants, after>>
refVars    == <<socket, subscription, cursor, terminal, intentional, timers, timerRef>>
viewVars   == <<viewRun, viewStatus, shown>>
vars == <<broker, serverVars, connVars, refVars, reconnecting, posting, sync, viewVars,
          asked, told, budget>>

-----------------------------------------------------------------------------
Idle == [phase |-> "idle", run |-> NoRun, refresh |-> FALSE, status |-> "absent", last |-> 0]

TypeOK ==
    /\ BrokerTypeOK
    /\ row \in [Run -> {"absent", "active", "ended"}]
    /\ newest \in Run \cup {NoRun}
    /\ archived \in BOOLEAN
    /\ tasks \subseteq Run
    /\ handler \in [Conn -> {"none", "opening", "open"}]
    /\ sock \in [Conn -> {"free", "open", "closing", "lost"}]
    /\ wants \in [Conn -> Run \cup {NoRun}]
    /\ after \in [Conn -> Nat]
    /\ socket \in Conn \cup {NoConn}
    /\ subscription \in Run \cup {NoRun}
    /\ cursor \in Nat
    /\ terminal \in BOOLEAN /\ intentional \in BOOLEAN /\ reconnecting \in BOOLEAN
    /\ timers \subseteq Run
    /\ timerRef \in Run \cup {NoRun}
    /\ posting \in Run \cup {NoRun}
    /\ sync \in [Sync -> [phase : {"idle", "sent", "read", "answered", "detail", "merge"},
                          run : Run \cup {NoRun}, refresh : BOOLEAN,
                          status : {"absent", "active", "ended"}, last : Nat]]
    /\ viewRun \in Run \cup {NoRun}
    /\ viewStatus \in {"absent", "active", "ended"}
    /\ shown \in Seq(Run \X Nat)
    /\ asked \in Run \cup {NoRun}
    /\ told \in Nat
    /\ DOMAIN budget = {"drops", "clicks", "cancels", "fails", "ages", "restarts"}

Init ==
    /\ BrokerInit
    /\ row = [r \in Run |-> "absent"]
    /\ newest = NoRun
    /\ archived = FALSE
    /\ tasks = {}
    /\ handler = [c \in Conn |-> "none"]
    /\ sock = [c \in Conn |-> "free"]
    /\ wants = [c \in Conn |-> NoRun]
    /\ after = [c \in Conn |-> 0]
    /\ socket = NoConn
    /\ subscription = NoRun
    /\ cursor = 0
    /\ terminal = FALSE /\ intentional = FALSE /\ reconnecting = FALSE
    /\ timers = {}
    /\ timerRef = NoRun
    /\ posting = NoRun
    /\ sync = [y \in Sync |-> Idle]
    /\ viewRun = NoRun
    /\ viewStatus = "absent"
    /\ shown = <<>>
    /\ asked = NoRun
    /\ told = 0
    /\ budget = [drops |-> MaxDrops, clicks |-> MaxClicks, cancels |-> MaxCancels,
                 fails |-> MaxFails, ages |-> MaxAges, restarts |-> MaxRestarts]

Spend(what) == budget[what] > 0 /\ budget' = [budget EXCEPT ![what] = @ - 1]

-----------------------------------------------------------------------------
(***************************************************************************)
(* The server: the run's task, and the endpoint of a connection.           *)
(***************************************************************************)
tabVars == <<connVars, refVars, reconnecting, posting, sync, viewVars, asked, told>>

\* RUN_STARTED, then whatever the agent reports.
Progress(r) ==
    /\ r \in tasks
    /\ LastSequence(r) < MaxEvents
    /\ Publish(r, IF LastSequence(r) = 0 THEN "RUN_STARTED" ELSE "PROGRESS")
    /\ UNCHANGED <<serverVars, tabVars, budget>>

\* finish_run commits; the terminal event is published after it.
Commit(r) ==
    /\ r \in tasks
    /\ row[r] = "active"
    /\ row' = [row EXCEPT ![r] = "ended"]
    /\ UNCHANGED <<broker, newest, archived, tasks, handler, tabVars, budget>>

Finish(r) ==
    /\ r \in tasks
    /\ row[r] = "ended"
    /\ Publish(r, "RUN_FINISHED")
    /\ tasks' = tasks \ {r}
    /\ UNCHANGED <<row, newest, archived, handler, tabVars, budget>>

\* The server closed the connection: the tab's onclose will run.
Closed(c) == sock' = [sock EXCEPT ![c] = IF @ = "open" THEN "lost" ELSE @]

\* The endpoint has accepted (the tab's onopen) and read the run: it refuses an archived
\* thread (4404) or subscribes.
Handshake(c) ==
    /\ handler[c] = "opening"
    /\ IF archived
       THEN /\ handler' = [handler EXCEPT ![c] = "none"]
            /\ Closed(c)
            /\ UNCHANGED broker
       ELSE /\ Subscribe(c, wants[c], after[c])
            /\ handler' = [handler EXCEPT ![c] = "open"]
            /\ UNCHANGED sock
    /\ after' = [after EXCEPT ![c] = 0]
    /\ reconnecting' = (reconnecting /\ ~(socket = c /\ sock[c] = "open"))
    /\ UNCHANGED <<row, newest, archived, tasks, wants, refVars, posting, sync,
                   viewVars, asked, told, budget>>

\* writer(): None in the queue closes with 4408 and unsubscribes; any other item is sent,
\* and taken here in the step in which the tab receives it.
WriteClose(c) ==
    /\ handler[c] = "open"
    /\ queue[c] # <<>> /\ Head(queue[c]) = CloseItem
    /\ Unsubscribe(c, wants[c])
    /\ Closed(c)
    /\ handler' = [handler EXCEPT ![c] = "none"]
    /\ UNCHANGED <<row, newest, archived, tasks, wants, after, refVars, reconnecting, posting, sync,
                   viewVars, asked, told, budget>>

\* Faulty variant: the subscription outlives its connection.
HangupSubscribed(c) ==
    /\ handler[c] = "open"
    /\ sock[c] # "open"
    /\ handler' = [handler EXCEPT ![c] = "none"]
    /\ UNCHANGED <<broker, row, newest, archived, tasks, tabVars, budget>>

\* reader() sees the disconnect: the writer is cancelled, `finally` unsubscribes.
Hangup(c) ==
    /\ handler[c] = "open"
    /\ sock[c] # "open"
    /\ Unsubscribe(c, wants[c])
    /\ handler' = [handler EXCEPT ![c] = "none"]
    /\ UNCHANGED <<row, newest, archived, tasks, tabVars, budget>>

Expire(r) ==
    /\ Spend("ages")
    /\ Age(r)
    /\ UNCHANGED <<serverVars, tabVars>>

\* The process is replaced: streams and connections are gone, recover_after_restart
\* interrupts the unfinished run and archives the thread.
Restart ==
    /\ Spend("restarts")
    /\ newest # NoRun
    /\ CloseBroker
    /\ row' = [r \in Run |-> IF row[r] = "active" THEN "ended" ELSE row[r]]
    /\ archived' = TRUE
    /\ tasks' = {}
    /\ handler' = [c \in Conn |-> "none"]
    /\ sock' = [c \in Conn |-> IF sock[c] = "open" THEN "lost" ELSE sock[c]]
    /\ UNCHANGED <<newest, wants, after, refVars, reconnecting, posting, sync, viewVars,
                   asked, told>>

-----------------------------------------------------------------------------
(***************************************************************************)
(* The tab.  A connection can be opened when one is free at both ends.     *)
(***************************************************************************)
Free(c) == sock[c] = "free" /\ handler[c] = "none"

\* connect(): the old socket is closed, the flags are reset before its onclose runs.
Connect(c, r, from) ==
    /\ Free(c)
    /\ sock' = [x \in Conn |-> IF x = c THEN "open"
                               ELSE IF x = socket /\ sock[x] = "open" THEN "closing" ELSE sock[x]]
    /\ wants' = [wants EXCEPT ![c] = r]
    /\ after' = [after EXCEPT ![c] = from]
    /\ handler' = [handler EXCEPT ![c] = "opening"]
    /\ socket' = c
    /\ subscription' = r
    /\ terminal' = FALSE
    /\ intentional' = FALSE

\* syncRun: GET the run, then (refresh) GET the thread.
Ask(y, r, refresh) ==
    /\ sync[y].phase = "idle"
    /\ sync' = [sync EXCEPT ![y] = [Idle EXCEPT !.phase = "sent", !.run = r, !.refresh = refresh]]

\* startTask: POST /tasks; the composer sends only when the view is not busy, and
\* start_run lets no two runs of a thread overlap.
StartTask(r) ==
    /\ posting = NoRun
    /\ viewStatus # "active"
    /\ ~archived
    /\ row[r] = "absent"
    /\ tasks = {}
    /\ posting' = r
    /\ row' = [row EXCEPT ![r] = "active"]
    /\ newest' = r
    /\ tasks' = {r}
    /\ EnsureStream(r)
    /\ UNCHANGED <<archived, handler, connVars, refVars, reconnecting, sync, viewVars,
                   asked, told, budget>>

\* TASK_ACCEPTED, then connect from the beginning.
TaskAccepted(c) ==
    /\ posting # NoRun
    /\ Connect(c, posting, 0)
    /\ cursor' = 0
    /\ viewRun' = posting
    /\ viewStatus' = "active"
    /\ shown' = <<>>
    /\ asked' = posting
    /\ told' = 0
    /\ posting' = NoRun
    /\ reconnecting' = FALSE
    /\ UNCHANGED <<broker, row, newest, archived, tasks, timers, timerRef, sync, budget>>

Fresh(item) == item.seq > cursor

\* onmessage; wants[c] is the closure's run, subscription the current one.
Arriving(c) ==
    /\ handler[c] = "open"
    /\ sock[c] = "open"
    /\ Take(c)
    /\ UNCHANGED <<serverVars, wants, after, posting, asked, budget>>

\* stream_ready, an event of another run, or one at or below the cursor.
ReceiveIgnored(c) ==
    /\ Arriving(c)
    /\ LET item == Head(queue[c])
       IN  \/ item.kind = "stream_ready" /\ wants[c] = subscription /\ reconnecting' = FALSE
           \/ /\ item # CloseItem
              /\ wants[c] # subscription
              /\ UNCHANGED reconnecting
           \/ /\ item.kind \in EventKinds /\ wants[c] = subscription /\ ~Fresh(item)
              /\ UNCHANGED reconnecting
    /\ UNCHANGED <<sock, refVars, sync, viewVars, told>>

ReceiveGap(c, y) ==
    /\ Arriving(c)
    /\ Head(queue[c]).kind = "replay_gap"
    /\ wants[c] = subscription
    /\ Ask(y, wants[c], TRUE)
    /\ told' = IF wants[c] = asked THEN Larger(told, Head(queue[c]).seq - 1) ELSE told
    /\ UNCHANGED <<sock, refVars, reconnecting, viewVars>>

\* Faulty variant: the cursor stays where it is.
ReducesOnly(c, status) ==
    LET item == Head(queue[c])
    IN  /\ Arriving(c)
        /\ wants[c] = subscription
        /\ Fresh(item)
        /\ shown' = Append(shown, <<wants[c], item.seq>>)
        /\ viewStatus' = status
        /\ UNCHANGED <<cursor, socket, subscription, timers, timerRef, viewRun, told>>

\* An event beyond the cursor is reduced.
Reduces(c, status) ==
    LET item == Head(queue[c])
    IN  /\ Arriving(c)
        /\ wants[c] = subscription
        /\ Fresh(item)
        /\ cursor' = item.seq
        /\ shown' = Append(shown, <<wants[c], item.seq>>)
        /\ viewStatus' = status
        /\ UNCHANGED <<socket, subscription, timers, timerRef, viewRun, told>>

ReceiveEvent(c) ==
    /\ queue[c] # <<>>
    /\ Head(queue[c]).kind \in {"RUN_STARTED", "PROGRESS"}
    /\ Reduces(c, IF Head(queue[c]).kind = "RUN_STARTED" THEN "active" ELSE viewStatus)
    /\ UNCHANGED <<sock, terminal, intentional, reconnecting, sync>>

\* A terminal event also closes the socket and asks for the stored outcome.
ReceiveTerminal(c, y) ==
    /\ queue[c] # <<>>
    /\ Head(queue[c]).kind \in TerminalKinds
    /\ Reduces(c, "ended")
    /\ terminal' = TRUE
    /\ intentional' = TRUE
    /\ reconnecting' = FALSE
    /\ sock' = [sock EXCEPT ![c] = "closing"]
    /\ Ask(y, wants[c], TRUE)

\* Faulty variant: a lost connection is never replaced.
OnCloseNever(c) ==
    /\ sock[c] \in {"closing", "lost"}
    /\ sock' = [sock EXCEPT ![c] = "free"]
    /\ socket' = IF socket = c THEN NoConn ELSE socket
    /\ UNCHANGED <<broker, serverVars, wants, after, subscription, cursor, terminal,
                   intentional, timers, timerRef, reconnecting, posting, sync, viewVars, asked,
                   told, budget>>

\* onclose: unless the close was meant, a timer will reconnect.
OnClose(c) ==
    /\ sock[c] \in {"closing", "lost"}
    /\ sock' = [sock EXCEPT ![c] = "free"]
    /\ socket' = IF socket = c THEN NoConn ELSE socket
    /\ IF intentional \/ terminal \/ subscription # wants[c]
       THEN UNCHANGED <<timers, timerRef, reconnecting>>
       ELSE /\ timers' = timers \cup {wants[c]}
            /\ timerRef' = wants[c]
            /\ reconnecting' = TRUE
    /\ UNCHANGED <<broker, serverVars, wants, after, subscription, cursor, terminal,
                   intentional, posting, sync, viewVars, asked, told, budget>>

\* The connection breaks, or the watchdog closes a silent one.
Drop(c) ==
    /\ Spend("drops")
    /\ sock[c] = "open"
    /\ sock' = [sock EXCEPT ![c] = "lost"]
    /\ UNCHANGED <<broker, serverVars, wants, after, refVars, reconnecting, posting, sync,
                   viewVars, asked, told>>

\* The timer connects to the run it was set for, with the cursor of this moment.
TimerFires(c, r) ==
    /\ r \in timers
    /\ timers' = timers \ {r}
    /\ Connect(c, r, cursor)
    /\ reconnecting' = TRUE
    /\ UNCHANGED <<broker, row, newest, archived, tasks, cursor, timerRef, posting, sync,
                   viewVars, asked, told, budget>>

\* reconnectNow, offered while the status reads "reconnecting".
ReconnectNow(c) ==
    /\ Spend("clicks")
    /\ reconnecting
    /\ subscription # NoRun /\ ~terminal
    /\ timers' = timers \ {timerRef}
    /\ timerRef' = NoRun
    /\ Connect(c, subscription, cursor)
    /\ UNCHANGED <<broker, row, newest, archived, tasks, cursor, reconnecting, posting, sync,
                   viewVars, asked, told>>

\* cancelTask: a run found terminal is fetched with its thread; an error is followed by
\* a plain syncRun.  (An accepted cancel changes nothing here: the run ends by itself.)
CancelTask(y) ==
    /\ Spend("cancels")
    /\ viewRun # NoRun
    /\ viewStatus = "active"
    /\ \/ row[viewRun] = "ended" /\ Ask(y, viewRun, TRUE)
       \/ Ask(y, viewRun, FALSE)
    /\ UNCHANGED <<broker, serverVars, connVars, refVars, reconnecting, posting, viewVars,
                   asked, told>>

-----------------------------------------------------------------------------
(***************************************************************************)
(* syncRun.  run_status reads the row, awaits, then reads the cursor.      *)
(***************************************************************************)
SyncFrame == UNCHANGED <<broker, serverVars, connVars, posting, asked, reconnecting>>

ReadRow(y) ==
    /\ sync[y].phase = "sent"
    /\ sync' = [sync EXCEPT ![y].phase = "read", ![y].status = row[sync[y].run]]
    /\ UNCHANGED <<refVars, viewVars, told, budget>>
    /\ SyncFrame

ReadCursor(y) ==
    /\ sync[y].phase = "read"
    /\ sync' = [sync EXCEPT ![y].phase = "answered", ![y].last = LastSequence(sync[y].run)]
    /\ UNCHANGED <<refVars, viewVars, told, budget>>
    /\ SyncFrame

\* RUN_SYNC, whatever run is in view by now.
SyncAnswered(y) ==
    /\ sync[y].phase = "answered"
    /\ viewStatus' = sync[y].status
    /\ cursor' = Larger(cursor, sync[y].last)
    /\ told' = IF sync[y].run = asked THEN Larger(told, sync[y].last) ELSE told
    /\ terminal' = (terminal \/ sync[y].status = "ended")
    /\ sync' = [sync EXCEPT ![y] = IF @.refresh THEN [@ EXCEPT !.phase = "detail"] ELSE Idle]
    /\ UNCHANGED <<socket, subscription, intentional, timers, timerRef, viewRun, shown, budget>>
    /\ SyncFrame

\* thread_detail: the status of the thread's last run,
ReadDetail(y) ==
    /\ sync[y].phase = "detail"
    /\ sync' = [sync EXCEPT ![y].phase = "merge", ![y].run = newest, ![y].status = row[newest]]
    /\ UNCHANGED <<refVars, viewVars, told, budget>>
    /\ SyncFrame

\* and MERGE_DETAIL.
MergeDetail(y) ==
    /\ sync[y].phase = "merge"
    /\ viewRun' = sync[y].run
    /\ viewStatus' = sync[y].status
    /\ sync' = [sync EXCEPT ![y] = Idle]
    /\ UNCHANGED <<refVars, shown, told, budget>>
    /\ SyncFrame

SyncFails(y) ==
    /\ Spend("fails")
    /\ sync[y].phase # "idle"
    /\ sync' = [sync EXCEPT ![y] = Idle]
    /\ UNCHANGED <<refVars, viewVars, told>>
    /\ SyncFrame

-----------------------------------------------------------------------------
SyncStep(y) == ReadRow(y) \/ ReadCursor(y) \/ SyncAnswered(y) \/ ReadDetail(y) \/ MergeDetail(y)

ServeStep(c) == Handshake(c) \/ WriteClose(c) \/ Hangup(c)

SocketStep(c) ==
    \/ ReceiveIgnored(c) \/ ReceiveEvent(c) \/ OnClose(c)
    \/ \E y \in Sync : ReceiveGap(c, y) \/ ReceiveTerminal(c, y)

\* Nothing is left to happen.
Resting ==
    /\ posting = NoRun /\ tasks = {} /\ timers = {}
    /\ \A y \in Sync : sync[y].phase = "idle"
    /\ \A c \in Conn : sock[c] = "free" \/ (sock[c] = "open" /\ queue[c] = <<>>)
    /\ UNCHANGED vars

Next ==
    \/ \E r \in Run : Progress(r) \/ Commit(r) \/ Finish(r) \/ Expire(r) \/ StartTask(r)
    \/ \E c \in Conn : ServeStep(c) \/ SocketStep(c) \/ TaskAccepted(c) \/ Drop(c) \/ ReconnectNow(c)
    \/ \E c \in Conn, r \in Run : TimerFires(c, r)
    \/ \E y \in Sync : SyncStep(y) \/ SyncFails(y) \/ CancelTask(y)
    \/ Restart
    \/ Resting

Spec == Init /\ [][Next]_vars

(***************************************************************************)
(* The event loop, the network and the tab serve what is there to serve;   *)
(* a run that is stored as ended publishes its terminal event; a timer     *)
(* fires.  Nothing has to be published, clicked, lost or restarted.        *)
(***************************************************************************)
Fairness ==
    /\ \A r \in Run : WF_vars(Finish(r))
    /\ \A c \in Conn : WF_vars(ServeStep(c)) /\ WF_vars(SocketStep(c))
    /\ \A y \in Sync : WF_vars(SyncStep(y))
    /\ WF_vars(\E c \in Conn : TaskAccepted(c))
    /\ \A r \in Run : WF_vars(\E c \in Conn : TimerFires(c, r))

FairSpec == Spec /\ Fairness

-----------------------------------------------------------------------------
\* Whatever is lost, replayed or repeated, the tab reduces the events of a run in order
\* and each once (docs/frontend-task-api-contract.md:658; useGlobuyTask.ts:117-121).
ReducedOnceInOrder ==
    \A i, j \in DOMAIN shown :
        i < j /\ shown[i][1] = shown[j][1] => shown[i][2] < shown[j][2]

\* The cursor passes no event of the run silently: it was reduced, or a gap notice or
\* a status answer accounts for it (session plan :299; event_broker.py:183-212).
NoSilentLoss ==
    \A n \in 1..cursor : n <= told \/ \E i \in DOMAIN shown : shown[i] = <<asked, n>>

\* A subscriber is one whose connection is served: none is left behind to keep its
\* stream from being pruned (event_broker.py:82-90, server.py `finally`).
NoLeakedSubscriber ==
    \A r \in DOMAIN streams : \A c \in streams[r].subscribers :
        handler[c] = "open" /\ wants[c] = r

\* Only events of the run that was asked for are reduced
\* (docs/frontend-task-api-contract.md:646: late events of an old run are ignored).
OldRunIgnored == \A i \in DOMAIN shown : shown[i][1] = asked

\* The composition uses the broker as it is meant to be used.
UsesBroker == BrokerSpec

\* A run that has ended is seen to have ended, for as long as it is in view
\* (docs/frontend-task-api-contract.md:300-301, :580, :660).
OutcomeShown ==
    \A r \in Run : row[r] = "ended" /\ asked = r ~> viewStatus = "ended" \/ asked # r
=============================================================================
