--------------------------- MODULE DeliveryProofs ----------------------------
(***************************************************************************)
(* Proofs about the delivery of events to the workbench: for every number  *)
(* of runs, connections and status requests, every size of the buffers and *)
(* every budget of failures.                                               *)
(***************************************************************************)
EXTENDS EventDelivery, BrokerProofs

-----------------------------------------------------------------------------
(***************************************************************************)
(* The inductive invariant.                                                *)
(***************************************************************************)
ServerTypes ==
    /\ row \in [Run -> {"absent", "active", "ended"}]
    /\ newest \in Run \cup {NoRun}
    /\ archived \in BOOLEAN
    /\ tasks \subseteq Run
    /\ handler \in [Conn -> {"none", "opening", "open"}]

SocketTypes ==
    /\ sock \in [Conn -> {"free", "open", "closing", "lost"}]
    /\ wants \in [Conn -> Run \cup {NoRun}]
    /\ after \in [Conn -> Nat]

RefTypes ==
    /\ socket \in Conn \cup {NoConn}
    /\ subscription \in Run \cup {NoRun}
    /\ cursor \in Nat
    /\ terminal \in BOOLEAN /\ intentional \in BOOLEAN
    /\ timers \subseteq Run
    /\ timerRef \in Run \cup {NoRun}

Request == [phase : {"idle", "sent", "read", "answered", "detail", "merge"},
            run : Run \cup {NoRun}, refresh : BOOLEAN,
            status : {"absent", "active", "ended"}, last : Nat]

ViewTypes ==
    /\ reconnecting \in BOOLEAN
    /\ posting \in Run \cup {NoRun}
    /\ sync \in [Sync -> Request]
    /\ viewRun \in Run \cup {NoRun}
    /\ viewStatus \in {"absent", "active", "ended"}
    /\ shown \in Seq(Run \X Nat)
    /\ asked \in Run \cup {NoRun}
    /\ told \in Nat
    /\ DOMAIN budget = {"drops", "clicks", "cancels", "fails", "ages", "restarts"}

\* Nothing names a run before there is one: a socket or an endpoint is for a run, a
\* status request is about one, and until the first POST there is nothing of the kind.
Named ==
    /\ \A c \in Conn : handler[c] # "none" \/ sock[c] # "free" => wants[c] \in Run
    /\ \A y \in Sync : sync[y].phase # "idle" => sync[y].run \in Run
    /\ newest = NoRun =>
        /\ posting = NoRun /\ subscription = NoRun /\ viewRun = NoRun /\ timers = {}
        /\ \A c \in Conn : handler[c] = "none" /\ sock[c] = "free"
        /\ \A y \in Sync : sync[y].phase = "idle"

\* What has been reduced is at or below the cursor, and in order.
ShownBelow == \A i \in DOMAIN shown : shown[i][2] <= cursor

DeliveryInvariant ==
    /\ BrokerInvariant
    /\ ServerTypes /\ SocketTypes /\ RefTypes /\ ViewTypes
    /\ Named
    /\ NoLeakedSubscriber
    /\ ShownBelow /\ ReducedOnceInOrder

LEMMA DeliveryMeans == DeliveryInvariant => TypeOK
BY InvariantMeans
   DEF DeliveryInvariant, ServerTypes, SocketTypes, RefTypes, ViewTypes, TypeOK, Request

-----------------------------------------------------------------------------
(***************************************************************************)
(* Who is subscribed after an operation of the broker.                     *)
(***************************************************************************)
Fewer == \A x \in DOMAIN streams' : \A d \in streams'[x].subscribers :
            x \in DOMAIN streams /\ d \in streams[x].subscribers

LEMMA EnsuredSubscribers ==
    ASSUME BrokerInvariant, NEW r \in Run,
           NEW x \in DOMAIN Ensured(r), NEW d \in Ensured(r)[x].subscribers
    PROVE  x \in DOMAIN streams /\ d \in streams[x].subscribers
<1>1. Tidy(Ensured(r), queue)
    BY EnsuredTidy DEF BrokerInvariant
<1>2. d \in Sub
    BY <1>1 DEF Tidy, Stream
<1> QED
    BY <1>2, EnsuredTidy DEF BrokerInvariant

LEMMA EnsureStreamSubscribers ==
    ASSUME BrokerInvariant, NEW r \in Run, EnsureStream(r)
    PROVE  Fewer
BY EnsuredSubscribers DEF EnsureStream, Fewer

LEMMA PublishSubscribers ==
    ASSUME BrokerInvariant, NEW r \in Run, NEW kind \in EventKinds, Publish(r, kind)
    PROVE  Fewer
<1>1. PICK e : e = Ensured(r)
    OBVIOUS
<1>2. Tidy(e, queue) /\ r \in DOMAIN e
    BY <1>1, EnsuredTidy DEF BrokerInvariant
<1>3. CASE EnsureStream(r)
    BY <1>3, EnsureStreamSubscribers
<1>4. CASE ~EnsureStream(r)
    <2>1. PICK full : DOMAIN streams' = DOMAIN e /\
              streams' = [e EXCEPT ![r].next = @ + 1,
                     ![r].buffer = Newest(Append(@, [kind |-> kind, seq |-> e[r].next])),
                     ![r].terminal = IF kind \in TerminalKinds THEN e[r].next ELSE @,
                     ![r].subscribers = @ \ full]
        BY <1>1, <1>4 DEF Publish
    <2>2. e[r] \in Stream
        BY <1>2 DEF Tidy
    <2>3. \A x \in DOMAIN e : x # r => streams'[x] = e[x]
        BY <2>1
    <2>4. streams'[r].subscribers = e[r].subscribers \ full
        BY <1>2, <2>1, <2>2 DEF Stream
    <2>5. \A x \in DOMAIN streams' : \A d \in streams'[x].subscribers : x \in DOMAIN e /\ d \in e[x].subscribers
        BY <2>1, <2>3, <2>4
    <2> QED
        BY <1>1, <2>5, EnsuredSubscribers DEF Fewer
<1> QED
    BY <1>3, <1>4

LEMMA SubscribeSubscribers ==
    ASSUME BrokerInvariant, NEW r \in Run, NEW c \in Sub, NEW from \in Nat, Subscribe(c, r, from)
    PROVE  \A x \in DOMAIN streams' : \A d \in streams'[x].subscribers :
               (x = r /\ d = c) \/ (x \in DOMAIN streams /\ d \in streams[x].subscribers)
<1>1. PICK e : e = Ensured(r)
    OBVIOUS
<1>2. Tidy(e, queue) /\ r \in DOMAIN e
    BY <1>1, EnsuredTidy DEF BrokerInvariant
<1>3. streams' = [e EXCEPT ![r].subscribers = @ \cup {c}]
    BY <1>1 DEF Subscribe
<1>4. e[r] \in Stream
    BY <1>2 DEF Tidy
<1>5. /\ DOMAIN streams' = DOMAIN e
      /\ \A x \in DOMAIN e : x # r => streams'[x] = e[x]
      /\ streams'[r].subscribers = e[r].subscribers \cup {c}
    BY <1>2, <1>3, <1>4 DEF Stream
<1>6. \A x \in DOMAIN e : \A d \in e[x].subscribers : x \in DOMAIN streams /\ d \in streams[x].subscribers
    BY <1>1, EnsuredSubscribers
<1> QED
    BY <1>5, <1>6

LEMMA UnsubscribeSubscribers ==
    ASSUME BrokerInvariant, NEW r \in Run, NEW c \in Sub, Unsubscribe(c, r)
    PROVE  \A x \in DOMAIN streams' : \A d \in streams'[x].subscribers :
               x \in DOMAIN streams /\ d \in streams[x].subscribers /\ (x = r => d # c)
<1>1. \A x \in DOMAIN streams : streams[x] \in Stream
    BY DEF BrokerInvariant, Tidy
<1>2. /\ DOMAIN streams' = DOMAIN streams
      /\ \A x \in DOMAIN streams :
            streams'[x] = IF x = r THEN [streams[x] EXCEPT !.subscribers = @ \ {c}] ELSE streams[x]
    BY DEF Unsubscribe
<1> QED
    BY <1>1, <1>2 DEF Stream

LEMMA AgeSubscribers ==
    ASSUME BrokerInvariant, NEW r \in Run, Age(r)
    PROVE  Fewer
<1>1. \A x \in DOMAIN streams : streams[x] \in Stream
    BY DEF BrokerInvariant, Tidy
<1>2. /\ DOMAIN streams' = DOMAIN streams
      /\ \A x \in DOMAIN streams :
            streams'[x] = IF x = r THEN [streams[x] EXCEPT !.aged = TRUE] ELSE streams[x]
    BY DEF Age
<1> QED
    BY <1>1, <1>2 DEF Stream, Fewer

-----------------------------------------------------------------------------
(***************************************************************************)
(* Types.                                                                  *)
(***************************************************************************)
Typed == ServerTypes /\ SocketTypes /\ RefTypes /\ ViewTypes

LEMMA IdleTyped == Idle \in Request /\ Idle.phase = "idle"
BY DEF Idle, Request

LEMMA AskTyped ==
    ASSUME sync \in [Sync -> Request], NEW y \in Sync, NEW r \in Run, NEW refresh \in BOOLEAN,
           Ask(y, r, refresh)
    PROVE  /\ sync' \in [Sync -> Request]
           /\ \A z \in Sync : sync'[z] = sync[z] \/ sync'[z].run = r
<1> DEFINE q == [Idle EXCEPT !.phase = "sent", !.run = r, !.refresh = refresh]
<1>1. q \in Request /\ q.run = r
    BY DEF Idle, Request
<1>2. sync' = [sync EXCEPT ![y] = q]
    BY DEF Ask
<1> HIDE DEF q
<1> QED
    BY <1>1, <1>2

LEMMA LastSequenceTyped ==
    ASSUME BrokerInvariant, NEW r
    PROVE  LastSequence(r) \in Nat
<1>1. r \in DOMAIN streams => streams[r].next \in Nat \ {0}
    BY DEF BrokerInvariant, Tidy, Stream
<1> QED
    BY <1>1 DEF LastSequence

\* What can be at the head of a queue.
LEMMA HeadTyped ==
    ASSUME BrokerInvariant, NEW c \in Conn, queue[c] # <<>>
    PROVE  Head(queue[c]) \in Item /\ Head(queue[c]).seq \in Nat
<1>1. queue[c] \in Seq(Item)
    BY DEF BrokerInvariant, Conn
<1> QED
    BY <1>1, HeadTailProperties DEF Item, Event

LEMMA TypedStep ==
    ASSUME DeliveryInvariant, Next
    PROVE  Typed'
<1> USE DEF Typed
<1>0. /\ ServerTypes /\ SocketTypes /\ RefTypes /\ ViewTypes /\ Named /\ BrokerInvariant
      /\ NoRun \notin Run /\ NoConn \notin Sub
      /\ \A c \in Conn : queue[c] # <<>> => Head(queue[c]) \in Item /\ Head(queue[c]).seq \in Nat
    BY DeliveryAssumption, HeadTyped DEF DeliveryInvariant
<1>1. ASSUME NEW r \in Run, Progress(r)
      PROVE  Typed'
    BY <1>0, <1>1
       DEF Progress, ServerTypes, SocketTypes, RefTypes, ViewTypes, Named, Request, serverVars,
           connVars, refVars, viewVars, tabVars
<1>2. ASSUME NEW r \in Run, Commit(r)
      PROVE  Typed'
    BY <1>0, <1>2
       DEF Commit, ServerTypes, SocketTypes, RefTypes, ViewTypes, Named, Request, serverVars,
           connVars, refVars, viewVars, tabVars
<1>3. ASSUME NEW r \in Run, Finish(r)
      PROVE  Typed'
    BY <1>0, <1>3
       DEF Finish, ServerTypes, SocketTypes, RefTypes, ViewTypes, Named, Request, serverVars,
           connVars, refVars, viewVars, tabVars
<1>4. ASSUME NEW r \in Run, Expire(r)
      PROVE  Typed'
    BY <1>0, <1>4
       DEF Expire, Spend, ServerTypes, SocketTypes, RefTypes, ViewTypes, Named, Request,
           serverVars, connVars, refVars, viewVars, tabVars
<1>5. ASSUME NEW r \in Run, StartTask(r)
      PROVE  Typed'
    BY <1>0, <1>5
       DEF StartTask, ServerTypes, SocketTypes, RefTypes, ViewTypes, Named, Request, serverVars,
           connVars, refVars, viewVars, tabVars
<1>6. ASSUME NEW c \in Conn, Handshake(c)
      PROVE  Typed'
    BY <1>0, <1>6, ZenonT(30)
       DEF Handshake, Closed, ServerTypes, SocketTypes, RefTypes, ViewTypes, Named, Request,
           serverVars, connVars, refVars, viewVars, tabVars
<1>7. ASSUME NEW c \in Conn, WriteClose(c)
      PROVE  Typed'
    BY <1>0, <1>7
       DEF WriteClose, Closed, ServerTypes, SocketTypes, RefTypes, ViewTypes, Named, Request,
           serverVars, connVars, refVars, viewVars, tabVars
<1>8. ASSUME NEW c \in Conn, Hangup(c)
      PROVE  Typed'
    BY <1>0, <1>8
       DEF Hangup, ServerTypes, SocketTypes, RefTypes, ViewTypes, Named, Request, serverVars,
           connVars, refVars, viewVars, tabVars
<1>9. ASSUME NEW c \in Conn, ReceiveIgnored(c)
      PROVE  Typed'
    <2>1. UNCHANGED <<serverVars, connVars, refVars, viewVars, posting, sync, asked, told, budget>>
        BY <1>9 DEF ReceiveIgnored, Arriving, connVars
    <2>2. reconnecting' \in BOOLEAN
        BY <1>0, <1>9 DEF ReceiveIgnored, ViewTypes
    <2> QED
        BY <1>0, <2>1, <2>2
           DEF ServerTypes, SocketTypes, RefTypes, ViewTypes, serverVars, connVars, refVars,
               viewVars
<1>10. ASSUME NEW c \in Conn, ReceiveEvent(c)
      PROVE  Typed'
    BY <1>0, <1>10
       DEF ReceiveEvent, Reduces, Arriving, ServerTypes, SocketTypes, RefTypes, ViewTypes,
           Named, Request, serverVars, connVars, refVars, viewVars, tabVars
<1>11. ASSUME NEW c \in Conn, OnClose(c)
      PROVE  Typed'
    <2>1. /\ sock' = [sock EXCEPT ![c] = "free"] /\ UNCHANGED <<wants, after>>
          /\ UNCHANGED <<serverVars, subscription, cursor, terminal, intentional, posting, sync,
                         viewVars, asked, told, budget>>
        BY <1>11 DEF OnClose
    <2>2. wants[c] \in Run /\ wants[c] \in Run \cup {NoRun}
        BY <1>0, <1>11 DEF OnClose, Named
    <2>3. /\ socket' \in Conn \cup {NoConn} /\ timers' \subseteq Run
          /\ timerRef' \in Run \cup {NoRun} /\ reconnecting' \in BOOLEAN
        BY <1>0, <1>11, <2>2 DEF OnClose, RefTypes, ViewTypes
    <2>4. SocketTypes'
        BY <1>0, <2>1 DEF SocketTypes
    <2> QED
        BY <1>0, <2>1, <2>3, <2>4 DEF ServerTypes, RefTypes, ViewTypes, serverVars, viewVars
<1>12. ASSUME NEW c \in Conn, NEW y \in Sync, ReceiveGap(c, y)
      PROVE  Typed'
    <2>1. /\ UNCHANGED <<serverVars, connVars, refVars, viewVars, posting, reconnecting, asked, budget>>
          /\ wants[c] \in Run /\ Ask(y, wants[c], TRUE)
          /\ Head(queue[c]) \in Item
        BY <1>0, <1>12 DEF ReceiveGap, Arriving, Named, connVars, Take
    <2>2. sync' \in [Sync -> Request]
        BY <1>0, <2>1, AskTyped DEF ViewTypes
    <2>3. told' \in Nat
        <3>1. Head(queue[c]).seq \in Nat /\ told \in Nat
            BY <1>0, <2>1, ItemTypes DEF ViewTypes, Item, Event
        <3> QED
            BY <1>12, <3>1 DEF ReceiveGap, Larger
    <2> QED
        BY <1>0, <2>1, <2>2, <2>3
           DEF ServerTypes, SocketTypes, RefTypes, ViewTypes, serverVars, connVars, refVars,
               viewVars
<1>13. ASSUME NEW c \in Conn, NEW y \in Sync, ReceiveTerminal(c, y)
      PROVE  Typed'
    <2>1. /\ UNCHANGED <<serverVars, wants, after, socket, subscription, timers, timerRef, viewRun,
                         posting, asked, told, budget>>
          /\ wants[c] \in Run /\ Ask(y, wants[c], TRUE)
          /\ Head(queue[c]) \in Item
          /\ terminal' = TRUE /\ intentional' = TRUE /\ reconnecting' = FALSE /\ viewStatus' = "ended"
          /\ cursor' = Head(queue[c]).seq /\ shown' = Append(shown, <<wants[c], Head(queue[c]).seq>>)
          /\ sock' = [sock EXCEPT ![c] = "closing"]
        BY <1>0, <1>13 DEF ReceiveTerminal, Reduces, Arriving, Named, Take
    <2>2. sync' \in [Sync -> Request]
        BY <1>0, <2>1, AskTyped DEF ViewTypes
    <2>3. cursor' \in Nat /\ shown' \in Seq(Run \X Nat)
        <3>1. Head(queue[c]).seq \in Nat /\ shown \in Seq(Run \X Nat)
            BY <1>0, <2>1 DEF ViewTypes, Item, Event
        <3>2. <<wants[c], Head(queue[c]).seq>> \in Run \X Nat
            BY <2>1, <3>1
        <3> QED
            BY <2>1, <3>1, <3>2, AppendProperties
    <2>4. SocketTypes'
        BY <1>0, <2>1 DEF SocketTypes
    <2> QED
        BY <1>0, <2>1, <2>2, <2>3, <2>4 DEF ServerTypes, RefTypes, ViewTypes, serverVars
<1>14. ASSUME NEW c \in Conn, TaskAccepted(c)
      PROVE  Typed'
    <2>1. /\ UNCHANGED <<row, newest, archived, tasks, timers, timerRef, sync, budget>>
          /\ posting \in Run /\ cursor' = 0 /\ viewRun' = posting /\ viewStatus' = "active"
          /\ shown' = <<>> /\ asked' = posting /\ told' = 0 /\ posting' = NoRun /\ reconnecting' = FALSE
          /\ wants' = [wants EXCEPT ![c] = posting] /\ after' = [after EXCEPT ![c] = 0]
          /\ handler' = [handler EXCEPT ![c] = "opening"] /\ socket' = c /\ subscription' = posting
          /\ terminal' = FALSE /\ intentional' = FALSE
        BY <1>0, <1>14 DEF TaskAccepted, Connect, ViewTypes
    <2>2. sock' \in [Conn -> {"free", "open", "closing", "lost"}]
        BY <1>0, <1>14 DEF TaskAccepted, Connect, SocketTypes
    <2>3. ServerTypes' /\ SocketTypes' /\ RefTypes'
        BY <1>0, <2>1, <2>2 DEF ServerTypes, SocketTypes, RefTypes
    <2>4. shown' \in Seq(Run \X Nat)
        BY <2>1, EmptySeq
    <2> QED
        BY <1>0, <2>1, <2>3, <2>4 DEF ViewTypes
<1>15. ASSUME NEW c \in Conn, Drop(c)
      PROVE  Typed'
    BY <1>0, <1>15
       DEF Drop, Spend, ServerTypes, SocketTypes, RefTypes, ViewTypes, Named, Request,
           serverVars, connVars, refVars, viewVars, tabVars
<1>16. ASSUME NEW c \in Conn, ReconnectNow(c)
      PROVE  Typed'
    BY <1>0, <1>16
       DEF ReconnectNow, Connect, Free, Spend, ServerTypes, SocketTypes, RefTypes, ViewTypes,
           Named, Request, serverVars, connVars, refVars, viewVars, tabVars
<1>17. ASSUME NEW c \in Conn, NEW r \in Run, TimerFires(c, r)
      PROVE  Typed'
    BY <1>0, <1>17
       DEF TimerFires, Connect, Free, ServerTypes, SocketTypes, RefTypes, ViewTypes, Named,
           Request, serverVars, connVars, refVars, viewVars, tabVars
<1>18. ASSUME NEW y \in Sync, ReadRow(y)
      PROVE  Typed'
    <2>1. UNCHANGED <<serverVars, connVars, refVars, viewVars, reconnecting, posting, asked, told, budget>>
        BY <1>18 DEF ReadRow, SyncFrame
    <2>2. sync[y] \in Request /\ sync[y].run \in Run
        BY <1>0, <1>18 DEF ReadRow, ViewTypes, Named
    <2>3. [sync[y] EXCEPT !.phase = "read", !.status = row[sync[y].run]] \in Request
        BY <1>0, <2>2 DEF ServerTypes, Request
    <2>4. sync' = [sync EXCEPT ![y] = [sync[y] EXCEPT !.phase = "read", !.status = row[sync[y].run]]]
        BY <1>0, <1>18 DEF ReadRow, ViewTypes
    <2>5. sync' \in [Sync -> Request]
        BY <1>0, <2>3, <2>4 DEF ViewTypes
    <2> QED
        BY <1>0, <2>1, <2>5
           DEF ServerTypes, SocketTypes, RefTypes, ViewTypes, serverVars, connVars, refVars,
               viewVars
<1>19. ASSUME NEW y \in Sync, ReadCursor(y)
      PROVE  Typed'
    <2>1. UNCHANGED <<serverVars, connVars, refVars, viewVars, reconnecting, posting, asked, told, budget>>
        BY <1>19 DEF ReadCursor, SyncFrame
    <2>2. sync[y] \in Request /\ LastSequence(sync[y].run) \in Nat
        BY <1>0, LastSequenceTyped DEF ViewTypes
    <2>3. [sync[y] EXCEPT !.phase = "answered", !.last = LastSequence(sync[y].run)] \in Request
        BY <2>2 DEF Request
    <2>4. sync' = [sync EXCEPT ![y] = [sync[y] EXCEPT !.phase = "answered", !.last = LastSequence(sync[y].run)]]
        BY <1>0, <1>19 DEF ReadCursor, ViewTypes
    <2>5. sync' \in [Sync -> Request]
        BY <1>0, <2>3, <2>4 DEF ViewTypes
    <2> QED
        BY <1>0, <2>1, <2>5
           DEF ServerTypes, SocketTypes, RefTypes, ViewTypes, serverVars, connVars, refVars,
               viewVars
<1>20. ASSUME NEW y \in Sync, SyncAnswered(y)
      PROVE  Typed'
    <2>1. UNCHANGED <<serverVars, connVars, socket, subscription, intentional, timers, timerRef,
                     viewRun, shown, reconnecting, posting, asked, budget>>
        BY <1>20 DEF SyncAnswered, SyncFrame
    <2>2. sync[y] \in Request
        BY <1>0 DEF ViewTypes
    <2>3. PICK s \in Request : sync' = [sync EXCEPT ![y] = s]
        <3>1. [sync[y] EXCEPT !.phase = "detail"] \in Request /\ Idle \in Request
            BY <2>2, IdleTyped DEF Request
        <3> QED
            BY <1>0, <1>20, <3>1 DEF SyncAnswered, ViewTypes
    <2>4. sync' \in [Sync -> Request]
        BY <1>0, <2>3 DEF ViewTypes
    <2>5. cursor' \in Nat /\ told' \in Nat /\ viewStatus' \in {"absent", "active", "ended"} /\ terminal' \in BOOLEAN
        BY <1>0, <1>20, <2>2 DEF SyncAnswered, Larger, Request, RefTypes, ViewTypes
    <2> QED
        BY <1>0, <2>1, <2>4, <2>5
           DEF ServerTypes, SocketTypes, RefTypes, ViewTypes, serverVars, connVars
<1>21. ASSUME NEW y \in Sync, ReadDetail(y)
      PROVE  Typed'
    <2>1. UNCHANGED <<serverVars, connVars, refVars, viewVars, reconnecting, posting, asked, told, budget>>
        BY <1>21 DEF ReadDetail, SyncFrame
    <2>2. sync[y] \in Request /\ newest \in Run
        BY <1>0, <1>21 DEF ReadDetail, ServerTypes, ViewTypes, Named
    <2>3. [sync[y] EXCEPT !.phase = "merge", !.run = newest, !.status = row[newest]] \in Request
        BY <1>0, <2>2 DEF ServerTypes, Request
    <2>4. sync' = [sync EXCEPT ![y] = [sync[y] EXCEPT !.phase = "merge", !.run = newest, !.status = row[newest]]]
        BY <1>0, <1>21 DEF ReadDetail, ViewTypes
    <2>5. sync' \in [Sync -> Request]
        BY <1>0, <2>3, <2>4 DEF ViewTypes
    <2> QED
        BY <1>0, <2>1, <2>5
           DEF ServerTypes, SocketTypes, RefTypes, ViewTypes, serverVars, connVars, refVars,
               viewVars
<1>22. ASSUME NEW y \in Sync, MergeDetail(y)
      PROVE  Typed'
    BY <1>0, <1>22
       DEF MergeDetail, SyncFrame, Idle, ServerTypes, SocketTypes, RefTypes, ViewTypes, Named,
           Request, serverVars, connVars, refVars, viewVars, tabVars
<1>23. ASSUME NEW y \in Sync, SyncFails(y)
      PROVE  Typed'
    BY <1>0, <1>23
       DEF SyncFails, Spend, Idle, SyncFrame, ServerTypes, SocketTypes, RefTypes, ViewTypes,
           Named, Request, serverVars, connVars, refVars, viewVars, tabVars
<1>24. ASSUME NEW y \in Sync, CancelTask(y)
      PROVE  Typed'
    <2>1. /\ UNCHANGED <<serverVars, connVars, refVars, viewVars, reconnecting, posting, asked, told>>
          /\ DOMAIN budget' = DOMAIN budget
        BY <1>24 DEF CancelTask, Spend
    <2>2. viewRun \in Run /\ (Ask(y, viewRun, TRUE) \/ Ask(y, viewRun, FALSE))
        BY <1>0, <1>24 DEF CancelTask, ViewTypes
    <2>3. sync' \in [Sync -> Request]
        BY <1>0, <2>2, AskTyped DEF ViewTypes
    <2> QED
        BY <1>0, <2>1, <2>3
           DEF ServerTypes, SocketTypes, RefTypes, ViewTypes, serverVars, connVars, refVars,
               viewVars
<1>25. CASE Restart
    BY <1>0, <1>25
       DEF Restart, Spend, ServerTypes, SocketTypes, RefTypes, ViewTypes, Named, Request,
           serverVars, connVars, refVars, viewVars, tabVars
<1>26. CASE UNCHANGED vars
    BY <1>0, <1>26
       DEF vars, ServerTypes, SocketTypes, RefTypes, ViewTypes, Named, Request, serverVars,
           connVars, refVars, viewVars, tabVars
<1> QED
    BY <1>1, <1>2, <1>3, <1>4, <1>5, <1>6, <1>7, <1>8, <1>9, <1>10, <1>11, <1>12, <1>13, <1>14,
       <1>15, <1>16, <1>17, <1>18, <1>19, <1>20, <1>21, <1>22, <1>23, <1>24, <1>25, <1>26
       DEF Next, ServeStep, SocketStep, SyncStep, Resting

-----------------------------------------------------------------------------
(***************************************************************************)
(* The delivery uses the broker as BrokerNext says, with any cursor.       *)
(***************************************************************************)
BrokerUse ==
    \/ UNCHANGED broker
    \/ \E r \in Run : EnsureStream(r) \/ Age(r)
    \/ \E r \in Run, kind \in EventKinds : Publish(r, kind)
    \/ \E r \in Run, c \in Sub, from \in Nat : ~Subscribed(c) /\ Subscribe(c, r, from)
    \/ \E r \in Run, c \in Sub : OnlyIn(c, r) /\ Unsubscribe(c, r)
    \/ \E c \in Sub : Take(c)
    \/ CloseBroker

LEMMA UseStep ==
    ASSUME DeliveryInvariant, Next
    PROVE  BrokerUse
<1>0. SocketTypes /\ Named /\ NoLeakedSubscriber
    BY DEF DeliveryInvariant
<1>1. ASSUME NEW r \in Run, Progress(r)
      PROVE  BrokerUse
    <2>1. \E kind \in EventKinds : Publish(r, kind)
        BY <1>1 DEF Progress, EventKinds
    <2> QED
        BY <2>1 DEF BrokerUse
<1>2. ASSUME NEW r \in Run, Commit(r)
      PROVE  BrokerUse
    BY <1>2 DEF Commit, BrokerUse
<1>3. ASSUME NEW r \in Run, Finish(r)
      PROVE  BrokerUse
    <2>1. \E kind \in EventKinds : Publish(r, kind)
        BY <1>3 DEF Finish, EventKinds, TerminalKinds
    <2> QED
        BY <2>1 DEF BrokerUse
<1>4. ASSUME NEW r \in Run, Expire(r)
      PROVE  BrokerUse
    BY <1>4 DEF Expire, BrokerUse
<1>5. ASSUME NEW r \in Run, StartTask(r)
      PROVE  BrokerUse
    BY <1>5 DEF StartTask, BrokerUse
<1>6. ASSUME NEW c \in Conn, Handshake(c)
      PROVE  BrokerUse
    <2>1. CASE archived
        BY <1>6, <2>1 DEF Handshake, BrokerUse
    <2>2. CASE ~archived
        <3>1. Subscribe(c, wants[c], after[c]) /\ handler[c] = "opening"
            BY <1>6, <2>2 DEF Handshake
        <3>2. wants[c] \in Run /\ after[c] \in Nat /\ c \in Sub
            BY <1>0, <3>1 DEF Named, SocketTypes, Conn
        <3>3. ~Subscribed(c)
            BY <1>0, <3>1 DEF Subscribed, NoLeakedSubscriber
        <3> QED
            BY <3>1, <3>2, <3>3 DEF BrokerUse
    <2> QED
        BY <2>1, <2>2
<1>7. ASSUME NEW c \in Conn, WriteClose(c)
      PROVE  BrokerUse
    <2>1. Unsubscribe(c, wants[c]) /\ wants[c] \in Run /\ c \in Sub
        BY <1>0, <1>7 DEF WriteClose, Named, Conn
    <2>2. OnlyIn(c, wants[c])
        BY <1>0 DEF OnlyIn, NoLeakedSubscriber
    <2> QED
        BY <2>1, <2>2 DEF BrokerUse
<1>8. ASSUME NEW c \in Conn, Hangup(c)
      PROVE  BrokerUse
    <2>1. Unsubscribe(c, wants[c]) /\ wants[c] \in Run /\ c \in Sub
        BY <1>0, <1>8 DEF Hangup, Named, Conn
    <2>2. OnlyIn(c, wants[c])
        BY <1>0 DEF OnlyIn, NoLeakedSubscriber
    <2> QED
        BY <2>1, <2>2 DEF BrokerUse
<1>9. ASSUME NEW c \in Conn, ReceiveIgnored(c)
      PROVE  BrokerUse
    <2>1. Take(c) /\ c \in Sub
        BY <1>9 DEF ReceiveIgnored, Arriving, Conn
    <2> QED
        BY <2>1 DEF BrokerUse
<1>10. ASSUME NEW c \in Conn, ReceiveEvent(c)
      PROVE  BrokerUse
    <2>1. Take(c) /\ c \in Sub
        BY <1>10 DEF ReceiveEvent, Reduces, Arriving, Conn
    <2> QED
        BY <2>1 DEF BrokerUse
<1>11. ASSUME NEW c \in Conn, OnClose(c)
      PROVE  BrokerUse
    BY <1>11 DEF OnClose, BrokerUse
<1>12. ASSUME NEW c \in Conn, NEW y \in Sync, ReceiveGap(c, y)
      PROVE  BrokerUse
    <2>1. Take(c) /\ c \in Sub
        BY <1>12 DEF ReceiveGap, Arriving, Conn
    <2> QED
        BY <2>1 DEF BrokerUse
<1>13. ASSUME NEW c \in Conn, NEW y \in Sync, ReceiveTerminal(c, y)
      PROVE  BrokerUse
    <2>1. Take(c) /\ c \in Sub
        BY <1>13 DEF ReceiveTerminal, Reduces, Arriving, Conn
    <2> QED
        BY <2>1 DEF BrokerUse
<1>14. ASSUME NEW c \in Conn, TaskAccepted(c)
      PROVE  BrokerUse
    BY <1>14 DEF TaskAccepted, BrokerUse
<1>15. ASSUME NEW c \in Conn, Drop(c)
      PROVE  BrokerUse
    BY <1>15 DEF Drop, BrokerUse
<1>16. ASSUME NEW c \in Conn, ReconnectNow(c)
      PROVE  BrokerUse
    BY <1>16 DEF ReconnectNow, BrokerUse
<1>17. ASSUME NEW c \in Conn, NEW r \in Run, TimerFires(c, r)
      PROVE  BrokerUse
    BY <1>17 DEF TimerFires, BrokerUse
<1>18. ASSUME NEW y \in Sync, ReadRow(y)
      PROVE  BrokerUse
    BY <1>18 DEF ReadRow, SyncFrame, BrokerUse
<1>19. ASSUME NEW y \in Sync, ReadCursor(y)
      PROVE  BrokerUse
    BY <1>19 DEF ReadCursor, SyncFrame, BrokerUse
<1>20. ASSUME NEW y \in Sync, SyncAnswered(y)
      PROVE  BrokerUse
    BY <1>20 DEF SyncAnswered, SyncFrame, BrokerUse
<1>21. ASSUME NEW y \in Sync, ReadDetail(y)
      PROVE  BrokerUse
    BY <1>21 DEF ReadDetail, SyncFrame, BrokerUse
<1>22. ASSUME NEW y \in Sync, MergeDetail(y)
      PROVE  BrokerUse
    BY <1>22 DEF MergeDetail, SyncFrame, BrokerUse
<1>23. ASSUME NEW y \in Sync, SyncFails(y)
      PROVE  BrokerUse
    BY <1>23 DEF SyncFails, SyncFrame, BrokerUse
<1>24. ASSUME NEW y \in Sync, CancelTask(y)
      PROVE  BrokerUse
    BY <1>24 DEF CancelTask, BrokerUse
<1>25. CASE Restart
    BY <1>25 DEF Restart, BrokerUse
<1>26. CASE UNCHANGED vars
    BY <1>26 DEF vars, BrokerUse
<1> QED
    BY <1>1, <1>2, <1>3, <1>4, <1>5, <1>6, <1>7, <1>8, <1>9, <1>10, <1>11, <1>12,
       <1>13, <1>14, <1>15, <1>16, <1>17, <1>18, <1>19, <1>20, <1>21, <1>22, <1>23, <1>24, <1>25, <1>26
       DEF Next, ServeStep, SocketStep, SyncStep, Resting

LEMMA UseKeeps ==
    ASSUME BrokerInvariant, BrokerUse
    PROVE  BrokerInvariant'
<1>1. CASE UNCHANGED broker
    BY <1>1, BrokerStep
<1>2. ASSUME NEW r \in Run, EnsureStream(r) \/ Age(r)
      PROVE  BrokerInvariant'
    BY <1>2, EnsureStreamKeeps, AgeKeeps
<1>3. ASSUME NEW r \in Run, NEW kind \in EventKinds, Publish(r, kind)
      PROVE  BrokerInvariant'
    BY <1>3, PublishKeeps
<1>4. ASSUME NEW r \in Run, NEW c \in Sub, NEW from \in Nat, ~Subscribed(c), Subscribe(c, r, from)
      PROVE  BrokerInvariant'
    BY <1>4, SubscribeKeeps
<1>5. ASSUME NEW r \in Run, NEW c \in Sub, OnlyIn(c, r), Unsubscribe(c, r)
      PROVE  BrokerInvariant'
    BY <1>5, UnsubscribeKeeps
<1>6. ASSUME NEW c \in Sub, Take(c)
      PROVE  BrokerInvariant'
    BY <1>6, TakeKeeps
<1>7. CASE CloseBroker
    BY <1>7, CloseBrokerKeeps
<1> QED
    BY <1>1, <1>2, <1>3, <1>4, <1>5, <1>6, <1>7 DEF BrokerUse

-----------------------------------------------------------------------------
(***************************************************************************)
(* Named, and the subscribers.                                             *)
(***************************************************************************)
LEMMA NamedStep ==
    ASSUME DeliveryInvariant, Next
    PROVE  Named'
<1>0. /\ ServerTypes /\ SocketTypes /\ RefTypes /\ ViewTypes /\ Named
      /\ NoRun \notin Run /\ NoConn \notin Sub
    BY DeliveryAssumption DEF DeliveryInvariant
<1>1. ASSUME NEW r \in Run, Progress(r)
      PROVE  Named'
    BY <1>0, <1>1
       DEF Progress, Named, serverVars, connVars, refVars, viewVars, tabVars, ServerTypes,
           SocketTypes, RefTypes, ViewTypes, Request
<1>2. ASSUME NEW r \in Run, Commit(r)
      PROVE  Named'
    BY <1>0, <1>2
       DEF Commit, Named, serverVars, connVars, refVars, viewVars, tabVars, ServerTypes,
           SocketTypes, RefTypes, ViewTypes, Request
<1>3. ASSUME NEW r \in Run, Finish(r)
      PROVE  Named'
    BY <1>0, <1>3
       DEF Finish, Named, serverVars, connVars, refVars, viewVars, tabVars, ServerTypes,
           SocketTypes, RefTypes, ViewTypes, Request
<1>4. ASSUME NEW r \in Run, Expire(r)
      PROVE  Named'
    BY <1>0, <1>4
       DEF Expire, Spend, Named, serverVars, connVars, refVars, viewVars, tabVars, ServerTypes,
           SocketTypes, RefTypes, ViewTypes, Request
<1>5. ASSUME NEW r \in Run, StartTask(r)
      PROVE  Named'
    BY <1>0, <1>5
       DEF StartTask, Named, serverVars, connVars, refVars, viewVars, tabVars, ServerTypes,
           SocketTypes, RefTypes, ViewTypes, Request
<1>6. ASSUME NEW c \in Conn, Handshake(c)
      PROVE  Named'
    BY <1>0, <1>6
       DEF Handshake, Closed, Named, serverVars, connVars, refVars, viewVars, tabVars,
           ServerTypes, SocketTypes, RefTypes, ViewTypes, Request
<1>7. ASSUME NEW c \in Conn, WriteClose(c)
      PROVE  Named'
    BY <1>0, <1>7
       DEF WriteClose, Closed, Named, serverVars, connVars, refVars, viewVars, tabVars,
           ServerTypes, SocketTypes, RefTypes, ViewTypes, Request
<1>8. ASSUME NEW c \in Conn, Hangup(c)
      PROVE  Named'
    BY <1>0, <1>8
       DEF Hangup, Named, serverVars, connVars, refVars, viewVars, tabVars, ServerTypes,
           SocketTypes, RefTypes, ViewTypes, Request
<1>9. ASSUME NEW c \in Conn, ReceiveIgnored(c)
      PROVE  Named'
    BY <1>0, <1>9
       DEF ReceiveIgnored, Arriving, Named, serverVars, connVars, refVars, viewVars, tabVars,
           ServerTypes, SocketTypes, RefTypes, ViewTypes, Request
<1>10. ASSUME NEW c \in Conn, ReceiveEvent(c)
      PROVE  Named'
    BY <1>0, <1>10
       DEF ReceiveEvent, Reduces, Arriving, Named, serverVars, connVars, refVars, viewVars,
           tabVars, ServerTypes, SocketTypes, RefTypes, ViewTypes, Request
<1>11. ASSUME NEW c \in Conn, OnClose(c)
      PROVE  Named'
    BY <1>0, <1>11
       DEF OnClose, Named, serverVars, connVars, refVars, viewVars, tabVars, ServerTypes,
           SocketTypes, RefTypes, ViewTypes, Request
<1>12. ASSUME NEW c \in Conn, NEW y \in Sync, ReceiveGap(c, y)
      PROVE  Named'
    BY <1>0, <1>12
       DEF ReceiveGap, Arriving, Ask, Larger, Idle, Named, serverVars, connVars, refVars,
           viewVars, tabVars, ServerTypes, SocketTypes, RefTypes, ViewTypes, Request
<1>13. ASSUME NEW c \in Conn, NEW y \in Sync, ReceiveTerminal(c, y)
      PROVE  Named'
    BY <1>0, <1>13
       DEF ReceiveTerminal, Reduces, Arriving, Ask, Idle, Named, serverVars, connVars, refVars,
           viewVars, tabVars, ServerTypes, SocketTypes, RefTypes, ViewTypes, Request
<1>14. ASSUME NEW c \in Conn, TaskAccepted(c)
      PROVE  Named'
    BY <1>0, <1>14
       DEF TaskAccepted, Connect, Free, Named, serverVars, connVars, refVars, viewVars, tabVars,
           ServerTypes, SocketTypes, RefTypes, ViewTypes, Request
<1>15. ASSUME NEW c \in Conn, Drop(c)
      PROVE  Named'
    BY <1>0, <1>15
       DEF Drop, Spend, Named, serverVars, connVars, refVars, viewVars, tabVars, ServerTypes,
           SocketTypes, RefTypes, ViewTypes, Request
<1>16. ASSUME NEW c \in Conn, ReconnectNow(c)
      PROVE  Named'
    BY <1>0, <1>16
       DEF ReconnectNow, Connect, Free, Spend, Named, serverVars, connVars, refVars, viewVars,
           tabVars, ServerTypes, SocketTypes, RefTypes, ViewTypes, Request
<1>17. ASSUME NEW c \in Conn, NEW r \in Run, TimerFires(c, r)
      PROVE  Named'
    BY <1>0, <1>17
       DEF TimerFires, Connect, Free, Named, serverVars, connVars, refVars, viewVars, tabVars,
           ServerTypes, SocketTypes, RefTypes, ViewTypes, Request
<1>18. ASSUME NEW y \in Sync, ReadRow(y)
      PROVE  Named'
    BY <1>0, <1>18
       DEF ReadRow, SyncFrame, Named, serverVars, connVars, refVars, viewVars, tabVars,
           ServerTypes, SocketTypes, RefTypes, ViewTypes, Request
<1>19. ASSUME NEW y \in Sync, ReadCursor(y)
      PROVE  Named'
    BY <1>0, <1>19
       DEF ReadCursor, SyncFrame, Named, serverVars, connVars, refVars, viewVars, tabVars,
           ServerTypes, SocketTypes, RefTypes, ViewTypes, Request
<1>20. ASSUME NEW y \in Sync, SyncAnswered(y)
      PROVE  Named'
    BY <1>0, <1>20
       DEF SyncAnswered, SyncFrame, Larger, Idle, Named, serverVars, connVars, refVars, viewVars,
           tabVars, ServerTypes, SocketTypes, RefTypes, ViewTypes, Request
<1>21. ASSUME NEW y \in Sync, ReadDetail(y)
      PROVE  Named'
    BY <1>0, <1>21
       DEF ReadDetail, SyncFrame, Named, serverVars, connVars, refVars, viewVars, tabVars,
           ServerTypes, SocketTypes, RefTypes, ViewTypes, Request
<1>22. ASSUME NEW y \in Sync, MergeDetail(y)
      PROVE  Named'
    BY <1>0, <1>22
       DEF MergeDetail, SyncFrame, Idle, Named, serverVars, connVars, refVars, viewVars, tabVars,
           ServerTypes, SocketTypes, RefTypes, ViewTypes, Request
<1>23. ASSUME NEW y \in Sync, SyncFails(y)
      PROVE  Named'
    BY <1>0, <1>23
       DEF SyncFails, Spend, Idle, SyncFrame, Named, serverVars, connVars, refVars, viewVars,
           tabVars, ServerTypes, SocketTypes, RefTypes, ViewTypes, Request
<1>24. ASSUME NEW y \in Sync, CancelTask(y)
      PROVE  Named'
    <2>1. UNCHANGED <<handler, sock, wants, newest, posting, subscription, timers, viewRun>>
        BY <1>24 DEF CancelTask, serverVars, connVars, refVars, viewVars
    <2>2. viewRun \in Run /\ (Ask(y, viewRun, TRUE) \/ Ask(y, viewRun, FALSE))
        BY <1>0, <1>24 DEF CancelTask, ViewTypes
    <2>3. \A z \in Sync : sync'[z] = sync[z] \/ sync'[z].run = viewRun
        BY <1>0, <2>2, AskTyped DEF ViewTypes
    <2>4. newest # NoRun
        BY <1>0, <2>2 DEF Named
    <2> QED
        BY <1>0, <2>1, <2>2, <2>3, <2>4 DEF Named
<1>25. CASE Restart
    BY <1>0, <1>25
       DEF Restart, Spend, Named, serverVars, connVars, refVars, viewVars, tabVars, ServerTypes,
           SocketTypes, RefTypes, ViewTypes, Request
<1>26. CASE UNCHANGED vars
    BY <1>0, <1>26
       DEF vars, Named, serverVars, connVars, refVars, viewVars, tabVars, ServerTypes,
           SocketTypes, RefTypes, ViewTypes, Request
<1> QED
    BY <1>1, <1>2, <1>3, <1>4, <1>5, <1>6, <1>7, <1>8, <1>9, <1>10, <1>11, <1>12,
       <1>13, <1>14, <1>15, <1>16, <1>17, <1>18, <1>19, <1>20, <1>21, <1>22, <1>23, <1>24, <1>25, <1>26
       DEF Next, ServeStep, SocketStep, SyncStep, Resting

LEMMA NoLeakedStep ==
    ASSUME DeliveryInvariant, Next
    PROVE  NoLeakedSubscriber'
<1>0. /\ ServerTypes /\ SocketTypes /\ Named /\ BrokerInvariant /\ NoLeakedSubscriber
      /\ \A x \in DOMAIN streams : streams[x].subscribers \subseteq Conn
    BY DEF DeliveryInvariant, BrokerInvariant, Tidy, Stream, Conn
<1>1. ASSUME NEW r \in Run, Progress(r)
      PROVE  NoLeakedSubscriber'
    <2>1. Fewer
        BY <1>0, <1>1, PublishSubscribers DEF Progress, EventKinds
    <2>2. handler' = handler /\ wants' = wants
        BY <1>1 DEF Progress, serverVars, tabVars, connVars
    <2> QED
        BY <1>0, <2>1, <2>2 DEF NoLeakedSubscriber, Fewer
<1>2. ASSUME NEW r \in Run, Commit(r)
      PROVE  NoLeakedSubscriber'
    BY <1>0, <1>2 DEF Commit, NoLeakedSubscriber, broker, serverVars, connVars, tabVars
<1>3. ASSUME NEW r \in Run, Finish(r)
      PROVE  NoLeakedSubscriber'
    <2>1. Fewer
        BY <1>0, <1>3, PublishSubscribers DEF Finish, EventKinds, TerminalKinds
    <2>2. handler' = handler /\ wants' = wants
        BY <1>3 DEF Finish, tabVars, connVars
    <2> QED
        BY <1>0, <2>1, <2>2 DEF NoLeakedSubscriber, Fewer
<1>4. ASSUME NEW r \in Run, Expire(r)
      PROVE  NoLeakedSubscriber'
    <2>1. Fewer
        BY <1>0, <1>4, AgeSubscribers DEF Expire
    <2>2. handler' = handler /\ wants' = wants
        BY <1>4 DEF Expire, serverVars, tabVars, connVars
    <2> QED
        BY <1>0, <2>1, <2>2 DEF NoLeakedSubscriber, Fewer
<1>5. ASSUME NEW r \in Run, StartTask(r)
      PROVE  NoLeakedSubscriber'
    <2>1. Fewer
        BY <1>0, <1>5, EnsureStreamSubscribers DEF StartTask
    <2>2. handler' = handler /\ wants' = wants
        BY <1>5 DEF StartTask, connVars
    <2> QED
        BY <1>0, <2>1, <2>2 DEF NoLeakedSubscriber, Fewer
<1>6. ASSUME NEW c \in Conn, Handshake(c)
      PROVE  NoLeakedSubscriber'
    <2>1. CASE archived
        <3>1. streams' = streams /\ wants' = wants /\ handler[c] = "opening"
            BY <1>6, <2>1 DEF Handshake, broker
        <3>2. \A d \in Conn : d # c => handler'[d] = handler[d]
            BY <1>0, <1>6, <2>1 DEF Handshake, ServerTypes
        <3> QED
            BY <1>0, <3>1, <3>2 DEF NoLeakedSubscriber
    <2>2. CASE ~archived
        <3>1. Subscribe(c, wants[c], after[c]) /\ handler[c] = "opening" /\ wants' = wants
            BY <1>6, <2>2 DEF Handshake
        <3>2. wants[c] \in Run /\ after[c] \in Nat /\ c \in Sub
            BY <1>0, <3>1 DEF Named, SocketTypes, Conn
        <3>3. handler' = [handler EXCEPT ![c] = "open"]
            BY <1>6, <2>2 DEF Handshake
        <3>4. \A x \in DOMAIN streams' : \A d \in streams'[x].subscribers :
                  (x = wants[c] /\ d = c) \/ (x \in DOMAIN streams /\ d \in streams[x].subscribers)
            BY <1>0, <3>1, <3>2, SubscribeSubscribers
        <3> QED
            BY <1>0, <3>1, <3>3, <3>4 DEF NoLeakedSubscriber, ServerTypes
    <2> QED
        BY <2>1, <2>2
<1>7. ASSUME NEW c \in Conn, WriteClose(c)
      PROVE  NoLeakedSubscriber'
    <2>1. /\ Unsubscribe(c, wants[c]) /\ wants[c] \in Run /\ c \in Sub
          /\ wants' = wants /\ handler' = [handler EXCEPT ![c] = "none"]
        BY <1>0, <1>7 DEF WriteClose, Named, Conn, tabVars, connVars
    <2>2. \A x \in DOMAIN streams' : \A d \in streams'[x].subscribers :
              x \in DOMAIN streams /\ d \in streams[x].subscribers /\ (x = wants[c] => d # c)
        BY <1>0, <2>1, UnsubscribeSubscribers
    <2> QED
        BY <1>0, <2>1, <2>2 DEF NoLeakedSubscriber, ServerTypes
<1>8. ASSUME NEW c \in Conn, Hangup(c)
      PROVE  NoLeakedSubscriber'
    <2>1. /\ Unsubscribe(c, wants[c]) /\ wants[c] \in Run /\ c \in Sub
          /\ wants' = wants /\ handler' = [handler EXCEPT ![c] = "none"]
        BY <1>0, <1>8 DEF Hangup, Named, Conn, tabVars, connVars
    <2>2. \A x \in DOMAIN streams' : \A d \in streams'[x].subscribers :
              x \in DOMAIN streams /\ d \in streams[x].subscribers /\ (x = wants[c] => d # c)
        BY <1>0, <2>1, UnsubscribeSubscribers
    <2> QED
        BY <1>0, <2>1, <2>2 DEF NoLeakedSubscriber, ServerTypes
<1>9. ASSUME NEW c \in Conn, ReceiveIgnored(c)
      PROVE  NoLeakedSubscriber'
    <2>1. Fewer
        BY <1>0, <1>9 DEF ReceiveIgnored, Arriving, Take, Fewer
    <2>2. handler' = handler /\ wants' = wants
        BY <1>9 DEF ReceiveIgnored, Arriving, serverVars
    <2> QED
        BY <1>0, <2>1, <2>2 DEF NoLeakedSubscriber, Fewer
<1>10. ASSUME NEW c \in Conn, ReceiveEvent(c)
      PROVE  NoLeakedSubscriber'
    <2>1. Fewer
        BY <1>0, <1>10 DEF ReceiveEvent, Reduces, Arriving, Take, Fewer
    <2>2. handler' = handler /\ wants' = wants
        BY <1>10 DEF ReceiveEvent, Reduces, Arriving, serverVars
    <2> QED
        BY <1>0, <2>1, <2>2 DEF NoLeakedSubscriber, Fewer
<1>11. ASSUME NEW c \in Conn, OnClose(c)
      PROVE  NoLeakedSubscriber'
    BY <1>0, <1>11 DEF OnClose, NoLeakedSubscriber, broker, serverVars, connVars, tabVars
<1>12. ASSUME NEW c \in Conn, NEW y \in Sync, ReceiveGap(c, y)
      PROVE  NoLeakedSubscriber'
    <2>1. Fewer
        BY <1>0, <1>12 DEF ReceiveGap, Arriving, Take, Fewer
    <2>2. handler' = handler /\ wants' = wants
        BY <1>12 DEF ReceiveGap, Arriving, serverVars
    <2> QED
        BY <1>0, <2>1, <2>2 DEF NoLeakedSubscriber, Fewer
<1>13. ASSUME NEW c \in Conn, NEW y \in Sync, ReceiveTerminal(c, y)
      PROVE  NoLeakedSubscriber'
    <2>1. Fewer
        BY <1>0, <1>13 DEF ReceiveTerminal, Reduces, Arriving, Take, Fewer
    <2>2. handler' = handler /\ wants' = wants
        BY <1>13 DEF ReceiveTerminal, Reduces, Arriving, serverVars
    <2> QED
        BY <1>0, <2>1, <2>2 DEF NoLeakedSubscriber, Fewer
<1>14. ASSUME NEW c \in Conn, TaskAccepted(c)
      PROVE  NoLeakedSubscriber'
    <2>1. streams' = streams /\ handler[c] = "none"
        BY <1>14 DEF TaskAccepted, Connect, Free, broker
    <2>2. \A d \in Conn : d # c => handler'[d] = handler[d] /\ wants'[d] = wants[d]
        BY <1>0, <1>14 DEF TaskAccepted, Connect, ServerTypes, SocketTypes
    <2> QED
        BY <1>0, <2>1, <2>2 DEF NoLeakedSubscriber
<1>15. ASSUME NEW c \in Conn, Drop(c)
      PROVE  NoLeakedSubscriber'
    BY <1>0, <1>15 DEF Drop, NoLeakedSubscriber, broker, serverVars, connVars, tabVars
<1>16. ASSUME NEW c \in Conn, ReconnectNow(c)
      PROVE  NoLeakedSubscriber'
    <2>1. streams' = streams /\ handler[c] = "none"
        BY <1>16 DEF ReconnectNow, Connect, Free, broker
    <2>2. \A d \in Conn : d # c => handler'[d] = handler[d] /\ wants'[d] = wants[d]
        BY <1>0, <1>16 DEF ReconnectNow, Connect, ServerTypes, SocketTypes
    <2> QED
        BY <1>0, <2>1, <2>2 DEF NoLeakedSubscriber
<1>17. ASSUME NEW c \in Conn, NEW r \in Run, TimerFires(c, r)
      PROVE  NoLeakedSubscriber'
    <2>1. streams' = streams /\ handler[c] = "none"
        BY <1>17 DEF TimerFires, Connect, Free, broker
    <2>2. \A d \in Conn : d # c => handler'[d] = handler[d] /\ wants'[d] = wants[d]
        BY <1>0, <1>17 DEF TimerFires, Connect, ServerTypes, SocketTypes
    <2> QED
        BY <1>0, <2>1, <2>2 DEF NoLeakedSubscriber
<1>18. ASSUME NEW y \in Sync, ReadRow(y)
      PROVE  NoLeakedSubscriber'
    BY <1>0, <1>18
       DEF ReadRow, SyncFrame, NoLeakedSubscriber, broker, serverVars, connVars, tabVars
<1>19. ASSUME NEW y \in Sync, ReadCursor(y)
      PROVE  NoLeakedSubscriber'
    BY <1>0, <1>19
       DEF ReadCursor, SyncFrame, NoLeakedSubscriber, broker, serverVars, connVars, tabVars
<1>20. ASSUME NEW y \in Sync, SyncAnswered(y)
      PROVE  NoLeakedSubscriber'
    BY <1>0, <1>20
       DEF SyncAnswered, SyncFrame, NoLeakedSubscriber, broker, serverVars, connVars, tabVars
<1>21. ASSUME NEW y \in Sync, ReadDetail(y)
      PROVE  NoLeakedSubscriber'
    BY <1>0, <1>21
       DEF ReadDetail, SyncFrame, NoLeakedSubscriber, broker, serverVars, connVars, tabVars
<1>22. ASSUME NEW y \in Sync, MergeDetail(y)
      PROVE  NoLeakedSubscriber'
    BY <1>0, <1>22
       DEF MergeDetail, SyncFrame, NoLeakedSubscriber, broker, serverVars, connVars, tabVars
<1>23. ASSUME NEW y \in Sync, SyncFails(y)
      PROVE  NoLeakedSubscriber'
    BY <1>0, <1>23
       DEF SyncFails, SyncFrame, NoLeakedSubscriber, broker, serverVars, connVars, tabVars
<1>24. ASSUME NEW y \in Sync, CancelTask(y)
      PROVE  NoLeakedSubscriber'
    BY <1>0, <1>24 DEF CancelTask, NoLeakedSubscriber, broker, serverVars, connVars, tabVars
<1>25. CASE Restart
    BY <1>25 DEF Restart, CloseBroker, NoLeakedSubscriber
<1>26. CASE UNCHANGED vars
    BY <1>0, <1>26 DEF vars, NoLeakedSubscriber, broker, serverVars, connVars, tabVars
<1> QED
    BY <1>1, <1>2, <1>3, <1>4, <1>5, <1>6, <1>7, <1>8, <1>9, <1>10, <1>11, <1>12,
       <1>13, <1>14, <1>15, <1>16, <1>17, <1>18, <1>19, <1>20, <1>21, <1>22, <1>23, <1>24, <1>25, <1>26
       DEF Next, ServeStep, SocketStep, SyncStep, Resting

-----------------------------------------------------------------------------
(***************************************************************************)
(* What the tab reduces.                                                   *)
(***************************************************************************)
\* How a step can touch the cursor and the events shown.
Shows ==
    \/ shown' = <<>>
    \/ shown' = shown /\ cursor' \in Nat /\ cursor' >= cursor
    \/ \E r \in Run, n \in Nat : n > cursor /\ cursor' = n /\ shown' = Append(shown, <<r, n>>)

LEMMA ShowsStep ==
    ASSUME DeliveryInvariant, Next
    PROVE  Shows
<1>0. /\ RefTypes /\ ViewTypes /\ Named /\ BrokerInvariant /\ cursor \in Nat
      /\ \A c \in Conn : queue[c] # <<>> => Head(queue[c]) \in Item /\ Head(queue[c]).seq \in Nat
    BY HeadTyped DEF DeliveryInvariant, RefTypes
<1>1. ASSUME NEW r \in Run, Progress(r)
      PROVE  Shows
    BY <1>0, <1>1 DEF Progress, refVars, viewVars, tabVars, Shows
<1>2. ASSUME NEW r \in Run, Commit(r)
      PROVE  Shows
    BY <1>0, <1>2 DEF Commit, refVars, viewVars, tabVars, Shows
<1>3. ASSUME NEW r \in Run, Finish(r)
      PROVE  Shows
    BY <1>0, <1>3 DEF Finish, refVars, viewVars, tabVars, Shows
<1>4. ASSUME NEW r \in Run, Expire(r)
      PROVE  Shows
    BY <1>0, <1>4 DEF Expire, refVars, viewVars, tabVars, Shows
<1>5. ASSUME NEW r \in Run, StartTask(r)
      PROVE  Shows
    BY <1>0, <1>5 DEF StartTask, refVars, viewVars, tabVars, Shows
<1>6. ASSUME NEW c \in Conn, Handshake(c)
      PROVE  Shows
    BY <1>0, <1>6 DEF Handshake, refVars, viewVars, tabVars, Shows
<1>7. ASSUME NEW c \in Conn, WriteClose(c)
      PROVE  Shows
    BY <1>0, <1>7 DEF WriteClose, refVars, viewVars, tabVars, Shows
<1>8. ASSUME NEW c \in Conn, Hangup(c)
      PROVE  Shows
    BY <1>0, <1>8 DEF Hangup, refVars, viewVars, tabVars, Shows
<1>9. ASSUME NEW c \in Conn, ReceiveIgnored(c)
      PROVE  Shows
    BY <1>0, <1>9 DEF ReceiveIgnored, Arriving, refVars, viewVars, tabVars, Shows
<1>10. ASSUME NEW c \in Conn, ReceiveEvent(c)
      PROVE  Shows
    BY <1>0, <1>10 DEF ReceiveEvent, Reduces, Fresh, Arriving, Named, Shows, Conn
<1>11. ASSUME NEW c \in Conn, OnClose(c)
      PROVE  Shows
    BY <1>0, <1>11 DEF OnClose, refVars, viewVars, tabVars, Shows
<1>12. ASSUME NEW c \in Conn, NEW y \in Sync, ReceiveGap(c, y)
      PROVE  Shows
    BY <1>0, <1>12 DEF ReceiveGap, Arriving, refVars, viewVars, tabVars, Shows
<1>13. ASSUME NEW c \in Conn, NEW y \in Sync, ReceiveTerminal(c, y)
      PROVE  Shows
    BY <1>0, <1>13 DEF ReceiveTerminal, Reduces, Fresh, Arriving, Named, Shows, Conn
<1>14. ASSUME NEW c \in Conn, TaskAccepted(c)
      PROVE  Shows
    BY <1>14 DEF TaskAccepted, Shows
<1>15. ASSUME NEW c \in Conn, Drop(c)
      PROVE  Shows
    BY <1>0, <1>15 DEF Drop, refVars, viewVars, tabVars, Shows
<1>16. ASSUME NEW c \in Conn, ReconnectNow(c)
      PROVE  Shows
    BY <1>0, <1>16 DEF ReconnectNow, refVars, viewVars, tabVars, Shows
<1>17. ASSUME NEW c \in Conn, NEW r \in Run, TimerFires(c, r)
      PROVE  Shows
    BY <1>0, <1>17 DEF TimerFires, refVars, viewVars, tabVars, Shows
<1>18. ASSUME NEW y \in Sync, ReadRow(y)
      PROVE  Shows
    BY <1>0, <1>18 DEF ReadRow, SyncFrame, refVars, viewVars, tabVars, Shows
<1>19. ASSUME NEW y \in Sync, ReadCursor(y)
      PROVE  Shows
    BY <1>0, <1>19 DEF ReadCursor, SyncFrame, refVars, viewVars, tabVars, Shows
<1>20. ASSUME NEW y \in Sync, SyncAnswered(y)
      PROVE  Shows
    <2>1. sync[y].last \in Nat /\ shown' = shown /\ cursor' = Larger(cursor, sync[y].last)
        BY <1>0, <1>20 DEF SyncAnswered, ViewTypes, Request
    <2> QED
        BY <1>0, <2>1 DEF Shows, Larger, RefTypes
<1>21. ASSUME NEW y \in Sync, ReadDetail(y)
      PROVE  Shows
    BY <1>0, <1>21 DEF ReadDetail, SyncFrame, refVars, viewVars, tabVars, Shows
<1>22. ASSUME NEW y \in Sync, MergeDetail(y)
      PROVE  Shows
    BY <1>0, <1>22 DEF MergeDetail, SyncFrame, refVars, viewVars, tabVars, Shows
<1>23. ASSUME NEW y \in Sync, SyncFails(y)
      PROVE  Shows
    BY <1>0, <1>23 DEF SyncFails, SyncFrame, refVars, viewVars, tabVars, Shows
<1>24. ASSUME NEW y \in Sync, CancelTask(y)
      PROVE  Shows
    BY <1>0, <1>24 DEF CancelTask, refVars, viewVars, tabVars, Shows
<1>25. CASE Restart
    BY <1>0, <1>25 DEF Restart, refVars, viewVars, tabVars, Shows
<1>26. CASE UNCHANGED vars
    BY <1>0, <1>26 DEF vars, refVars, viewVars, Shows
<1> QED
    BY <1>1, <1>2, <1>3, <1>4, <1>5, <1>6, <1>7, <1>8, <1>9, <1>10, <1>11, <1>12,
       <1>13, <1>14, <1>15, <1>16, <1>17, <1>18, <1>19, <1>20, <1>21, <1>22, <1>23, <1>24, <1>25, <1>26
       DEF Next, ServeStep, SocketStep, SyncStep, Resting

LEMMA ShownStep ==
    ASSUME DeliveryInvariant, Next
    PROVE  ShownBelow' /\ ReducedOnceInOrder'
<1>0. /\ cursor \in Nat /\ shown \in Seq(Run \X Nat)
      /\ ShownBelow /\ ReducedOnceInOrder
    BY DEF DeliveryInvariant, RefTypes, ViewTypes
<1>1. PICK k \in Nat : k = Len(shown)
    BY <1>0, LenProperties
<1>2. DOMAIN shown = 1..k /\ \A i \in 1..k : shown[i] \in Run \X Nat
    BY <1>0, <1>1, LenProperties, ElementOfSeq
<1>3. CASE shown' = <<>>
    <2>1. DOMAIN shown' = {}
        BY <1>3
    <2> QED
        BY <2>1 DEF ShownBelow, ReducedOnceInOrder
<1>4. CASE shown' = shown /\ cursor' \in Nat /\ cursor' >= cursor
    <2>1. \A i \in 1..k : shown[i][2] \in Nat /\ shown[i][2] <= cursor
        BY <1>0, <1>2 DEF ShownBelow
    <2>2. ShownBelow'
        BY <1>0, <1>2, <1>4, <2>1 DEF ShownBelow
    <2> QED
        BY <1>0, <1>4, <2>2 DEF ReducedOnceInOrder
<1>5. ASSUME NEW r \in Run, NEW n \in Nat, n > cursor, cursor' = n, shown' = Append(shown, <<r, n>>)
      PROVE  ShownBelow' /\ ReducedOnceInOrder'
    <2>1. PICK s \in Seq(Run \X Nat) : s = shown'
        BY <1>0, <1>5, AppendProperties
    <2>2. /\ s[k + 1] = <<r, n>> /\ Len(s) = k + 1
          /\ \A i \in 1..k : s[i] = shown[i]
        BY <1>0, <1>1, <1>5, <2>1, AppendProperties
    <2>3. DOMAIN s = 1..(k + 1)
        BY <2>2, LenProperties
    <2>4. \A i \in 1..k : shown[i][2] \in Nat /\ shown[i][2] <= cursor
        BY <1>0, <1>2 DEF ShownBelow
    <2>5. \A i \in 1..(k + 1) : i \in 1..k \/ i = k + 1
        OBVIOUS
    <2>6. \A i \in 1..(k + 1) : s[i][2] <= n
        BY <1>0, <1>5, <2>2, <2>4, <2>5
    <2>7. \A i, j \in 1..(k + 1) : i < j /\ s[i][1] = s[j][1] => s[i][2] < s[j][2]
        <3> SUFFICES ASSUME NEW i \in 1..(k + 1), NEW j \in 1..(k + 1), i < j, s[i][1] = s[j][1]
                     PROVE  s[i][2] < s[j][2]
            OBVIOUS
        <3>1. i \in 1..k
            OBVIOUS
        <3>2. CASE j \in 1..k
            BY <1>0, <1>2, <2>2, <3>1, <3>2 DEF ReducedOnceInOrder
        <3>3. CASE j = k + 1
            BY <1>0, <1>5, <2>2, <2>4, <3>1, <3>3, SMTT(15)
        <3> QED
            BY <2>5, <3>2, <3>3
    <2>8. ShownBelow'
        BY <1>5, <2>1, <2>3, <2>6 DEF ShownBelow
    <2>9. ReducedOnceInOrder'
        BY <2>1, <2>3, <2>7 DEF ReducedOnceInOrder
    <2> QED
        BY <2>8, <2>9
<1> QED
    BY <1>3, <1>4, <1>5, ShowsStep DEF Shows

-----------------------------------------------------------------------------
LEMMA DeliveryInitially == Init => DeliveryInvariant
<1> SUFFICES ASSUME Init PROVE DeliveryInvariant
    OBVIOUS
<1>1. BrokerInvariant
    BY BrokerInitially DEF Init
<1>2. ServerTypes /\ SocketTypes /\ RefTypes
    BY DEF Init, ServerTypes, SocketTypes, RefTypes
<1>3. ViewTypes
    <2>1. shown \in Seq(Run \X Nat)
        BY EmptySeq DEF Init
    <2> QED
        BY <2>1, IdleTyped DEF Init, ViewTypes
<1>4. Named
    BY IdleTyped DEF Init, Named
<1>5. NoLeakedSubscriber
    BY DEF Init, BrokerInit, NoLeakedSubscriber
<1>6. ShownBelow /\ ReducedOnceInOrder
    <2>1. DOMAIN shown = {}
        BY DEF Init
    <2> QED
        BY <2>1 DEF ShownBelow, ReducedOnceInOrder
<1> QED
    BY <1>1, <1>2, <1>3, <1>4, <1>5, <1>6 DEF DeliveryInvariant

LEMMA DeliveryStep == DeliveryInvariant /\ [Next]_vars => DeliveryInvariant'
<1> SUFFICES ASSUME DeliveryInvariant, [Next]_vars
             PROVE  DeliveryInvariant'
    OBVIOUS
<1>1. CASE Next
    <2>1. BrokerInvariant'
        BY <1>1, UseStep, UseKeeps DEF DeliveryInvariant
    <2>2. Typed'
        BY <1>1, TypedStep
    <2>3. Named' /\ NoLeakedSubscriber' /\ ShownBelow' /\ ReducedOnceInOrder'
        BY <1>1, NamedStep, NoLeakedStep, ShownStep
    <2> QED
        BY <2>1, <2>2, <2>3 DEF DeliveryInvariant, Typed
<1>2. CASE UNCHANGED vars
    <2>1. UNCHANGED broker /\ BrokerUse
        BY <1>2 DEF vars, BrokerUse
    <2>2. BrokerInvariant'
        BY <2>1, UseKeeps DEF DeliveryInvariant
    <2> QED
        BY <1>2, <2>2
           DEF DeliveryInvariant, vars, broker, serverVars, connVars, refVars, viewVars,
           ServerTypes, SocketTypes, RefTypes, ViewTypes, Named, NoLeakedSubscriber, ShownBelow,
           ReducedOnceInOrder
<1> QED
    BY <1>1, <1>2

THEOREM DeliveryInvariance == Spec => []DeliveryInvariant
<1>1. Init => DeliveryInvariant
    BY DeliveryInitially
<1>2. DeliveryInvariant /\ [Next]_vars => DeliveryInvariant'
    BY DeliveryStep
<1> QED
    BY <1>1, <1>2, PTL DEF Spec

\* The types, for every number of runs, sockets and requests and every bound.
THEOREM DeliveryTypeCorrect == Spec => []TypeOK
BY DeliveryInvariance, DeliveryMeans, PTL

\* No subscriber survives its connection: whichever of the writer, the reader and a
\* restart ends the endpoint, `finally` has unsubscribed it (server.py, event_broker.py:82-90).
THEOREM NoSubscriberLeaks == Spec => []NoLeakedSubscriber
<1>1. DeliveryInvariant => NoLeakedSubscriber
    BY DEF DeliveryInvariant
<1> QED
    BY <1>1, DeliveryInvariance, PTL

\* No event of a run is reduced twice or out of order, whatever reconnects, replays and
\* status answers overlap (useGlobuyTask.ts:117-121).
THEOREM ReducedInOrder == Spec => []ReducedOnceInOrder
<1>1. DeliveryInvariant => ReducedOnceInOrder
    BY DEF DeliveryInvariant
<1> QED
    BY <1>1, DeliveryInvariance, PTL

\* The buffers and the queues keep their promise in the composition.
THEOREM DeliveredTails == Spec => [](BufferIsTail /\ QueueIsTail)
<1>1. DeliveryInvariant => BufferIsTail /\ QueueIsTail
    BY InvariantMeans DEF DeliveryInvariant
<1> QED
    BY <1>1, DeliveryInvariance, PTL

\* The composition implements the broker's own specification, step by step: nobody
\* subscribes twice or unsubscribes another's subscription (server.py:395-470).
\* Cursor is the set of the cursors a client may name, which in the code is any number.
THEOREM DeliveryUsesBroker == Cursor = Nat => (Spec => UsesBroker)
<1> SUFFICES ASSUME Cursor = Nat
             PROVE  Spec => BrokerSpec
    BY DEF UsesBroker
<1>1. Init => BrokerInit
    BY DEF Init
<1>2. DeliveryInvariant /\ [Next]_vars => [BrokerNext]_broker
    <2> SUFFICES ASSUME DeliveryInvariant, [Next]_vars
                 PROVE  [BrokerNext]_broker
        OBVIOUS
    <2>1. BrokerUse
        BY UseStep DEF vars, BrokerUse
    <2> QED
        BY <2>1 DEF BrokerUse, BrokerNext
<1> QED
    BY <1>1, <1>2, DeliveryInvariance, PTL DEF Spec, BrokerSpec

-----------------------------------------------------------------------------
(***************************************************************************)
(* Nothing is lost silently: the workbench passes no event of a run        *)
(* without a notice, for a thread with one run.  (With several runs a      *)
(* stale reconnect timer can put the cursor of one run on the stream of    *)
(* another: OldRunIgnored fails, and NoSilentLoss with it.)                *)
(*                                                                         *)
(* What the tab knows grows, and whatever waits in a queue is preceded     *)
(* there, event by event, by all that the tab does not know yet.           *)
(***************************************************************************)
OneRun == \A r, s \in Run : r = s

Known == Larger(cursor, told)

\* An item that accounts for the n-th event: the event, or a notice that it is gone.
Accounts(item, n) ==
    \/ item.kind = "replay_gap" /\ n < item.seq
    \/ item.kind \in EventKinds /\ n = item.seq

\* Every event before the m-th is known, or is accounted for before position i.
Accounted(q, i, m, known) ==
    \A n \in 1..(m - 1) : n <= known \/ \E j \in DOMAIN q : j < i /\ Accounts(q[j], n)

EachAccounted(q, known) == \A i \in EventsIn(q) : Accounted(q, i, q[i].seq, known)

QueueAccounts(c) ==
    /\ EachAccounted(queue[c], Known)
    /\ \A r \in DOMAIN streams : c \in streams[r].subscribers =>
          Accounted(queue[c], Len(queue[c]) + 1, streams[r].next, Known)

\* Before the run is accepted nothing of it reaches the tab, and it is accepted once.
Started ==
    asked = NoRun =>
        /\ cursor = 0 /\ timers = {} /\ subscription = NoRun /\ viewRun = NoRun
        /\ \A c \in Conn : handler[c] = "none" /\ sock[c] = "free"
        /\ \A y \in Sync : sync[y].phase = "idle"

Once ==
    /\ posting # NoRun => asked = NoRun
    /\ posting # NoRun \/ asked # NoRun => \A r \in Run : row[r] # "absent"
    /\ asked # NoRun => subscription \in Run

\* A handshake under way will subscribe from a cursor that the tab has reached.
AfterBelow == \A c \in Conn : handler[c] = "opening" => after[c] <= cursor

Opening == Started /\ Once /\ AfterBelow

LossInvariant ==
    /\ DeliveryInvariant
    /\ Opening
    /\ \A c \in Conn : handler[c] = "open" => QueueAccounts(c)
    /\ NoSilentLoss

LEMMA AccountedNext ==
    ASSUME NEW q, NEW i, NEW m \in Nat, NEW k,
           \A x \in 1..m : x <= k \/ \E j \in DOMAIN q : j < i /\ Accounts(q[j], x)
    PROVE  Accounted(q, i, m + 1, k)
<1>1. 1..(m + 1 - 1) = 1..m
    OBVIOUS
<1>2. \A x \in 1..(m + 1 - 1) : x <= k \/ \E j \in DOMAIN q : j < i /\ Accounts(q[j], x)
    BY <1>1
<1> QED
    BY <1>2 DEF Accounted

LEMMA AccountedMore ==
    ASSUME NEW q, NEW i, NEW m, NEW k \in Nat, NEW l \in Nat, k <= l, Accounted(q, i, m, k), m \in Nat
    PROVE  Accounted(q, i, m, l)
BY DEF Accounted

LEMMA EachMore ==
    ASSUME NEW q \in Seq(Item), NEW k \in Nat, NEW l \in Nat, k <= l, EachAccounted(q, k)
    PROVE  EachAccounted(q, l)
<1>1. \A i \in EventsIn(q) : q[i].seq \in Nat
    BY ElementOfSeq, LenProperties DEF EventsIn, Item, Event
<1> QED
    BY <1>1, AccountedMore DEF EachAccounted

\* An event is queued behind those before it.
LEMMA AppendAccounts ==
    ASSUME NEW q \in Seq(Item), NEW k \in Nat, NEW e \in Event,
           EachAccounted(q, k), Accounted(q, Len(q) + 1, e.seq, k)
    PROVE  LET a == Append(q, e)
           IN  EachAccounted(a, k) /\ Accounted(a, Len(a) + 1, e.seq + 1, k)
<1>1. PICK n \in Nat : n = Len(q)
    BY LenProperties
<1>2. PICK a \in Seq(Item) : a = Append(q, e)
    BY ItemTypes, AppendProperties
<1>3. Len(a) = n + 1 /\ a[n + 1] = e /\ \A i \in 1..n : a[i] = q[i]
    BY <1>1, <1>2, ItemTypes, AppendProperties
<1>4. DOMAIN q = 1..n /\ DOMAIN a = 1..(n + 1)
    BY <1>1, <1>3, LenProperties
<1>5. e.seq \in Nat \ {0} /\ e.kind \in EventKinds
    BY DEF Event
<1>6. ASSUME NEW i \in 1..(n + 1), NEW m, Accounted(q, i, m, k)
      PROVE  Accounted(a, i, m, k)
    <2>1. \A j \in 1..n : j \in 1..(n + 1) /\ a[j] = q[j]
        BY <1>3
    <2> QED
        BY <1>4, <1>6, <2>1 DEF Accounted
<1>7. Accounted(a, n + 1, e.seq, k)
    BY <1>1, <1>6
<1>8. EachAccounted(a, k)
    <2> SUFFICES ASSUME NEW i \in EventsIn(a)
                 PROVE  Accounted(a, i, a[i].seq, k)
        BY DEF EachAccounted
    <2>1. CASE i = n + 1
        BY <1>3, <1>7, <2>1
    <2>2. CASE i # n + 1
        <3>1. i \in 1..n /\ i \in EventsIn(q) /\ a[i] = q[i] /\ i \in 1..(n + 1)
            BY <1>3, <1>4, <2>2 DEF EventsIn
        <3> QED
            BY <1>6, <3>1 DEF EachAccounted
    <2> QED
        BY <2>1, <2>2
<1>9. Accounted(a, n + 1 + 1, e.seq + 1, k)
    <2> SUFFICES \A x \in 1..e.seq : x <= k \/ \E j \in DOMAIN a : j < n + 1 + 1 /\ Accounts(a[j], x)
        BY <1>5, AccountedNext
    <2> TAKE x \in 1..e.seq
    <2> SUFFICES ASSUME ~(x <= k)
                 PROVE  \E j \in DOMAIN a : j < n + 1 + 1 /\ Accounts(a[j], x)
        OBVIOUS
    <2>1. CASE x = e.seq
        <3>1. n + 1 \in DOMAIN a /\ n + 1 < n + 1 + 1 /\ Accounts(a[n + 1], x)
            BY <1>3, <1>4, <1>5, <2>1 DEF Accounts
        <3> QED
            BY <3>1
    <2>2. CASE x # e.seq
        <3>1. x \in 1..(e.seq - 1)
            BY <1>5, <2>2
        <3>2. PICK j \in DOMAIN a : j < n + 1 /\ Accounts(a[j], x)
            BY <1>7, <3>1 DEF Accounted
        <3>3. j < n + 1 + 1
            BY <1>4, <3>2
        <3> QED
            BY <3>2, <3>3
    <2> QED
        BY <2>1, <2>2
<1> QED
    BY <1>2, <1>3, <1>8, <1>9

\* When the head is taken, what it accounts for has become known.
LEMMA TailAccounts ==
    ASSUME NEW q \in Seq(Item), q # <<>>, NEW k \in Nat, NEW l \in Nat, k <= l,
           \A n \in Nat : Accounts(Head(q), n) => n <= l
    PROVE  /\ EachAccounted(q, k) => EachAccounted(Tail(q), l)
           /\ \A m \in Nat : Accounted(q, Len(q) + 1, m, k) => Accounted(Tail(q), Len(Tail(q)) + 1, m, l)
<1>1. PICK n \in Nat : n + 1 = Len(q)
    BY EmptySeq
<1>2. PICK t \in Seq(Item) : t = Tail(q)
    BY HeadTailProperties
<1>3. Len(t) = n /\ \A i \in 1..n : t[i] = q[i + 1]
    BY <1>1, <1>2, HeadTailProperties
<1>4. DOMAIN q = 1..(n + 1) /\ DOMAIN t = 1..n /\ Head(q) = q[1]
    BY <1>1, <1>3, LenProperties
<1>5. ASSUME NEW i \in Nat, NEW m \in Nat, Accounted(q, i + 1, m, k)
      PROVE  Accounted(t, i, m, l)
    <2> SUFFICES ASSUME NEW x \in 1..(m - 1), ~(x <= l)
                 PROVE  \E j \in DOMAIN t : j < i /\ Accounts(t[j], x)
        BY DEF Accounted
    <2>1. PICK j \in 1..(n + 1) : j < i + 1 /\ Accounts(q[j], x)
        BY <1>4, <1>5 DEF Accounted
    <2>2. j # 1
        BY <1>4, <2>1
    <2>3. j - 1 \in 1..n /\ j - 1 < i /\ (j - 1) + 1 = j
        BY <2>1, <2>2
    <2> QED
        BY <1>3, <1>4, <2>1, <2>3
<1>6. ASSUME EachAccounted(q, k)
      PROVE  EachAccounted(t, l)
    <2> SUFFICES ASSUME NEW i \in EventsIn(t)
                 PROVE  Accounted(t, i, t[i].seq, l)
        BY DEF EachAccounted
    <2>1. i \in 1..n /\ t[i] = q[i + 1] /\ t[i] \in Item
        BY <1>3, <1>4, ElementOfSeq DEF EventsIn
    <2>2. i + 1 \in EventsIn(q) /\ i \in Nat
        BY <1>4, <2>1 DEF EventsIn
    <2>3. Accounted(q, i + 1, t[i].seq, k)
        BY <1>6, <2>1, <2>2 DEF EachAccounted
    <2>4. t[i].seq \in Nat
        BY <2>1 DEF Item, Event
    <2> QED
        BY <1>5, <2>2, <2>3, <2>4
<1>7. ASSUME NEW m \in Nat, Accounted(q, n + 1 + 1, m, k)
      PROVE  Accounted(t, n + 1, m, l)
    BY <1>5, <1>7
<1> QED
    BY <1>1, <1>2, <1>3, <1>6, <1>7

\* A backlog accounts for every event after the cursor it was asked for.
LEMMA BacklogAccounts ==
    ASSUME NEW s \in Stream, BufferTail(s), NEW from \in Nat, NEW q, q = Backlog(s, from)
    PROVE  EachAccounted(q, from) /\ Accounted(q, Len(q) + 1, s.next, from)
<1>1. PICK k \in {0, 1}, n \in Nat : LaidOut(q, s, from, k, n)
    BY BacklogShape
<1>2. PICK m \in Nat : s.next = m + 1 /\ m = s.next - 1
    BY DEF Stream
<1>3. PICK g \in Nat : g = Earliest(s)
    BY <1>1 DEF LaidOut
<1>4. DOMAIN q = 1..(k + n + 1) /\ q \in Seq(Item) /\ q[k + n + 1].kind = "stream_ready"
    BY <1>1, Zenon DEF LaidOut
<1>5. (from < g - 1 => k = 1) /\ \A i \in 1..k : q[i].kind = "replay_gap" /\ q[i].seq = g
    BY <1>1, <1>3 DEF LaidOut
<1>6. \A i \in 1..n : q[k + i] \in Event /\ q[k + i].seq = m - n + i
    BY <1>1, <1>2 DEF LaidOut
<1>7. \A x \in Nat : from < x /\ x <= m /\ g <= x => \E i \in 1..n : q[k + i].seq = x
    BY <1>1, <1>2, <1>3 DEF LaidOut
<1>8. ASSUME NEW x \in Nat, from < x, x < g
      PROVE  1 <= k /\ 1 \in DOMAIN q /\ Accounts(q[1], x)
    <2>1. k = 1
        BY <1>5, <1>8
    <2> QED
        BY <1>4, <1>5, <1>8, <2>1 DEF Accounts
<1>9. ASSUME NEW i \in 1..n
      PROVE  k + i \in DOMAIN q /\ Accounts(q[k + i], q[k + i].seq)
    <2>1. k + i \in 1..(k + n + 1)
        OBVIOUS
    <2> QED
        BY <1>4, <1>6, <2>1 DEF Accounts, Event
<1>10. ASSUME NEW x \in Nat, from < x, NEW top \in 1..(n + 1), x < m - n + top
       PROVE  \E j \in DOMAIN q : j < k + top /\ Accounts(q[j], x)
    <2>1. CASE x < g
        <3>1. 1 <= k /\ 1 \in DOMAIN q /\ Accounts(q[1], x)
            BY <1>8, <1>10, <2>1
        <3>2. 1 < k + top
            BY <3>1
        <3> QED
            BY <3>1, <3>2
    <2>2. CASE g <= x
        <3>1. x <= m
            BY <1>10
        <3>2. PICK i \in 1..n : q[k + i].seq = x
            BY <1>7, <1>10, <2>2, <3>1
        <3>3. m - n + i = x
            BY <1>6, <3>2
        <3>4. k + i < k + top
            BY <1>10, <3>3
        <3> QED
            BY <1>9, <3>2, <3>4
    <2> QED
        BY <2>1, <2>2
<1>11. EachAccounted(q, from)
    <2> SUFFICES ASSUME NEW i \in EventsIn(q), NEW x \in 1..(q[i].seq - 1), ~(x <= from)
                 PROVE  \E j \in DOMAIN q : j < i /\ Accounts(q[j], x)
        BY DEF EachAccounted, Accounted
    <2>1. i \in 1..(k + n + 1) /\ q[i].kind \in EventKinds
        BY <1>4 DEF EventsIn
    <2>2. ~(i \in 1..k) /\ i # k + n + 1
        BY <1>4, <1>5, <2>1 DEF EventKinds, TerminalKinds
    <2>3. PICK p \in 1..n : i = k + p
        <3>1. i - k \in 1..n /\ i = k + (i - k)
            BY <2>1, <2>2
        <3> QED
            BY <3>1
    <2>4. q[i].seq = m - n + p
        BY <1>6, <2>3
    <2>5. x \in Nat /\ from < x /\ x < m - n + p
        BY <2>4
    <2>6. p \in 1..(n + 1)
        OBVIOUS
    <2> QED
        BY <1>10, <2>3, <2>5, <2>6
<1>12. Accounted(q, Len(q) + 1, s.next, from)
    <2>1. Len(q) = k + n + 1
        BY <1>4, LenProperties
    <2> SUFFICES ASSUME NEW x \in 1..(s.next - 1), ~(x <= from)
                 PROVE  \E j \in DOMAIN q : j < k + n + 1 + 1 /\ Accounts(q[j], x)
        BY <2>1 DEF Accounted
    <2>2. x \in Nat /\ from < x /\ x < m - n + (n + 1) /\ n + 1 \in 1..(n + 1)
        BY <1>2
    <2>3. PICK j \in DOMAIN q : j < k + (n + 1) /\ Accounts(q[j], x)
        BY <1>10, <2>2
    <2>4. j < k + n + 1 + 1
        BY <1>4, <2>3
    <2> QED
        BY <2>3, <2>4
<1> QED
    BY <1>11, <1>12

-----------------------------------------------------------------------------
(***************************************************************************)
(* What a step does to the queue of a connection that is served after it.  *)
(***************************************************************************)
\* Where c is subscribed after the step it was before, and no event has come since.
NothingNew(c) ==
    \A x \in DOMAIN streams' : c \in streams'[x].subscribers =>
        x \in DOMAIN streams /\ c \in streams[x].subscribers /\ streams'[x].next = streams[x].next

Unmoved(c) == queue'[c] = queue[c] /\ NothingNew(c)

Dropped(c) ==
    /\ queue'[c] = <<CloseItem>>
    /\ \A x \in DOMAIN streams' : c \notin streams'[x].subscribers

Told(c) ==
    \E r \in DOMAIN streams, e \in Event :
        /\ c \in streams[r].subscribers /\ e.seq = streams[r].next
        /\ queue'[c] = Append(queue[c], e)
        /\ \A x \in DOMAIN streams' : c \in streams'[x].subscribers => streams'[x].next = e.seq + 1

Taken(c) ==
    /\ queue[c] # <<>> /\ queue'[c] = Tail(queue[c]) /\ NothingNew(c)
    /\ \A n \in Nat : Accounts(Head(queue[c]), n) => n <= Known'

Opened(c) ==
    \E s \in Stream, from \in Nat :
        /\ BufferTail(s) /\ from <= Known
        /\ queue'[c] = Backlog(s, from)
        /\ \A x \in DOMAIN streams' : c \in streams'[x].subscribers => streams'[x].next = s.next

Moves(c) ==
    \/ Opened(c)
    \/ handler[c] = "open" /\ (Unmoved(c) \/ Dropped(c) \/ Told(c) \/ Taken(c))

LEMMA MovesKeep ==
    ASSUME BrokerInvariant, BrokerInvariant', NEW c \in Conn, Moves(c),
           handler[c] = "open" => QueueAccounts(c),
           Known \in Nat, Known' \in Nat, Known <= Known'
    PROVE  QueueAccounts(c)'
<1>1. /\ queue[c] \in Seq(Item) /\ queue'[c] \in Seq(Item)
      /\ \A x \in DOMAIN streams : streams[x].next \in Nat \ {0}
      /\ \A x \in DOMAIN streams' : streams'[x].next \in Nat \ {0}
    BY DEF BrokerInvariant, Tidy, Stream, Conn
<1>2. PICK k \in Nat, l \in Nat : k = Known /\ l = Known' /\ k <= l
    OBVIOUS
<1>3. PICK q \in Seq(Item), p \in Seq(Item) : q = queue[c] /\ p = queue'[c]
    BY <1>1
<1>4. SUFFICES /\ EachAccounted(p, l)
               /\ \A x \in DOMAIN streams' : c \in streams'[x].subscribers =>
                     Accounted(p, Len(p) + 1, streams'[x].next, l)
    BY <1>2, <1>3 DEF QueueAccounts
<1>5. handler[c] = "open" =>
          /\ EachAccounted(q, k)
          /\ \A x \in DOMAIN streams : c \in streams[x].subscribers =>
                Accounted(q, Len(q) + 1, streams[x].next, k)
    BY <1>2, <1>3 DEF QueueAccounts
<1>6. CASE Opened(c)
    <2>1. PICK s \in Stream, from \in Nat :
              /\ BufferTail(s) /\ from <= k /\ p = Backlog(s, from)
              /\ \A x \in DOMAIN streams' : c \in streams'[x].subscribers => streams'[x].next = s.next
        BY <1>2, <1>3, <1>6 DEF Opened
    <2>2. EachAccounted(p, from) /\ Accounted(p, Len(p) + 1, s.next, from)
        BY <2>1, BacklogAccounts
    <2>3. from <= l /\ s.next \in Nat
        BY <1>2, <2>1 DEF Stream
    <2>4. EachAccounted(p, l) /\ Accounted(p, Len(p) + 1, s.next, l)
        BY <2>2, <2>3, EachMore, AccountedMore
    <2> QED
        BY <2>1, <2>4
<1>7. CASE handler[c] = "open" /\ Unmoved(c)
    <2>1. EachAccounted(p, l)
        BY <1>2, <1>3, <1>5, <1>7, EachMore DEF Unmoved
    <2>2. ASSUME NEW x \in DOMAIN streams', c \in streams'[x].subscribers
          PROVE  Accounted(p, Len(p) + 1, streams'[x].next, l)
        <3>1. p = q /\ Accounted(q, Len(q) + 1, streams'[x].next, k)
            BY <1>3, <1>5, <1>7, <2>2 DEF Unmoved, NothingNew
        <3> QED
            BY <1>1, <1>2, <3>1, AccountedMore
    <2> QED
        BY <2>1, <2>2
<1>8. CASE Dropped(c)
    <2>1. EventsIn(p) = {}
        <3>1. p = <<CloseItem>>
            BY <1>3, <1>8 DEF Dropped
        <3> QED
            BY <3>1, ItemTypes DEF EventsIn
    <2> QED
        BY <1>8, <2>1 DEF Dropped, EachAccounted
<1>9. CASE handler[c] = "open" /\ Told(c)
    <2>1. PICK r \in DOMAIN streams, e \in Event :
              /\ c \in streams[r].subscribers /\ e.seq = streams[r].next
              /\ p = Append(q, e)
              /\ \A x \in DOMAIN streams' : c \in streams'[x].subscribers => streams'[x].next = e.seq + 1
        BY <1>3, <1>9 DEF Told
    <2>2. EachAccounted(q, k) /\ Accounted(q, Len(q) + 1, e.seq, k)
        BY <1>5, <1>9, <2>1
    <2>3. EachAccounted(p, k) /\ Accounted(p, Len(p) + 1, e.seq + 1, k)
        BY <2>1, <2>2, AppendAccounts
    <2>4. e.seq + 1 \in Nat
        BY DEF Event
    <2>5. EachAccounted(p, l) /\ Accounted(p, Len(p) + 1, e.seq + 1, l)
        BY <1>2, <2>3, <2>4, EachMore, AccountedMore
    <2> QED
        BY <2>1, <2>5
<1>10. CASE handler[c] = "open" /\ Taken(c)
    <2>1. /\ q # <<>> /\ p = Tail(q) /\ NothingNew(c)
          /\ \A n \in Nat : Accounts(Head(q), n) => n <= l
        BY <1>2, <1>3, <1>10 DEF Taken
    <2>2. /\ EachAccounted(q, k) => EachAccounted(p, l)
          /\ \A m \in Nat : Accounted(q, Len(q) + 1, m, k) => Accounted(p, Len(p) + 1, m, l)
        BY <1>2, <2>1, TailAccounts
    <2>3. ASSUME NEW x \in DOMAIN streams', c \in streams'[x].subscribers
          PROVE  Accounted(p, Len(p) + 1, streams'[x].next, l)
        <3>1. Accounted(q, Len(q) + 1, streams'[x].next, k)
            BY <1>5, <1>10, <2>1, <2>3 DEF NothingNew
        <3> QED
            BY <1>1, <2>2, <3>1
    <2> QED
        BY <1>5, <1>10, <2>2, <2>3
<1> QED
    BY <1>6, <1>7, <1>8, <1>9, <1>10 DEF Moves

LEMMA StillMoves ==
    ASSUME NEW c \in Conn, handler[c] = "open", UNCHANGED <<streams, queue>>
    PROVE  Moves(c)
BY DEF Moves, Unmoved, NothingNew

\* What ensure_stream does to the streams that are subscribed to: nothing.
LEMMA EnsuredSame ==
    ASSUME BrokerInvariant, NEW r \in Run, NEW c \in Sub, NEW x \in DOMAIN Ensured(r),
           c \in Ensured(r)[x].subscribers
    PROVE  x \in DOMAIN streams /\ c \in streams[x].subscribers /\ Ensured(r)[x] = streams[x]
<1>1. x \in Kept
    BY NewStreamTyped DEF Ensured
<1> QED
    BY <1>1 DEF Ensured, Kept

LEMMA EnsuredStream ==
    ASSUME BrokerInvariant, NEW r \in Run
    PROVE  /\ r \in DOMAIN Ensured(r) /\ DOMAIN Ensured(r) \subseteq Run
           /\ Ensured(r)[r] \in Stream /\ BufferTail(Ensured(r)[r])
<1>1. Tidy(Ensured(r), queue) /\ r \in DOMAIN Ensured(r)
    BY EnsuredTidy DEF BrokerInvariant
<1> QED
    BY <1>1 DEF Tidy

LEMMA EnsureStreamMoves ==
    ASSUME BrokerInvariant, NEW r \in Run, EnsureStream(r), NEW c \in Conn, handler[c] = "open"
    PROVE  Moves(c)
<1>1. streams' = Ensured(r) /\ queue' = queue /\ c \in Sub
    BY DEF EnsureStream, Conn
<1>2. NothingNew(c)
    BY <1>1, EnsuredSame DEF NothingNew
<1> QED
    BY <1>1, <1>2 DEF Moves, Unmoved

LEMMA PublishMoves ==
    ASSUME BrokerInvariant, BrokerInvariant', OneRun, NEW r \in Run, NEW kind \in EventKinds,
           Publish(r, kind), NEW c \in Conn, handler[c] = "open"
    PROVE  Moves(c)
<1>1. CASE EnsureStream(r)
    BY <1>1, EnsureStreamMoves
<1>2. CASE ~EnsureStream(r)
    <2>1. PICK e : e = Ensured(r)
        OBVIOUS
    <2>2. PICK s \in Stream : s = e[r]
        BY <2>1, EnsuredStream
    <2>3. r \in DOMAIN e /\ DOMAIN e \subseteq Run /\ c \in Sub
        BY <2>1, EnsuredStream DEF Conn
    <2>4. PICK item \in Event : item = [kind |-> kind, seq |-> s.next]
        BY DEF Event, Stream
    <2>5. PICK full : full = {d \in s.subscribers : Len(queue[d]) >= room[d]}
        OBVIOUS
    <2>6. /\ streams' = [e EXCEPT ![r].next = @ + 1,
                                  ![r].buffer = Newest(Append(@, item)),
                                  ![r].terminal = IF kind \in TerminalKinds THEN s.next ELSE @,
                                  ![r].subscribers = @ \ full]
          /\ queue' = [d \in Sub |->
                          IF d \in full THEN <<CloseItem>>
                          ELSE IF d \in s.subscribers THEN Append(queue[d], item) ELSE queue[d]]
        BY <1>2, <2>1, <2>2, <2>4, <2>5 DEF Publish
    <2>7. /\ DOMAIN streams' = {r}
          /\ streams'[r].next = s.next + 1 /\ streams'[r].subscribers = s.subscribers \ full
        <3>1. DOMAIN e = {r}
            BY <2>3 DEF OneRun
        <3> QED
            BY <2>2, <2>6, <3>1 DEF Stream
    <2>8. CASE c \in full
        BY <2>3, <2>5, <2>6, <2>7, <2>8 DEF Moves, Dropped
    <2>9. CASE c \notin full /\ c \in s.subscribers
        <3>1. queue'[c] = Append(queue[c], item)
            BY <2>3, <2>6, <2>9
        <3>2. r \in DOMAIN streams /\ c \in streams[r].subscribers /\ s = streams[r]
            BY <2>1, <2>2, <2>3, <2>9, EnsuredSame
        <3>3. item.seq = streams[r].next
            BY <2>4, <3>2
        <3>4. \A x \in DOMAIN streams' : streams'[x].next = item.seq + 1
            BY <2>4, <2>7
        <3>5. Told(c)
            BY <3>1, <3>2, <3>3, <3>4 DEF Told
        <3> QED
            BY <3>5 DEF Moves
    <2>10. CASE c \notin full /\ c \notin s.subscribers
        BY <2>3, <2>6, <2>7, <2>10 DEF Moves, Unmoved, NothingNew
    <2> QED
        BY <2>8, <2>9, <2>10
<1> QED
    BY <1>1, <1>2

LEMMA SubscribeMoves ==
    ASSUME BrokerInvariant, OneRun, NEW r \in Run, NEW c \in Conn, NEW from \in Nat,
           Subscribe(c, r, from), NEW d \in Conn
    PROVE  /\ d # c /\ handler[d] = "open" => Moves(d)
           /\ d = c /\ from <= Known => Moves(d)
<1>1. PICK e : e = Ensured(r)
    OBVIOUS
<1>2. PICK s \in Stream : s = e[r] /\ BufferTail(s)
    BY <1>1, EnsuredStream
<1>3. DOMAIN e = {r} /\ c \in Sub /\ d \in Sub
    BY <1>1, EnsuredStream DEF OneRun, Conn
<1>4. /\ streams' = [e EXCEPT ![r].subscribers = @ \cup {c}]
      /\ queue' = [queue EXCEPT ![c] = Backlog(s, from)]
    BY <1>1, <1>2 DEF Subscribe
<1>5. /\ DOMAIN streams' = {r} /\ streams'[r].next = s.next
      /\ streams'[r].subscribers = s.subscribers \cup {c}
    BY <1>2, <1>3, <1>4 DEF Stream
<1>6. ASSUME d = c, from <= Known
      PROVE  Moves(d)
    <2>1. queue'[d] = Backlog(s, from)
        BY <1>3, <1>4, <1>6 DEF BrokerInvariant
    <2>2. Opened(d)
        BY <1>2, <1>5, <1>6, <2>1 DEF Opened
    <2> QED
        BY <2>2 DEF Moves
<1>7. ASSUME d # c, handler[d] = "open"
      PROVE  Moves(d)
    <2>1. queue'[d] = queue[d]
        BY <1>3, <1>4, <1>7 DEF BrokerInvariant
    <2>2. NothingNew(d)
        <3> SUFFICES ASSUME d \in s.subscribers
                     PROVE  r \in DOMAIN streams /\ d \in streams[r].subscribers /\ s.next = streams[r].next
            BY <1>5, <1>7 DEF NothingNew
        <3> QED
            BY <1>1, <1>2, <1>3, EnsuredSame
    <2> QED
        BY <1>7, <2>1, <2>2 DEF Moves, Unmoved
<1> QED
    BY <1>6, <1>7

LEMMA UnsubscribeMoves ==
    ASSUME BrokerInvariant, NEW r \in Run, NEW c \in Conn, Unsubscribe(c, r),
           NEW d \in Conn, d # c, handler[d] = "open"
    PROVE  Moves(d)
<1>1. \A x \in DOMAIN streams : streams[x] \in Stream
    BY DEF BrokerInvariant, Tidy
<1>2. /\ DOMAIN streams' = DOMAIN streams
      /\ \A x \in DOMAIN streams :
            streams'[x] = IF x = r THEN [streams[x] EXCEPT !.subscribers = @ \ {c}] ELSE streams[x]
      /\ queue' = [queue EXCEPT ![c] = <<>>]
    BY DEF Unsubscribe
<1>3. NothingNew(d)
    BY <1>1, <1>2 DEF NothingNew, Stream
<1>4. queue'[d] = queue[d]
    BY <1>2 DEF BrokerInvariant, Conn
<1> QED
    BY <1>3, <1>4 DEF Moves, Unmoved

LEMMA AgeMoves ==
    ASSUME BrokerInvariant, NEW r \in Run, Age(r), NEW c \in Conn, handler[c] = "open"
    PROVE  Moves(c)
<1>1. \A x \in DOMAIN streams : streams[x] \in Stream
    BY DEF BrokerInvariant, Tidy
<1>2. /\ DOMAIN streams' = DOMAIN streams /\ queue' = queue
      /\ \A x \in DOMAIN streams :
            streams'[x] = IF x = r THEN [streams[x] EXCEPT !.aged = TRUE] ELSE streams[x]
    BY DEF Age
<1>3. NothingNew(c)
    BY <1>1, <1>2 DEF NothingNew, Stream
<1> QED
    BY <1>2, <1>3 DEF Moves, Unmoved

LEMMA TakeMoves ==
    ASSUME BrokerInvariant, NEW c \in Conn, Take(c), NEW d \in Conn, handler[d] = "open",
           d = c => \A n \in Nat : Accounts(Head(queue[c]), n) => n <= Known'
    PROVE  Moves(d)
<1>1. queue[c] # <<>> /\ queue' = [queue EXCEPT ![c] = Tail(@)] /\ streams' = streams
    BY DEF Take
<1>2. NothingNew(d)
    BY <1>1 DEF NothingNew
<1>3. CASE d = c
    <2>1. queue'[d] = Tail(queue[d])
        BY <1>1, <1>3 DEF BrokerInvariant, Conn
    <2>2. Taken(d)
        BY <1>1, <1>2, <1>3, <2>1 DEF Taken
    <2> QED
        BY <2>2 DEF Moves
<1>4. CASE d # c
    <2>1. queue'[d] = queue[d]
        BY <1>1, <1>4 DEF BrokerInvariant, Conn
    <2> QED
        BY <1>2, <2>1 DEF Moves, Unmoved
<1> QED
    BY <1>3, <1>4

-----------------------------------------------------------------------------
LEMMA OpeningStep ==
    ASSUME DeliveryInvariant, Opening, OneRun, Next
    PROVE  Opening'
<1>0. /\ ServerTypes /\ SocketTypes /\ RefTypes /\ ViewTypes /\ Named /\ Opening
      /\ NoRun \notin Run /\ NoConn \notin Sub /\ (\A r, s \in Run : r = s)
      /\ \A c \in Conn : queue[c] # <<>> => Head(queue[c]).seq \in Nat
    BY DeliveryAssumption, HeadTyped DEF DeliveryInvariant, OneRun
<1>1. ASSUME NEW r \in Run, Progress(r)
      PROVE  Opening'
    BY <1>0, <1>1
       DEF Progress, Opening, Started, Once, AfterBelow, serverVars, connVars, refVars, viewVars,
           tabVars, ServerTypes, SocketTypes, RefTypes, ViewTypes, Request, Named
<1>2. ASSUME NEW r \in Run, Commit(r)
      PROVE  Opening'
    BY <1>0, <1>2
       DEF Commit, Opening, Started, Once, AfterBelow, serverVars, connVars, refVars, viewVars,
           tabVars, ServerTypes, SocketTypes, RefTypes, ViewTypes, Request, Named
<1>3. ASSUME NEW r \in Run, Finish(r)
      PROVE  Opening'
    BY <1>0, <1>3
       DEF Finish, Opening, Started, Once, AfterBelow, serverVars, connVars, refVars, viewVars,
           tabVars, ServerTypes, SocketTypes, RefTypes, ViewTypes, Request, Named
<1>4. ASSUME NEW r \in Run, Expire(r)
      PROVE  Opening'
    BY <1>0, <1>4
       DEF Expire, Spend, Opening, Started, Once, AfterBelow, serverVars, connVars, refVars,
           viewVars, tabVars, ServerTypes, SocketTypes, RefTypes, ViewTypes, Request, Named
<1>5. ASSUME NEW r \in Run, StartTask(r)
      PROVE  Opening'
    BY <1>0, <1>5
       DEF StartTask, Opening, Started, Once, AfterBelow, serverVars, connVars, refVars,
           viewVars, tabVars, ServerTypes, SocketTypes, RefTypes, ViewTypes, Request, Named
<1>6. ASSUME NEW c \in Conn, Handshake(c)
      PROVE  Opening'
    BY <1>0, <1>6
       DEF Handshake, Closed, Opening, Started, Once, AfterBelow, serverVars, connVars, refVars,
           viewVars, tabVars, ServerTypes, SocketTypes, RefTypes, ViewTypes, Request, Named
<1>7. ASSUME NEW c \in Conn, WriteClose(c)
      PROVE  Opening'
    BY <1>0, <1>7
       DEF WriteClose, Closed, Opening, Started, Once, AfterBelow, serverVars, connVars, refVars,
           viewVars, tabVars, ServerTypes, SocketTypes, RefTypes, ViewTypes, Request, Named
<1>8. ASSUME NEW c \in Conn, Hangup(c)
      PROVE  Opening'
    BY <1>0, <1>8
       DEF Hangup, Opening, Started, Once, AfterBelow, serverVars, connVars, refVars, viewVars,
           tabVars, ServerTypes, SocketTypes, RefTypes, ViewTypes, Request, Named
<1>9. ASSUME NEW c \in Conn, ReceiveIgnored(c)
      PROVE  Opening'
    BY <1>0, <1>9
       DEF ReceiveIgnored, Arriving, Opening, Started, Once, AfterBelow, serverVars, connVars,
           refVars, viewVars, tabVars, ServerTypes, SocketTypes, RefTypes, ViewTypes, Request,
           Named
<1>10. ASSUME NEW c \in Conn, ReceiveEvent(c)
      PROVE  Opening'
    <2>1. /\ asked # NoRun /\ UNCHANGED <<handler, after, posting, asked, subscription, row>>
          /\ cursor' \in Nat /\ cursor < cursor'
        BY <1>0, <1>10
           DEF ReceiveEvent, Reduces, Fresh, Arriving, Opening, Started, Take, serverVars
    <2> QED
        BY <1>0, <2>1 DEF Opening, Started, Once, AfterBelow, RefTypes, SocketTypes
<1>11. ASSUME NEW c \in Conn, OnClose(c)
      PROVE  Opening'
    BY <1>0, <1>11
       DEF OnClose, Opening, Started, Once, AfterBelow, serverVars, connVars, refVars, viewVars,
           tabVars, ServerTypes, SocketTypes, RefTypes, ViewTypes, Request, Named
<1>12. ASSUME NEW c \in Conn, NEW y \in Sync, ReceiveGap(c, y)
      PROVE  Opening'
    BY <1>0, <1>12
       DEF ReceiveGap, Arriving, Ask, Larger, Idle, Opening, Started, Once, AfterBelow,
           serverVars, connVars, refVars, viewVars, tabVars, ServerTypes, SocketTypes, RefTypes,
           ViewTypes, Request, Named
<1>13. ASSUME NEW c \in Conn, NEW y \in Sync, ReceiveTerminal(c, y)
      PROVE  Opening'
    <2>1. /\ asked # NoRun /\ UNCHANGED <<handler, after, posting, asked, subscription, row>>
          /\ cursor' \in Nat /\ cursor < cursor'
        BY <1>0, <1>13
           DEF ReceiveTerminal, Reduces, Fresh, Arriving, Opening, Started, Take, serverVars
    <2> QED
        BY <1>0, <2>1 DEF Opening, Started, Once, AfterBelow, RefTypes, SocketTypes
<1>14. ASSUME NEW c \in Conn, TaskAccepted(c)
      PROVE  Opening'
    BY <1>0, <1>14
       DEF TaskAccepted, Connect, Free, Opening, Started, Once, AfterBelow, serverVars, connVars,
           refVars, viewVars, tabVars, ServerTypes, SocketTypes, RefTypes, ViewTypes, Request,
           Named
<1>15. ASSUME NEW c \in Conn, Drop(c)
      PROVE  Opening'
    BY <1>0, <1>15
       DEF Drop, Spend, Opening, Started, Once, AfterBelow, serverVars, connVars, refVars,
           viewVars, tabVars, ServerTypes, SocketTypes, RefTypes, ViewTypes, Request, Named
<1>16. ASSUME NEW c \in Conn, ReconnectNow(c)
      PROVE  Opening'
    BY <1>0, <1>16
       DEF ReconnectNow, Connect, Free, Spend, Opening, Started, Once, AfterBelow, serverVars,
           connVars, refVars, viewVars, tabVars, ServerTypes, SocketTypes, RefTypes, ViewTypes,
           Request, Named
<1>17. ASSUME NEW c \in Conn, NEW r \in Run, TimerFires(c, r)
      PROVE  Opening'
    BY <1>0, <1>17
       DEF TimerFires, Connect, Free, Opening, Started, Once, AfterBelow, serverVars, connVars,
           refVars, viewVars, tabVars, ServerTypes, SocketTypes, RefTypes, ViewTypes, Request,
           Named
<1>18. ASSUME NEW y \in Sync, ReadRow(y)
      PROVE  Opening'
    BY <1>0, <1>18
       DEF ReadRow, SyncFrame, Opening, Started, Once, AfterBelow, serverVars, connVars, refVars,
           viewVars, tabVars, ServerTypes, SocketTypes, RefTypes, ViewTypes, Request, Named
<1>19. ASSUME NEW y \in Sync, ReadCursor(y)
      PROVE  Opening'
    BY <1>0, <1>19
       DEF ReadCursor, SyncFrame, Opening, Started, Once, AfterBelow, serverVars, connVars,
           refVars, viewVars, tabVars, ServerTypes, SocketTypes, RefTypes, ViewTypes, Request,
           Named
<1>20. ASSUME NEW y \in Sync, SyncAnswered(y)
      PROVE  Opening'
    BY <1>0, <1>20
       DEF SyncAnswered, SyncFrame, Larger, Idle, Opening, Started, Once, AfterBelow, serverVars,
           connVars, refVars, viewVars, tabVars, ServerTypes, SocketTypes, RefTypes, ViewTypes,
           Request, Named
<1>21. ASSUME NEW y \in Sync, ReadDetail(y)
      PROVE  Opening'
    BY <1>0, <1>21
       DEF ReadDetail, SyncFrame, Opening, Started, Once, AfterBelow, serverVars, connVars,
           refVars, viewVars, tabVars, ServerTypes, SocketTypes, RefTypes, ViewTypes, Request,
           Named
<1>22. ASSUME NEW y \in Sync, MergeDetail(y)
      PROVE  Opening'
    BY <1>0, <1>22
       DEF MergeDetail, SyncFrame, Idle, Opening, Started, Once, AfterBelow, serverVars,
           connVars, refVars, viewVars, tabVars, ServerTypes, SocketTypes, RefTypes, ViewTypes,
           Request, Named
<1>23. ASSUME NEW y \in Sync, SyncFails(y)
      PROVE  Opening'
    BY <1>0, <1>23
       DEF SyncFails, Spend, Idle, SyncFrame, Opening, Started, Once, AfterBelow, serverVars,
           connVars, refVars, viewVars, tabVars, ServerTypes, SocketTypes, RefTypes, ViewTypes,
           Request, Named
<1>24. ASSUME NEW y \in Sync, CancelTask(y)
      PROVE  Opening'
    BY <1>0, <1>24
       DEF CancelTask, Spend, Ask, Idle, Opening, Started, Once, AfterBelow, serverVars,
           connVars, refVars, viewVars, tabVars, ServerTypes, SocketTypes, RefTypes, ViewTypes,
           Request, Named
<1>25. CASE Restart
    BY <1>0, <1>25
       DEF Restart, Spend, Opening, Started, Once, AfterBelow, serverVars, connVars, refVars,
           viewVars, tabVars, ServerTypes, SocketTypes, RefTypes, ViewTypes, Request, Named
<1>26. CASE UNCHANGED vars
    BY <1>0, <1>26
       DEF vars, Opening, Started, Once, AfterBelow, serverVars, connVars, refVars, viewVars,
           tabVars, ServerTypes, SocketTypes, RefTypes, ViewTypes, Request, Named
<1> QED
    BY <1>1, <1>2, <1>3, <1>4, <1>5, <1>6, <1>7, <1>8, <1>9, <1>10, <1>11, <1>12,
       <1>13, <1>14, <1>15, <1>16, <1>17, <1>18, <1>19, <1>20, <1>21, <1>22, <1>23, <1>24, <1>25, <1>26
       DEF Next, ServeStep, SocketStep, SyncStep, Resting

\* What the tab knows grows.
LEMMA KnownGrows ==
    ASSUME DeliveryInvariant, Opening, Next, NEW d \in Conn, handler'[d] = "open"
    PROVE  cursor <= cursor' /\ told <= told'
<1>0. /\ Opening /\ cursor \in Nat /\ told \in Nat /\ handler'[d] = "open"
      /\ \A c \in Conn : queue[c] # <<>> => Head(queue[c]).seq \in Nat
      /\ \A y \in Sync : sync[y].last \in Nat
    BY HeadTyped DEF DeliveryInvariant, RefTypes, ViewTypes, Request
<1>1. ASSUME NEW r \in Run, Progress(r)
      PROVE  cursor <= cursor' /\ told <= told'
    BY <1>0, <1>1 DEF Progress, serverVars, connVars, refVars, viewVars, tabVars
<1>2. ASSUME NEW r \in Run, Commit(r)
      PROVE  cursor <= cursor' /\ told <= told'
    BY <1>0, <1>2 DEF Commit, serverVars, connVars, refVars, viewVars, tabVars
<1>3. ASSUME NEW r \in Run, Finish(r)
      PROVE  cursor <= cursor' /\ told <= told'
    BY <1>0, <1>3 DEF Finish, serverVars, connVars, refVars, viewVars, tabVars
<1>4. ASSUME NEW r \in Run, Expire(r)
      PROVE  cursor <= cursor' /\ told <= told'
    BY <1>0, <1>4 DEF Expire, Spend, serverVars, connVars, refVars, viewVars, tabVars
<1>5. ASSUME NEW r \in Run, StartTask(r)
      PROVE  cursor <= cursor' /\ told <= told'
    BY <1>0, <1>5 DEF StartTask, serverVars, connVars, refVars, viewVars, tabVars
<1>6. ASSUME NEW c \in Conn, Handshake(c)
      PROVE  cursor <= cursor' /\ told <= told'
    BY <1>0, <1>6 DEF Handshake, Closed, serverVars, connVars, refVars, viewVars, tabVars
<1>7. ASSUME NEW c \in Conn, WriteClose(c)
      PROVE  cursor <= cursor' /\ told <= told'
    BY <1>0, <1>7 DEF WriteClose, Closed, serverVars, connVars, refVars, viewVars, tabVars
<1>8. ASSUME NEW c \in Conn, Hangup(c)
      PROVE  cursor <= cursor' /\ told <= told'
    BY <1>0, <1>8 DEF Hangup, serverVars, connVars, refVars, viewVars, tabVars
<1>9. ASSUME NEW c \in Conn, ReceiveIgnored(c)
      PROVE  cursor <= cursor' /\ told <= told'
    BY <1>0, <1>9 DEF ReceiveIgnored, Arriving, serverVars, connVars, refVars, viewVars, tabVars
<1>10. ASSUME NEW c \in Conn, ReceiveEvent(c)
      PROVE  cursor <= cursor' /\ told <= told'
    BY <1>0, <1>10 DEF ReceiveEvent, Reduces, Fresh, Arriving, Take
<1>11. ASSUME NEW c \in Conn, OnClose(c)
      PROVE  cursor <= cursor' /\ told <= told'
    BY <1>0, <1>11 DEF OnClose, serverVars, connVars, refVars, viewVars, tabVars
<1>12. ASSUME NEW c \in Conn, NEW y \in Sync, ReceiveGap(c, y)
      PROVE  cursor <= cursor' /\ told <= told'
    <2>1. cursor' = cursor /\ Head(queue[c]).seq \in Nat
        BY <1>0, <1>12 DEF ReceiveGap, Arriving, Take, refVars
    <2>2. told' = told \/ told' = Larger(told, Head(queue[c]).seq - 1)
        BY <1>12 DEF ReceiveGap
    <2> QED
        BY <1>0, <2>1, <2>2 DEF Larger
<1>13. ASSUME NEW c \in Conn, NEW y \in Sync, ReceiveTerminal(c, y)
      PROVE  cursor <= cursor' /\ told <= told'
    BY <1>0, <1>13 DEF ReceiveTerminal, Reduces, Fresh, Arriving, Take
<1>14. ASSUME NEW c \in Conn, TaskAccepted(c)
      PROVE  cursor <= cursor' /\ told <= told'
    <2>1. asked = NoRun /\ handler' = [handler EXCEPT ![c] = "opening"]
        BY <1>0, <1>14 DEF TaskAccepted, Connect, Opening, Once
    <2>2. handler[d] = "none"
        BY <1>0, <2>1 DEF Opening, Started
    <2> QED
        BY <1>0, <2>1, <2>2
<1>15. ASSUME NEW c \in Conn, Drop(c)
      PROVE  cursor <= cursor' /\ told <= told'
    BY <1>0, <1>15 DEF Drop, Spend, serverVars, connVars, refVars, viewVars, tabVars
<1>16. ASSUME NEW c \in Conn, ReconnectNow(c)
      PROVE  cursor <= cursor' /\ told <= told'
    BY <1>0, <1>16
       DEF ReconnectNow, Connect, Free, Spend, serverVars, connVars, refVars, viewVars, tabVars
<1>17. ASSUME NEW c \in Conn, NEW r \in Run, TimerFires(c, r)
      PROVE  cursor <= cursor' /\ told <= told'
    BY <1>0, <1>17 DEF TimerFires, Connect, Free, serverVars, connVars, refVars, viewVars, tabVars
<1>18. ASSUME NEW y \in Sync, ReadRow(y)
      PROVE  cursor <= cursor' /\ told <= told'
    BY <1>0, <1>18 DEF ReadRow, SyncFrame, serverVars, connVars, refVars, viewVars, tabVars
<1>19. ASSUME NEW y \in Sync, ReadCursor(y)
      PROVE  cursor <= cursor' /\ told <= told'
    BY <1>0, <1>19 DEF ReadCursor, SyncFrame, serverVars, connVars, refVars, viewVars, tabVars
<1>20. ASSUME NEW y \in Sync, SyncAnswered(y)
      PROVE  cursor <= cursor' /\ told <= told'
    BY <1>0, <1>20 DEF SyncAnswered, Larger
<1>21. ASSUME NEW y \in Sync, ReadDetail(y)
      PROVE  cursor <= cursor' /\ told <= told'
    BY <1>0, <1>21 DEF ReadDetail, SyncFrame, serverVars, connVars, refVars, viewVars, tabVars
<1>22. ASSUME NEW y \in Sync, MergeDetail(y)
      PROVE  cursor <= cursor' /\ told <= told'
    BY <1>0, <1>22
       DEF MergeDetail, SyncFrame, Idle, serverVars, connVars, refVars, viewVars, tabVars
<1>23. ASSUME NEW y \in Sync, SyncFails(y)
      PROVE  cursor <= cursor' /\ told <= told'
    BY <1>0, <1>23
       DEF SyncFails, Spend, Idle, SyncFrame, serverVars, connVars, refVars, viewVars, tabVars
<1>24. ASSUME NEW y \in Sync, CancelTask(y)
      PROVE  cursor <= cursor' /\ told <= told'
    BY <1>0, <1>24
       DEF CancelTask, Spend, Ask, Idle, serverVars, connVars, refVars, viewVars, tabVars
<1>25. CASE Restart
    BY <1>0, <1>25 DEF Restart
<1>26. CASE UNCHANGED vars
    BY <1>0, <1>26 DEF vars, serverVars, connVars, refVars, viewVars, tabVars
<1> QED
    BY <1>1, <1>2, <1>3, <1>4, <1>5, <1>6, <1>7, <1>8, <1>9, <1>10, <1>11, <1>12,
       <1>13, <1>14, <1>15, <1>16, <1>17, <1>18, <1>19, <1>20, <1>21, <1>22, <1>23, <1>24, <1>25, <1>26
       DEF Next, ServeStep, SocketStep, SyncStep, Resting

LEMMA MovesStep ==
    ASSUME DeliveryInvariant, DeliveryInvariant', Opening, OneRun, Next,
           NEW d \in Conn, handler'[d] = "open"
    PROVE  Moves(d)
<1>0. /\ Opening /\ BrokerInvariant /\ BrokerInvariant' /\ ServerTypes /\ SocketTypes /\ Named
      /\ cursor \in Nat /\ told \in Nat /\ cursor' \in Nat /\ told' \in Nat
      /\ subscription \in Run \cup {NoRun} /\ asked \in Run \cup {NoRun}
      /\ cursor <= cursor' /\ told <= told' /\ handler'[d] = "open"
      /\ \A c \in Conn : queue[c] # <<>> => Head(queue[c]).seq \in Nat
    BY HeadTyped, KnownGrows DEF DeliveryInvariant, RefTypes, ViewTypes
<1>1. ASSUME NEW r \in Run, Progress(r)
      PROVE  Moves(d)
    <2>1. handler' = handler /\ \E kind \in EventKinds : Publish(r, kind)
        BY <1>1 DEF Progress, EventKinds, serverVars
    <2> QED
        BY <1>0, <2>1, PublishMoves
<1>2. ASSUME NEW r \in Run, Commit(r)
      PROVE  Moves(d)
    <2>1. handler' = handler /\ UNCHANGED <<streams, queue>>
        BY <1>2 DEF Commit, broker, serverVars
    <2> QED
        BY <1>0, <2>1, StillMoves
<1>3. ASSUME NEW r \in Run, Finish(r)
      PROVE  Moves(d)
    <2>1. handler' = handler /\ \E kind \in EventKinds : Publish(r, kind)
        BY <1>3 DEF Finish, EventKinds, TerminalKinds
    <2> QED
        BY <1>0, <2>1, PublishMoves
<1>4. ASSUME NEW r \in Run, Expire(r)
      PROVE  Moves(d)
    <2>1. handler' = handler /\ Age(r)
        BY <1>4 DEF Expire, serverVars
    <2> QED
        BY <1>0, <2>1, AgeMoves
<1>5. ASSUME NEW r \in Run, StartTask(r)
      PROVE  Moves(d)
    <2>1. handler' = handler /\ EnsureStream(r)
        BY <1>5 DEF StartTask
    <2> QED
        BY <1>0, <2>1, EnsureStreamMoves
<1>6. ASSUME NEW c \in Conn, Handshake(c)
      PROVE  Moves(d)
    <2>1. CASE archived
        <3>1. handler' = [handler EXCEPT ![c] = "none"] /\ UNCHANGED <<streams, queue>>
            BY <1>6, <2>1 DEF Handshake, broker
        <3> QED
            BY <1>0, <3>1, StillMoves DEF ServerTypes
    <2>2. CASE ~archived
        <3>1. /\ handler[c] = "opening" /\ Subscribe(c, wants[c], after[c])
              /\ handler' = [handler EXCEPT ![c] = "open"]
            BY <1>6, <2>2 DEF Handshake
        <3>2. wants[c] \in Run /\ after[c] \in Nat /\ after[c] <= cursor
            BY <1>0, <3>1 DEF Named, SocketTypes, Opening, AfterBelow
        <3>3. after[c] <= Known
            BY <1>0, <3>2 DEF Known, Larger
        <3>4. d # c => handler[d] = "open"
            BY <1>0, <3>1 DEF ServerTypes
        <3> QED
            BY <1>0, <3>1, <3>2, <3>3, <3>4, SubscribeMoves
    <2> QED
        BY <2>1, <2>2
<1>7. ASSUME NEW c \in Conn, WriteClose(c)
      PROVE  Moves(d)
    <2>1. /\ Unsubscribe(c, wants[c]) /\ wants[c] \in Run
          /\ handler' = [handler EXCEPT ![c] = "none"]
        BY <1>0, <1>7 DEF WriteClose, Named
    <2>2. d # c /\ handler[d] = "open"
        BY <1>0, <2>1 DEF ServerTypes
    <2> QED
        BY <1>0, <2>1, <2>2, UnsubscribeMoves
<1>8. ASSUME NEW c \in Conn, Hangup(c)
      PROVE  Moves(d)
    <2>1. /\ Unsubscribe(c, wants[c]) /\ wants[c] \in Run
          /\ handler' = [handler EXCEPT ![c] = "none"]
        BY <1>0, <1>8 DEF Hangup, Named
    <2>2. d # c /\ handler[d] = "open"
        BY <1>0, <2>1 DEF ServerTypes
    <2> QED
        BY <1>0, <2>1, <2>2, UnsubscribeMoves
<1>9. ASSUME NEW c \in Conn, ReceiveIgnored(c)
      PROVE  Moves(d)
    <2>1. /\ Take(c) /\ handler' = handler /\ handler[c] = "open" /\ wants[c] \in Run
          /\ queue[c] # <<>>
        BY <1>0, <1>9 DEF ReceiveIgnored, Arriving, Take, Named, serverVars
    <2>2. subscription = wants[c]
        BY <1>0, <2>1 DEF Opening, Started, Once, OneRun
    <2>3. PICK item : item = Head(queue[c])
        OBVIOUS
    <2>4. item.seq \in Nat
        BY <1>0, <2>1, <2>3
    <2>5. item.kind = "stream_ready" \/ (item.kind \in EventKinds /\ ~(item.seq > cursor))
        BY <1>9, <2>2, <2>3 DEF ReceiveIgnored, Fresh
    <2>6. \A n \in Nat : Accounts(item, n) => n <= Known'
        BY <1>0, <2>4, <2>5 DEF Accounts, Known, Larger, EventKinds, TerminalKinds
    <2> QED
        BY <1>0, <2>1, <2>3, <2>6, TakeMoves
<1>10. ASSUME NEW c \in Conn, ReceiveEvent(c)
      PROVE  Moves(d)
    <2>1. /\ Take(c) /\ handler' = handler /\ queue[c] # <<>>
          /\ cursor' = Head(queue[c]).seq
        BY <1>10 DEF ReceiveEvent, Reduces, Arriving, Take, serverVars
    <2>2. PICK item : item = Head(queue[c])
        OBVIOUS
    <2>3. item.seq \in Nat /\ item.kind \in EventKinds /\ cursor' = item.seq
        BY <1>0, <1>10, <2>1, <2>2 DEF ReceiveEvent, EventKinds, TerminalKinds
    <2>4. \A n \in Nat : Accounts(item, n) => n <= Known'
        BY <1>0, <2>3 DEF Accounts, Known, Larger, EventKinds, TerminalKinds
    <2> QED
        BY <1>0, <2>1, <2>2, <2>4, TakeMoves
<1>11. ASSUME NEW c \in Conn, OnClose(c)
      PROVE  Moves(d)
    <2>1. handler' = handler /\ UNCHANGED <<streams, queue>>
        BY <1>11 DEF OnClose, broker, serverVars
    <2> QED
        BY <1>0, <2>1, StillMoves
<1>12. ASSUME NEW c \in Conn, NEW y \in Sync, ReceiveGap(c, y)
      PROVE  Moves(d)
    <2>1. /\ Take(c) /\ handler' = handler /\ handler[c] = "open" /\ wants[c] \in Run
          /\ queue[c] # <<>>
        BY <1>0, <1>12 DEF ReceiveGap, Arriving, Take, Named, serverVars
    <2>2. asked = wants[c]
        BY <1>0, <2>1 DEF Opening, Started, OneRun
    <2>3. PICK item : item = Head(queue[c])
        OBVIOUS
    <2>4. item.seq \in Nat /\ item.kind = "replay_gap" /\ told' = Larger(told, item.seq - 1)
        BY <1>0, <1>12, <2>1, <2>2, <2>3 DEF ReceiveGap
    <2>5. item.seq - 1 <= told'
        BY <1>0, <2>4 DEF Larger
    <2>6. \A n \in Nat : Accounts(item, n) => n <= Known'
        BY <1>0, <2>4, <2>5 DEF Accounts, Known, Larger, EventKinds, TerminalKinds
    <2> QED
        BY <1>0, <2>1, <2>3, <2>6, TakeMoves
<1>13. ASSUME NEW c \in Conn, NEW y \in Sync, ReceiveTerminal(c, y)
      PROVE  Moves(d)
    <2>1. /\ Take(c) /\ handler' = handler /\ queue[c] # <<>>
          /\ cursor' = Head(queue[c]).seq
        BY <1>13 DEF ReceiveTerminal, Reduces, Arriving, Take, serverVars
    <2>2. PICK item : item = Head(queue[c])
        OBVIOUS
    <2>3. item.seq \in Nat /\ item.kind \in EventKinds /\ cursor' = item.seq
        BY <1>0, <1>13, <2>1, <2>2 DEF ReceiveTerminal, EventKinds, TerminalKinds
    <2>4. \A n \in Nat : Accounts(item, n) => n <= Known'
        BY <1>0, <2>3 DEF Accounts, Known, Larger, EventKinds, TerminalKinds
    <2> QED
        BY <1>0, <2>1, <2>2, <2>4, TakeMoves
<1>14. ASSUME NEW c \in Conn, TaskAccepted(c)
      PROVE  Moves(d)
    <2>1. handler' = [handler EXCEPT ![c] = "opening"] /\ UNCHANGED <<streams, queue>>
        BY <1>14 DEF TaskAccepted, Connect, broker
    <2>2. handler[d] = "open"
        BY <1>0, <2>1 DEF ServerTypes
    <2> QED
        BY <2>1, <2>2, StillMoves
<1>15. ASSUME NEW c \in Conn, Drop(c)
      PROVE  Moves(d)
    <2>1. handler' = handler /\ UNCHANGED <<streams, queue>>
        BY <1>15 DEF Drop, broker, serverVars
    <2> QED
        BY <1>0, <2>1, StillMoves
<1>16. ASSUME NEW c \in Conn, ReconnectNow(c)
      PROVE  Moves(d)
    <2>1. handler' = [handler EXCEPT ![c] = "opening"] /\ UNCHANGED <<streams, queue>>
        BY <1>16 DEF ReconnectNow, Connect, broker
    <2>2. handler[d] = "open"
        BY <1>0, <2>1 DEF ServerTypes
    <2> QED
        BY <2>1, <2>2, StillMoves
<1>17. ASSUME NEW c \in Conn, NEW r \in Run, TimerFires(c, r)
      PROVE  Moves(d)
    <2>1. handler' = [handler EXCEPT ![c] = "opening"] /\ UNCHANGED <<streams, queue>>
        BY <1>17 DEF TimerFires, Connect, broker
    <2>2. handler[d] = "open"
        BY <1>0, <2>1 DEF ServerTypes
    <2> QED
        BY <2>1, <2>2, StillMoves
<1>18. ASSUME NEW y \in Sync, ReadRow(y)
      PROVE  Moves(d)
    <2>1. handler' = handler /\ UNCHANGED <<streams, queue>>
        BY <1>18 DEF ReadRow, SyncFrame, broker, serverVars
    <2> QED
        BY <1>0, <2>1, StillMoves
<1>19. ASSUME NEW y \in Sync, ReadCursor(y)
      PROVE  Moves(d)
    <2>1. handler' = handler /\ UNCHANGED <<streams, queue>>
        BY <1>19 DEF ReadCursor, SyncFrame, broker, serverVars
    <2> QED
        BY <1>0, <2>1, StillMoves
<1>20. ASSUME NEW y \in Sync, SyncAnswered(y)
      PROVE  Moves(d)
    <2>1. handler' = handler /\ UNCHANGED <<streams, queue>>
        BY <1>20 DEF SyncAnswered, SyncFrame, broker, serverVars
    <2> QED
        BY <1>0, <2>1, StillMoves
<1>21. ASSUME NEW y \in Sync, ReadDetail(y)
      PROVE  Moves(d)
    <2>1. handler' = handler /\ UNCHANGED <<streams, queue>>
        BY <1>21 DEF ReadDetail, SyncFrame, broker, serverVars
    <2> QED
        BY <1>0, <2>1, StillMoves
<1>22. ASSUME NEW y \in Sync, MergeDetail(y)
      PROVE  Moves(d)
    <2>1. handler' = handler /\ UNCHANGED <<streams, queue>>
        BY <1>22 DEF MergeDetail, SyncFrame, broker, serverVars
    <2> QED
        BY <1>0, <2>1, StillMoves
<1>23. ASSUME NEW y \in Sync, SyncFails(y)
      PROVE  Moves(d)
    <2>1. handler' = handler /\ UNCHANGED <<streams, queue>>
        BY <1>23 DEF SyncFails, SyncFrame, broker, serverVars
    <2> QED
        BY <1>0, <2>1, StillMoves
<1>24. ASSUME NEW y \in Sync, CancelTask(y)
      PROVE  Moves(d)
    <2>1. handler' = handler /\ UNCHANGED <<streams, queue>>
        BY <1>24 DEF CancelTask, broker, serverVars
    <2> QED
        BY <1>0, <2>1, StillMoves
<1>25. CASE Restart
    BY <1>0, <1>25 DEF Restart
<1>26. CASE UNCHANGED vars
    <2>1. handler' = handler /\ UNCHANGED <<streams, queue>>
        BY <1>26 DEF vars, broker, serverVars
    <2> QED
        BY <1>0, <2>1, StillMoves
<1> QED
    BY <1>1, <1>2, <1>3, <1>4, <1>5, <1>6, <1>7, <1>8, <1>9, <1>10, <1>11, <1>12,
       <1>13, <1>14, <1>15, <1>16, <1>17, <1>18, <1>19, <1>20, <1>21, <1>22, <1>23, <1>24, <1>25, <1>26
       DEF Next, ServeStep, SocketStep, SyncStep, Resting

-----------------------------------------------------------------------------
\* When an event is reduced, all that came before it is known.
LEMMA ReducedIsNext ==
    ASSUME LossInvariant, OneRun, NEW c \in Conn, handler[c] = "open", queue[c] # <<>>,
           Head(queue[c]).kind \in EventKinds, Head(queue[c]).seq > cursor,
           cursor' = Head(queue[c]).seq, told' = told, asked' = asked,
           shown' = Append(shown, <<wants[c], Head(queue[c]).seq>>)
    PROVE  NoSilentLoss'
<1>1. /\ queue[c] \in Seq(Item) /\ cursor \in Nat /\ told \in Nat /\ asked \in Run \cup {NoRun}
      /\ wants[c] \in Run /\ shown \in Seq(Run \X Nat) /\ NoSilentLoss
      /\ EachAccounted(queue[c], Known) /\ Opening
    BY
       DEF LossInvariant, DeliveryInvariant, BrokerInvariant, Conn, RefTypes, ViewTypes, Named,
           QueueAccounts
<1>2. wants[c] = asked
    BY <1>1 DEF Opening, Started, OneRun
<1>3. PICK q \in Seq(Item), l \in Nat : q = queue[c] /\ Len(q) = l + 1
    <2>1. PICK l \in Nat : l = Len(queue[c])
        BY <1>1, LenProperties
    <2>2. l # 0
        BY <1>1, <2>1, EmptySeq
    <2>3. l - 1 \in Nat /\ l = (l - 1) + 1
        BY <2>2
    <2> QED
        BY <1>1, <2>1, <2>3
<1>4. DOMAIN q = 1..(l + 1) /\ Head(q) = q[1] /\ 1 \in DOMAIN q
    BY <1>3, LenProperties
<1>5. PICK m \in Nat : m = q[1].seq
    BY <1>3, <1>4, ElementOfSeq DEF Item, Event
<1>6. Accounted(q, 1, m, Known)
    BY <1>1, <1>3, <1>4, <1>5 DEF EachAccounted, EventsIn
<1>7. \A n \in 1..(m - 1) : n <= cursor \/ n <= told
    <2>1. \A n \in 1..(m - 1) : n <= Known
        BY <1>4, <1>6 DEF Accounted
    <2> QED
        BY <1>1, <2>1 DEF Known, Larger
<1>8. PICK k \in Nat : k = Len(shown) /\ DOMAIN shown = 1..k
    BY <1>1, LenProperties
<1>9. PICK p \in Seq(Run \X Nat) : p = shown' /\ p = Append(shown, <<asked, m>>)
    <2>1. <<asked, m>> \in Run \X Nat
        BY <1>1, <1>2
    <2> QED
        BY <1>1, <1>2, <1>3, <1>4, <1>5, <2>1, AppendProperties
<1>10. DOMAIN p = 1..(k + 1) /\ p[k + 1] = <<asked, m>> /\ \A i \in 1..k : p[i] = shown[i]
    <2>1. Len(p) = k + 1
        BY <1>1, <1>8, <1>9, AppendProperties
    <2>2. p[k + 1] = <<asked, m>> /\ \A i \in 1..k : p[i] = shown[i]
        BY <1>1, <1>8, <1>9, AppendProperties
    <2> QED
        BY <1>9, <2>1, <2>2, LenProperties
<1>11. ASSUME NEW n \in 1..m
       PROVE  n <= told \/ \E i \in DOMAIN p : p[i] = <<asked, n>>
    <2>1. CASE n = m
        <3>1. k + 1 \in DOMAIN p
            BY <1>10
        <3> QED
            BY <1>10, <2>1, <3>1
    <2>2. CASE n # m
        <3>1. n \in 1..(m - 1)
            BY <2>2
        <3>2. CASE n <= told
            BY <3>2
        <3>3. CASE n <= cursor
            <4>1. n \in 1..cursor
                BY <1>1, <3>3
            <4>2. CASE \E i \in 1..k : shown[i] = <<asked, n>>
                <5>1. \A i \in 1..k : i \in DOMAIN p
                    BY <1>10
                <5> QED
                    BY <1>10, <4>2, <5>1
            <4> QED
                BY <1>1, <1>8, <4>1, <4>2 DEF NoSilentLoss
        <3> QED
            BY <1>7, <3>1, <3>2, <3>3
    <2> QED
        BY <2>1, <2>2
<1>12. cursor' = m
    BY <1>3, <1>4, <1>5
<1> QED
    BY <1>9, <1>11, <1>12 DEF NoSilentLoss

LEMMA NoSilentLossStep ==
    ASSUME LossInvariant, OneRun, Next
    PROVE  NoSilentLoss'
<1>0. /\ Opening /\ NoSilentLoss /\ cursor \in Nat /\ told \in Nat
      /\ asked \in Run \cup {NoRun} /\ Named
      /\ \A y \in Sync : sync[y].last \in Nat
      /\ \A c \in Conn : queue[c] # <<>> => Head(queue[c]).seq \in Nat
    BY HeadTyped DEF LossInvariant, DeliveryInvariant, RefTypes, ViewTypes, Request
<1>1. ASSUME NEW r \in Run, Progress(r)
      PROVE  NoSilentLoss'
    BY <1>0, <1>1 DEF Progress, NoSilentLoss, refVars, viewVars, tabVars
<1>2. ASSUME NEW r \in Run, Commit(r)
      PROVE  NoSilentLoss'
    BY <1>0, <1>2 DEF Commit, NoSilentLoss, refVars, viewVars, tabVars
<1>3. ASSUME NEW r \in Run, Finish(r)
      PROVE  NoSilentLoss'
    BY <1>0, <1>3 DEF Finish, NoSilentLoss, refVars, viewVars, tabVars
<1>4. ASSUME NEW r \in Run, Expire(r)
      PROVE  NoSilentLoss'
    BY <1>0, <1>4 DEF Expire, Spend, NoSilentLoss, refVars, viewVars, tabVars
<1>5. ASSUME NEW r \in Run, StartTask(r)
      PROVE  NoSilentLoss'
    BY <1>0, <1>5 DEF StartTask, NoSilentLoss, refVars, viewVars, tabVars
<1>6. ASSUME NEW c \in Conn, Handshake(c)
      PROVE  NoSilentLoss'
    BY <1>0, <1>6 DEF Handshake, Closed, NoSilentLoss, refVars, viewVars, tabVars
<1>7. ASSUME NEW c \in Conn, WriteClose(c)
      PROVE  NoSilentLoss'
    BY <1>0, <1>7 DEF WriteClose, Closed, NoSilentLoss, refVars, viewVars, tabVars
<1>8. ASSUME NEW c \in Conn, Hangup(c)
      PROVE  NoSilentLoss'
    BY <1>0, <1>8 DEF Hangup, NoSilentLoss, refVars, viewVars, tabVars
<1>9. ASSUME NEW c \in Conn, ReceiveIgnored(c)
      PROVE  NoSilentLoss'
    BY <1>0, <1>9 DEF ReceiveIgnored, Arriving, NoSilentLoss, refVars, viewVars, tabVars
<1>10. ASSUME NEW c \in Conn, ReceiveEvent(c)
      PROVE  NoSilentLoss'
    <2>1. /\ handler[c] = "open" /\ queue[c] # <<>> /\ Head(queue[c]).kind \in EventKinds
          /\ Head(queue[c]).seq > cursor /\ cursor' = Head(queue[c]).seq
          /\ told' = told /\ asked' = asked
          /\ shown' = Append(shown, <<wants[c], Head(queue[c]).seq>>)
        BY <1>10 DEF ReceiveEvent, Reduces, Arriving, Fresh, EventKinds, TerminalKinds
    <2> QED
        BY <2>1, ReducedIsNext
<1>11. ASSUME NEW c \in Conn, OnClose(c)
      PROVE  NoSilentLoss'
    BY <1>0, <1>11 DEF OnClose, NoSilentLoss, refVars, viewVars, tabVars
<1>12. ASSUME NEW c \in Conn, NEW y \in Sync, ReceiveGap(c, y)
      PROVE  NoSilentLoss'
    <2>1. UNCHANGED <<cursor, shown, asked>> /\ Head(queue[c]).seq \in Nat
        BY <1>0, <1>12 DEF ReceiveGap, Arriving, Take, refVars, viewVars
    <2>2. told' = told \/ told' = Larger(told, Head(queue[c]).seq - 1)
        BY <1>12 DEF ReceiveGap
    <2>3. told' \in Int /\ told <= told'
        BY <1>0, <2>1, <2>2 DEF Larger
    <2> QED
        BY <1>0, <2>1, <2>3 DEF NoSilentLoss
<1>13. ASSUME NEW c \in Conn, NEW y \in Sync, ReceiveTerminal(c, y)
      PROVE  NoSilentLoss'
    <2>1. /\ handler[c] = "open" /\ queue[c] # <<>> /\ Head(queue[c]).kind \in EventKinds
          /\ Head(queue[c]).seq > cursor /\ cursor' = Head(queue[c]).seq
          /\ told' = told /\ asked' = asked
          /\ shown' = Append(shown, <<wants[c], Head(queue[c]).seq>>)
        BY <1>13 DEF ReceiveTerminal, Reduces, Arriving, Fresh, EventKinds, TerminalKinds
    <2> QED
        BY <2>1, ReducedIsNext
<1>14. ASSUME NEW c \in Conn, TaskAccepted(c)
      PROVE  NoSilentLoss'
    <2>1. cursor' = 0
        BY <1>14 DEF TaskAccepted
    <2> QED
        BY <2>1 DEF NoSilentLoss
<1>15. ASSUME NEW c \in Conn, Drop(c)
      PROVE  NoSilentLoss'
    BY <1>0, <1>15 DEF Drop, Spend, NoSilentLoss, refVars, viewVars, tabVars
<1>16. ASSUME NEW c \in Conn, ReconnectNow(c)
      PROVE  NoSilentLoss'
    BY <1>0, <1>16
       DEF ReconnectNow, Connect, Free, Spend, NoSilentLoss, refVars, viewVars, tabVars
<1>17. ASSUME NEW c \in Conn, NEW r \in Run, TimerFires(c, r)
      PROVE  NoSilentLoss'
    BY <1>0, <1>17 DEF TimerFires, Connect, Free, NoSilentLoss, refVars, viewVars, tabVars
<1>18. ASSUME NEW y \in Sync, ReadRow(y)
      PROVE  NoSilentLoss'
    BY <1>0, <1>18 DEF ReadRow, SyncFrame, NoSilentLoss, refVars, viewVars, tabVars
<1>19. ASSUME NEW y \in Sync, ReadCursor(y)
      PROVE  NoSilentLoss'
    BY <1>0, <1>19 DEF ReadCursor, SyncFrame, NoSilentLoss, refVars, viewVars, tabVars
<1>20. ASSUME NEW y \in Sync, SyncAnswered(y)
      PROVE  NoSilentLoss'
    <2>1. sync[y].phase # "idle" /\ sync[y].run \in Run /\ shown' = shown /\ asked' = asked
        BY <1>0, <1>20 DEF SyncAnswered, SyncFrame, Named
    <2>2. sync[y].run = asked
        BY <1>0, <2>1 DEF Opening, Started, OneRun
    <2>3. cursor' = Larger(cursor, sync[y].last) /\ told' = Larger(told, sync[y].last)
        BY <1>20, <2>2 DEF SyncAnswered
    <2>4. /\ cursor' \in Nat /\ told' \in Nat /\ told <= told'
          /\ cursor' = cursor \/ cursor' <= told'
        BY <1>0, <2>3 DEF Larger
    <2> QED
        BY <1>0, <2>1, <2>4 DEF NoSilentLoss
<1>21. ASSUME NEW y \in Sync, ReadDetail(y)
      PROVE  NoSilentLoss'
    BY <1>0, <1>21 DEF ReadDetail, SyncFrame, NoSilentLoss, refVars, viewVars, tabVars
<1>22. ASSUME NEW y \in Sync, MergeDetail(y)
      PROVE  NoSilentLoss'
    BY <1>0, <1>22 DEF MergeDetail, SyncFrame, Idle, NoSilentLoss, refVars, viewVars, tabVars
<1>23. ASSUME NEW y \in Sync, SyncFails(y)
      PROVE  NoSilentLoss'
    BY <1>0, <1>23 DEF SyncFails, Spend, Idle, SyncFrame, NoSilentLoss, refVars, viewVars, tabVars
<1>24. ASSUME NEW y \in Sync, CancelTask(y)
      PROVE  NoSilentLoss'
    BY <1>0, <1>24 DEF CancelTask, Spend, NoSilentLoss, refVars, viewVars, tabVars
<1>25. CASE Restart
    BY <1>0, <1>25 DEF Restart, Spend, NoSilentLoss, refVars, viewVars, tabVars
<1>26. CASE UNCHANGED vars
    BY <1>0, <1>26 DEF vars, NoSilentLoss, refVars, viewVars, tabVars
<1> QED
    BY <1>1, <1>2, <1>3, <1>4, <1>5, <1>6, <1>7, <1>8, <1>9, <1>10, <1>11, <1>12,
       <1>13, <1>14, <1>15, <1>16, <1>17, <1>18, <1>19, <1>20, <1>21, <1>22, <1>23, <1>24, <1>25, <1>26
       DEF Next, ServeStep, SocketStep, SyncStep, Resting

LEMMA LossInitially == Init => LossInvariant
<1> SUFFICES ASSUME Init PROVE LossInvariant
    OBVIOUS
<1>1. Opening
    BY DEF Init, Opening, Started, Once, AfterBelow, Idle
<1>2. NoSilentLoss /\ \A c \in Conn : handler[c] # "open"
    BY DEF Init, NoSilentLoss
<1> QED
    BY <1>1, <1>2, DeliveryInitially DEF LossInvariant

LEMMA LossStep == OneRun /\ LossInvariant /\ [Next]_vars => LossInvariant'
<1> SUFFICES ASSUME OneRun, LossInvariant, [Next]_vars
             PROVE  LossInvariant'
    OBVIOUS
<1>1. DeliveryInvariant /\ DeliveryInvariant'
    BY DeliveryStep DEF LossInvariant
<1>2. CASE Next
    <2>1. Opening' /\ NoSilentLoss'
        BY <1>1, <1>2, OpeningStep, NoSilentLossStep DEF LossInvariant
    <2>2. ASSUME NEW c \in Conn, handler'[c] = "open"
          PROVE  QueueAccounts(c)'
        <3>1. Moves(c) /\ cursor <= cursor' /\ told <= told'
            BY <1>1, <1>2, <2>2, MovesStep, KnownGrows DEF LossInvariant
        <3>2. cursor \in Nat /\ told \in Nat /\ cursor' \in Nat /\ told' \in Nat
            BY <1>1 DEF DeliveryInvariant, RefTypes, ViewTypes
        <3>3. Known \in Nat /\ Known' \in Nat /\ Known <= Known'
            BY <3>1, <3>2 DEF Known, Larger
        <3>4. handler[c] = "open" => QueueAccounts(c)
            BY DEF LossInvariant
        <3> QED
            BY <1>1, <3>1, <3>3, <3>4, MovesKeep DEF DeliveryInvariant
    <2> QED
        BY <1>1, <2>1, <2>2 DEF LossInvariant
<1>3. CASE UNCHANGED vars
    BY <1>1, <1>3
       DEF LossInvariant, vars, broker, serverVars, connVars, refVars, viewVars, Opening, Started,
           Once, AfterBelow, QueueAccounts, Known, NoSilentLoss
<1> QED
    BY <1>2, <1>3

\* The cursor passes no event of the run silently: whatever connections are lost and
\* replaced, whatever a full queue, a pruned stream or a restart takes away, each event at
\* or below the cursor was reduced, or the tab was told of it (session plan :299;
\* event_broker.py:183-212, useGlobuyTask.ts:109-133).
THEOREM NothingPassesSilently == OneRun => (Spec => []NoSilentLoss)
<1> SUFFICES ASSUME OneRun
             PROVE  Spec => []NoSilentLoss
    OBVIOUS
<1>1. Init => LossInvariant
    BY LossInitially
<1>2. LossInvariant /\ [Next]_vars => LossInvariant'
    BY LossStep
<1>3. LossInvariant => NoSilentLoss
    BY DEF LossInvariant
<1> QED
    BY <1>1, <1>2, <1>3, PTL DEF Spec
==============================================================================
