---------------------------- MODULE EventBroker -----------------------------
(***************************************************************************)
(* The in-memory event broker (app/api/event_broker.py): one stream per    *)
(* run with a bounded replay buffer, and a bounded queue per subscriber.   *)
(*                                                                         *)
(* No code awaits anything inside the broker's locks, so no lock is ever   *)
(* found taken and each operation is one step of the event loop.           *)
(***************************************************************************)
EXTENDS Integers, Sequences, FiniteSets

CONSTANTS
    Run,          \* runs, the keys of _streams
    Sub,          \* Subscription objects
    Cursor,       \* values of `after` that subscribers name
    BufferSize,   \* buffer_size (2000)
    QueueSize     \* subscriber_queue_size (256)

ASSUME BrokerAssumption ==
    /\ BufferSize \in Nat \ {0}
    /\ QueueSize \in Nat \ {0}
    /\ Cursor \subseteq Nat

VARIABLES
    streams,   \* _streams: a function on the runs that have a RunEventStream
    queue,     \* subscriber.queue
    room       \* its maxsize

broker == <<streams, queue, room>>

-----------------------------------------------------------------------------
TerminalKinds == {"RUN_FINISHED"}     \* RUN_ERROR and TASK_CANCELLED alike
EventKinds == TerminalKinds \cup {"RUN_STARTED", "PROGRESS"}

\* What a queue holds: events with their sequence, and control items that carry
\* earliest_available_sequence, replayed_through, or (None) nothing.
Event == [kind : EventKinds, seq : Nat \ {0}]
Item  == Event \cup [kind : {"replay_gap", "stream_ready", "close"}, seq : Nat]
CloseItem == [kind |-> "close", seq |-> 0]

Stream == [next : Nat \ {0}, buffer : Seq(Event), terminal : Nat, aged : BOOLEAN,
           subscribers : SUBSET Sub]
NewStream == [next |-> 1, buffer |-> <<>>, terminal |-> 0, aged |-> FALSE, subscribers |-> {}]

BrokerTypeOK ==
    /\ DOMAIN streams \subseteq Run
    /\ \A r \in DOMAIN streams : streams[r] \in Stream
    /\ queue \in [Sub -> Seq(Item)]
    /\ room \in [Sub -> Nat]

BrokerInit ==
    /\ streams = [r \in {} |-> NewStream]
    /\ queue = [s \in Sub |-> <<>>]
    /\ room = [s \in Sub |-> 0]

-----------------------------------------------------------------------------
\* _prune_locked: streams past their retention that nobody subscribes to.
Expired(r) == streams[r].aged /\ streams[r].subscribers = {}
Kept == {r \in DOMAIN streams : ~Expired(r)}

\* ensure_stream prunes, then finds the stream or makes a new one.
Ensured(r) == [x \in Kept \cup {r} |-> IF x \in Kept THEN streams[x] ELSE NewStream]

EnsureStream(r) ==
    /\ streams' = Ensured(r)
    /\ UNCHANGED <<queue, room>>

\* Faulty variant: a full buffer refuses the newest event.
NewestRefused(s) == SubSeq(s, 1, BufferSize)

\* The newest events that the buffer has room for.
Newest(s) == IF Len(s) <= BufferSize THEN s ELSE SubSeq(s, Len(s) - BufferSize + 1, Len(s))

\* Faulty variant: a full queue loses the event and the subscriber stays.
PublishLossy(r, kind) ==
    LET s    == Ensured(r)[r]
        item == [kind |-> kind, seq |-> s.next]
    IN  /\ streams' = [Ensured(r) EXCEPT
               ![r].next = @ + 1,
               ![r].buffer = Newest(Append(@, item)),
               ![r].terminal = IF kind \in TerminalKinds THEN s.next ELSE @]
        /\ queue' = [c \in Sub |->
               IF c \in s.subscribers /\ Len(queue[c]) < room[c] THEN Append(queue[c], item)
               ELSE queue[c]]
        /\ UNCHANGED room

\* publish: the first terminal event is kept; a subscriber whose queue is full is
\* dropped, and finds nothing but None in its queue.
Publish(r, kind) ==
    LET s    == Ensured(r)[r]
        item == [kind |-> kind, seq |-> s.next]
        full == {c \in s.subscribers : Len(queue[c]) >= room[c]}
    IN  IF kind \in TerminalKinds /\ s.terminal # 0
        THEN EnsureStream(r)
        ELSE /\ streams' = [Ensured(r) EXCEPT
                    ![r].next = @ + 1,
                    ![r].buffer = Newest(Append(@, item)),
                    ![r].terminal = IF kind \in TerminalKinds THEN s.next ELSE @,
                    ![r].subscribers = @ \ full]
             /\ queue' = [c \in Sub |->
                    IF c \in full THEN <<CloseItem>>
                    ELSE IF c \in s.subscribers THEN Append(queue[c], item) ELSE queue[c]]
             /\ UNCHANGED room

\* The oldest event still there, or the next one to come.
Earliest(s) == IF s.buffer = <<>> THEN s.next ELSE s.buffer[1].seq

\* The positions of the events beyond a cursor, and those events in their order.
Later(events, after) == {i \in DOMAIN events : events[i].seq > after}
Replayed(events, after) ==
    LET later == Later(events, after)
        Nth(n) == CHOOSE i \in later : Cardinality({j \in later : j < i}) = n - 1
    IN  [n \in 1..Cardinality(later) |-> events[Nth(n)]]

Ready(s) == <<[kind |-> "stream_ready", seq |-> s.next - 1]>>

\* Faulty variant: nobody is told that the buffer has moved on.
BacklogUntold(s, after) == Replayed(s.buffer, after) \o Ready(s)

\* What a new subscriber finds in its queue.
Backlog(s, after) ==
    LET gap == IF after < Earliest(s) - 1
               THEN <<[kind |-> "replay_gap", seq |-> Earliest(s)]>> ELSE <<>>
    IN  gap \o Replayed(s.buffer, after) \o Ready(s)

Larger(m, n) == IF m > n THEN m ELSE n

\* subscribe: the backlog is queued before the subscriber can see anything live.
Subscribe(c, r, after) ==
    LET s == Ensured(r)[r]
    IN  /\ streams' = [Ensured(r) EXCEPT ![r].subscribers = @ \cup {c}]
        /\ queue' = [queue EXCEPT ![c] = Backlog(s, after)]
        /\ room' = [room EXCEPT ![c] = Larger(QueueSize, Cardinality(Later(s.buffer, after)) + 3)]

\* unsubscribe; the Subscription and its queue are not used any more.
Unsubscribe(c, r) ==
    /\ streams' = [x \in DOMAIN streams |->
           IF x = r THEN [streams[x] EXCEPT !.subscribers = @ \ {c}] ELSE streams[x]]
    /\ queue' = [queue EXCEPT ![c] = <<>>]
    /\ room' = [room EXCEPT ![c] = 0]

\* queue.get()
Take(c) ==
    /\ queue[c] # <<>>
    /\ queue' = [queue EXCEPT ![c] = Tail(@)]
    /\ UNCHANGED <<streams, room>>

\* Faulty variant: the sequence is decremented once too often.
LastSequenceLess(r) == IF r \in DOMAIN streams THEN streams[r].next - 2 ELSE 0

\* cursor_info: last_sequence, 0 for a run without a stream.
LastSequence(r) == IF r \in DOMAIN streams THEN streams[r].next - 1 ELSE 0

\* The terminal event of r becomes older than the retention (30 minutes).
Age(r) ==
    /\ r \in DOMAIN streams
    /\ streams[r].terminal # 0
    /\ ~streams[r].aged
    /\ streams' = [streams EXCEPT ![r].aged = TRUE]
    /\ UNCHANGED <<queue, room>>

\* close: every subscriber finds None.
CloseBroker ==
    /\ streams' = [r \in {} |-> NewStream]
    /\ queue' = [c \in Sub |->
           IF \E r \in DOMAIN streams : c \in streams[r].subscribers THEN <<CloseItem>>
           ELSE queue[c]]
    /\ UNCHANGED room

-----------------------------------------------------------------------------
Subscribed(c) == \E r \in DOMAIN streams : c \in streams[r].subscribers

\* A Subscription names the run it is to.
OnlyIn(c, r) == \A x \in DOMAIN streams : c \in streams[x].subscribers => x = r

BrokerNext ==
    \/ \E r \in Run :
        \/ EnsureStream(r)
        \/ Age(r)
        \/ \E kind \in EventKinds : Publish(r, kind)
        \/ \E c \in Sub, after \in Cursor : ~Subscribed(c) /\ Subscribe(c, r, after)
        \/ \E c \in Sub : OnlyIn(c, r) /\ Unsubscribe(c, r)
    \/ \E c \in Sub : Take(c)
    \/ CloseBroker

BrokerSpec == BrokerInit /\ [][BrokerNext]_broker

-----------------------------------------------------------------------------
\* The replay buffer is the tail of the stream: consecutive sequences up to the last
\* one assigned (docs/session-archive-task-ui-implementation-plan.md:296; l.113-126).
BufferIsTail ==
    \A r \in DOMAIN streams :
        LET s == streams[r]
        IN  /\ Len(s.buffer) <= BufferSize
            /\ \A i \in DOMAIN s.buffer : s.buffer[i].seq = s.next - 1 - Len(s.buffer) + i

\* A subscriber is never behind: the events that wait in its queue are consecutive and
\* end with the newest of the stream; one that could not keep up is not a subscriber
\* any more (plan :299, no event is dropped silently; l.135-143).
QueueIsTail ==
    \A r \in DOMAIN streams : \A c \in streams[r].subscribers :
        LET events == {i \in DOMAIN queue[c] : queue[c][i].kind \in EventKinds}
        IN  \A i \in events :
                queue[c][i].seq + Cardinality({j \in events : j > i}) = streams[r].next - 1
=============================================================================
