---------------------------- MODULE BrokerProofs -----------------------------
(***************************************************************************)
(* Proofs about the event broker: what a replay buffer and the queue of a  *)
(* subscriber hold, for every buffer size, queue size and set of runs.     *)
(*                                                                         *)
(* Every operation but the last four begins with ensure_stream, so the     *)
(* invariant is stated of a pair of values, Tidy(streams, queue), and      *)
(* Ensured is shown to keep it before the operations are looked at.        *)
(***************************************************************************)
EXTENDS EventBroker, FiniteSetTheorems, FunctionTheorems, SequenceTheorems, TLAPS

-----------------------------------------------------------------------------
(***************************************************************************)
(* The inductive invariant.                                                *)
(***************************************************************************)
BufferTail(s) ==
    /\ Len(s.buffer) <= BufferSize
    /\ \A i \in DOMAIN s.buffer : s.buffer[i].seq = s.next - 1 - Len(s.buffer) + i

EventsIn(q) == {i \in DOMAIN q : q[i].kind \in EventKinds}
QueueTail(q, next) ==
    \A i \in EventsIn(q) : q[i].seq + Cardinality({j \in EventsIn(q) : j > i}) = next - 1

\* A subscription is to one stream, and holds no event that the stream has not assigned.
Tidy(str, q) ==
    /\ DOMAIN str \subseteq Run
    /\ \A r \in DOMAIN str :
        /\ str[r] \in Stream
        /\ BufferTail(str[r])
        /\ \A c \in str[r].subscribers :
            /\ QueueTail(q[c], str[r].next)
            /\ \A x \in DOMAIN str : c \in str[x].subscribers => x = r

\* put_nowait never meets a full queue outside the `try` of publish: what subscribe
\* queues fits, and so does the None of a subscriber that is dropped (l.137-143, 183-212).
QueuesFit ==
    \A c \in Sub :
        /\ Len(queue[c]) <= room[c]
        /\ \A r \in DOMAIN streams : c \in streams[r].subscribers => room[c] > 0

BrokerInvariant ==
    /\ queue \in [Sub -> Seq(Item)]
    /\ room \in [Sub -> Nat]
    /\ Tidy(streams, queue)
    /\ QueuesFit

LEMMA InvariantMeans ==
    BrokerInvariant => BrokerTypeOK /\ BufferIsTail /\ QueueIsTail
BY
   DEF BrokerInvariant, BrokerTypeOK, Tidy, BufferIsTail, BufferTail, QueueIsTail, QueueTail,
       EventsIn

-----------------------------------------------------------------------------
(***************************************************************************)
(* The operators of the model.                                             *)
(***************************************************************************)
LEMMA NewStreamTyped == NewStream \in Stream /\ NewStream.buffer = <<>> /\ NewStream.subscribers = {}
BY EmptySeq DEF NewStream, Stream

LEMMA ItemTypes == Event \subseteq Item /\ CloseItem \in Item /\ CloseItem.kind \notin EventKinds
BY DEF Event, Item, CloseItem, EventKinds, TerminalKinds

\* Pruning and creating a stream disturb nothing that is subscribed to.
LEMMA EnsuredTidy ==
    ASSUME NEW q, NEW r \in Run, Tidy(streams, q)
    PROVE  /\ Tidy(Ensured(r), q)
           /\ r \in DOMAIN Ensured(r)
           /\ \A c \in Sub : \A x \in DOMAIN Ensured(r) :
                c \in Ensured(r)[x].subscribers =>
                    x \in DOMAIN streams /\ c \in streams[x].subscribers
<1> DEFINE e == Ensured(r)
<1>1. DOMAIN e = Kept \cup {r} /\ Kept \subseteq DOMAIN streams
    BY DEF Ensured, Kept
<1>2. \A x \in DOMAIN e : (x \in Kept /\ e[x] = streams[x]) \/ (x = r /\ e[x] = NewStream)
    BY <1>1 DEF Ensured
<1>3. NewStream \in Stream /\ BufferTail(NewStream) /\ NewStream.subscribers = {}
    BY NewStreamTyped, BrokerAssumption, EmptySeq DEF BufferTail
<1>4. r \in DOMAIN e
    BY <1>1
<1> HIDE DEF e
<1>5. Tidy(e, q)
    BY <1>1, <1>2, <1>3 DEF Tidy
<1>6. \A c \in Sub : \A x \in DOMAIN e :
          c \in e[x].subscribers => x \in DOMAIN streams /\ c \in streams[x].subscribers
    BY <1>1, <1>2, <1>3
<1> QED
    BY <1>4, <1>5, <1>6 DEF e

\* Newest keeps the last BufferSize elements.
LEMMA NewestKeeps ==
    ASSUME NEW S, NEW a \in Seq(S)
    PROVE  /\ Newest(a) \in Seq(S)
           /\ Len(Newest(a)) <= BufferSize
           /\ \A i \in 1..Len(Newest(a)) :
                /\ Len(a) - Len(Newest(a)) + i \in 1..Len(a)
                /\ Newest(a)[i] = a[Len(a) - Len(Newest(a)) + i]
<1> DEFINE n == Len(a)
           b == SubSeq(a, n - BufferSize + 1, n)
<1>1. n \in Nat /\ BufferSize \in Nat \ {0}
    BY LenProperties, BrokerAssumption
<1>2. \A i \in 1..n : a[i] \in S
    BY ElementOfSeq
<1> HIDE DEF n
<1>3. CASE n <= BufferSize
    BY <1>1, <1>3 DEF Newest, n
<1>4. CASE n > BufferSize
    <2>1. n - BufferSize + 1 \in 1..n /\ n - (n - BufferSize + 1) + 1 = BufferSize
        BY <1>1, <1>4
    <2>2. \A i \in (n - BufferSize + 1)..n : a[i] \in S
        BY <1>1, <1>2, <2>1
    <2>3. /\ b \in Seq(S)
          /\ Len(b) = IF n - BufferSize + 1 <= n THEN n - (n - BufferSize + 1) + 1 ELSE 0
          /\ \A i \in 1..(n - (n - BufferSize + 1) + 1) : b[i] = a[n - BufferSize + 1 + i - 1]
        BY <1>1, <2>2, SubSeqProperties
    <2>4. b = Newest(a)
        BY <1>1, <1>4 DEF Newest, n
    <2> HIDE DEF b
    <2>5. Len(b) = BufferSize /\ \A i \in 1..BufferSize : b[i] = a[n - BufferSize + i]
        BY <1>1, <2>1, <2>3
    <2>6. /\ Len(b) <= BufferSize
          /\ \A i \in 1..Len(b) : n - Len(b) + i \in 1..n /\ b[i] = a[n - Len(b) + i]
        BY <1>1, <1>4, <2>5
    <2> QED
        BY <2>3, <2>4, <2>6 DEF n
<1> QED
    BY <1>1, <1>3, <1>4

\* A buffer that ends before the event n.
TailOf(b, n) ==
    /\ b \in Seq(Event) /\ Len(b) <= BufferSize
    /\ \A i \in DOMAIN b : b[i].seq = n - Len(b) + i

\* The buffer is still the tail when the next event has been appended.
LEMMA NewestTail ==
    ASSUME NEW s \in Stream, BufferTail(s), NEW e \in Event, e.seq = s.next,
           NEW b, b = Newest(Append(s.buffer, e))
    PROVE  TailOf(b, s.next)
<1>1. s.next \in Nat \ {0} /\ s.buffer \in Seq(Event)
    BY DEF Stream
<1>0. PICK m \in Nat \ {0} : m = s.next
    BY <1>1
<1>2. PICK a \in Seq(Event) : a = Append(s.buffer, e)
    BY <1>1, AppendProperties
<1>3. PICK n \in Nat : n = Len(s.buffer)
    BY <1>1, LenProperties
<1>4. Len(a) = n + 1 /\ a[n + 1] = e /\ \A i \in 1..n : a[i] = s.buffer[i]
    BY <1>1, <1>2, <1>3, AppendProperties
<1>5. \A i \in 1..n : s.buffer[i].seq = m - 1 - n + i
    BY <1>0, <1>1, <1>3, LenProperties DEF BufferTail
<1>6. \A i \in 1..(n + 1) : a[i].seq = m - (n + 1) + i
    <2> TAKE i \in 1..(n + 1)
    <2>1. CASE i = n + 1
        BY <1>0, <1>3, <1>4, <2>1
    <2>2. CASE i # n + 1
        <3>1. i \in 1..n
            BY <1>3, <2>2
        <3>2. a[i].seq = m - 1 - n + i
            BY <1>4, <1>5, <3>1
        <3>3. m - 1 - n + i = m - (n + 1) + i
            BY <3>1
        <3> QED
            BY <3>2, <3>3
    <2> QED
        BY <2>1, <2>2
<1>7. b = Newest(a) /\ Len(a) = n + 1
    BY <1>2, <1>4
<1>8. /\ b \in Seq(Event) /\ Len(b) <= BufferSize
      /\ \A i \in 1..Len(b) : n + 1 - Len(b) + i \in 1..(n + 1) /\ b[i] = a[n + 1 - Len(b) + i]
    BY <1>7, NewestKeeps
<1>9. Len(b) \in Nat /\ DOMAIN b = 1..Len(b)
    BY <1>8, LenProperties
<1>10. \A i \in 1..Len(b) : b[i].seq = m - Len(b) + i
    <2> TAKE i \in 1..Len(b)
    <2>1. PICK k \in Nat : k = Len(b)
        BY <1>9
    <2>2. b[i].seq = m - (n + 1) + (n + 1 - k + i)
        BY <1>6, <1>8, <2>1
    <2>3. m - (n + 1) + (n + 1 - k + i) = m - k + i
        BY <2>1
    <2> QED
        BY <2>1, <2>2, <2>3
<1> QED
    BY <1>0, <1>8, <1>9, <1>10 DEF TailOf

\* b holds every event after a cursor that the buffer of s still has.
NoneMissing(s, after, b) ==
    \A x \in Nat : after < x /\ x < s.next /\ Earliest(s) <= x =>
        \E i \in 1..Len(b) : b[i].seq = x

\* The layout of a backlog: at most one notice, n events, stream_ready.
LaidOut(q, s, after, k, n) ==
    /\ q \in Seq(Item) /\ DOMAIN q = 1..(k + n + 1)
    /\ n = Cardinality(Later(s.buffer, after))
    /\ Earliest(s) \in Nat /\ (after < Earliest(s) - 1 => k = 1)
    /\ \A i \in 1..k : q[i].kind = "replay_gap" /\ q[i].seq = Earliest(s)
    /\ \A i \in 1..n : q[k + i] \in Event /\ q[k + i].seq = s.next - 1 - n + i
    /\ q[k + n + 1].kind = "stream_ready"
    /\ \A x \in Nat : after < x /\ x < s.next /\ Earliest(s) <= x =>
           \E i \in 1..n : q[k + i].seq = x

Replays(b, s, after) ==
    /\ b \in Seq(Event)
    /\ Len(b) = Cardinality(Later(s.buffer, after))
    /\ \A i \in 1..Len(b) : b[i].seq = s.next - 1 - Len(b) + i
    /\ NoneMissing(s, after, b)

\* A new subscriber is replayed the end of the buffer.
LEMMA ReplayedTail ==
    ASSUME NEW s \in Stream, BufferTail(s), NEW after \in Nat,
           NEW b, b = Replayed(s.buffer, after)
    PROVE  Replays(b, s, after)
<1>1. s.next \in Nat \ {0} /\ s.buffer \in Seq(Event)
    BY DEF Stream
<1>2. PICK m \in Nat : m = s.next - 1
    BY <1>1
<1>3. PICK n \in Nat : n = Len(s.buffer)
    BY <1>1, LenProperties
<1>4. DOMAIN s.buffer = 1..n /\ \A i \in 1..n : s.buffer[i] \in Event /\ s.buffer[i].seq = m - n + i
    BY <1>1, <1>2, <1>3, LenProperties, ElementOfSeq DEF BufferTail
<1> DEFINE later == Later(s.buffer, after)
<1>5. PICK k \in 0..n : later = (k + 1)..n
    <2>1. later = {i \in 1..n : m - n + i > after}
        BY <1>4 DEF Later
    <2>2. CASE m - n > after
        <3>1. later = (0 + 1)..n /\ 0 \in 0..n
            BY <2>1, <2>2
        <3> QED
            BY <3>1
    <2>3. CASE m - n <= after /\ m <= after
        <3>1. later = (n + 1)..n /\ n \in 0..n
            BY <2>1, <2>3
        <3> QED
            BY <3>1
    <2>4. CASE m - n <= after /\ m > after
        <3>1. after - (m - n) \in 0..n
            BY <1>2, <1>3, <2>4
        <3>2. PICK l \in 0..n : l = after - (m - n)
            BY <3>1
        <3>3. m \in Int /\ n \in Int /\ l \in Int /\ after = m - n + l
            BY <1>2, <1>3, <3>2
        <3>4. ASSUME NEW i \in 1..n PROVE m - n + i > after <=> i >= l + 1
            BY <3>3
        <3>5. later = {i \in 1..n : i >= l + 1}
            BY <2>1, <3>4
        <3>6. {i \in 1..n : i >= l + 1} = (l + 1)..n
            BY <1>3
        <3> QED
            BY <3>5, <3>6
    <2> QED
        BY <1>2, <1>3, <2>2, <2>3, <2>4
<1>6. Cardinality(later) = n - k /\ n - k \in Nat
    <2>1. Cardinality((k + 1)..n) = IF k + 1 > n THEN 0 ELSE n - (k + 1) + 1
        BY FS_Interval
    <2> QED
        BY <1>5, <2>1
<1> DEFINE Before(i) == {j \in later : j < i}
           Nth(x) == CHOOSE i \in later : Cardinality(Before(i)) = x - 1
<1>7. \A i \in later : Cardinality(Before(i)) = i - k - 1
    <2> TAKE i \in later
    <2>1. Before(i) = (k + 1)..(i - 1) /\ i \in (k + 1)..n
        BY <1>5
    <2>2. i \in Int /\ Cardinality((k + 1)..(i - 1)) = IF k + 1 > i - 1 THEN 0 ELSE i - 1 - (k + 1) + 1
        BY <2>1, FS_Interval
    <2>3. i - 1 - (k + 1) + 1 = i - k - 1 /\ (k + 1 > i - 1 => i - k - 1 = 0)
        BY <2>1
    <2> QED
        BY <2>1, <2>2, <2>3
<1>8. b = [x \in 1..(n - k) |-> s.buffer[Nth(x)]]
    BY <1>6 DEF Replayed
<1> HIDE DEF later, Before
<1>9. \A x \in 1..(n - k) : Nth(x) = k + x
    <2> TAKE x \in 1..(n - k)
    <2>1. k + x \in later /\ k + x - k - 1 = x - 1
        BY <1>3, <1>5
    <2>2. Cardinality(Before(k + x)) = x - 1
        BY <1>7, <2>1
    <2>3. \A i \in later : i - k - 1 = x - 1 => i = k + x
        BY <1>3, <1>5
    <2>4. \A i \in later : Cardinality(Before(i)) = x - 1 => i = k + x
        BY <1>7, <2>3
    <2> QED
        BY <2>1, <2>2, <2>4
<1> HIDE DEF Nth
<1>10. /\ DOMAIN b = 1..(n - k)
       /\ \A x \in 1..(n - k) : k + x \in 1..n /\ b[x] = s.buffer[k + x]
    BY <1>3, <1>5, <1>8, <1>9
<1>11. b \in [1..(n - k) -> Event]
    BY <1>4, <1>8, <1>10
<1>12. b \in Seq(Event) /\ Len(b) = n - k
    BY <1>6, <1>11, SeqDef
<1>13. \A i \in 1..(n - k) : b[i].seq = m - (n - k) + i
    <2> TAKE i \in 1..(n - k)
    <2>1. b[i].seq = m - n + (k + i)
        BY <1>4, <1>10
    <2>2. m - n + (k + i) = m - (n - k) + i
        BY <1>2, <1>3, <1>5
    <2> QED
        BY <2>1, <2>2
<1>14. ASSUME NEW x \in Nat, after < x, x < s.next, Earliest(s) <= x
       PROVE  \E i \in 1..(n - k) : b[i].seq = x
    <2>1. x <= m
        BY <1>1, <1>2, <1>14
    <2>2. x - (m - n) \in 1..n
        <3>1. CASE s.buffer = <<>>
            BY <1>14, <3>1, <1>1 DEF Earliest
        <3>2. CASE s.buffer # <<>>
            <4>1. n > 0 /\ Earliest(s) = s.buffer[1].seq
                BY <1>1, <1>3, <3>2, EmptySeq DEF Earliest
            <4>2. s.buffer[1].seq = m - n + 1
                BY <1>4, <4>1
            <4>3. m - n + 1 <= x
                BY <1>14, <4>1, <4>2
            <4> QED
                BY <2>1, <4>3
        <3> QED
            BY <3>1, <3>2
    <2>3. s.buffer[x - (m - n)].seq = x
        <3>1. s.buffer[x - (m - n)].seq = m - n + (x - (m - n))
            BY <1>4, <2>2
        <3> QED
            BY <3>1
    <2>4. x - (m - n) \in (k + 1)..n
        BY <1>4, <1>5, <1>14, <2>2, <2>3 DEF later, Later
    <2>5. x - (m - n) - k \in 1..(n - k) /\ k + (x - (m - n) - k) = x - (m - n)
        BY <2>4
    <2> QED
        BY <1>10, <2>3, <2>5
<1>15. n - k = Len(b)
    BY <1>12
<1>16. NoneMissing(s, after, b)
    BY <1>14, <1>15, Zenon DEF NoneMissing
<1> QED
    BY <1>2, <1>6, <1>12, <1>13, <1>16 DEF later, Replays

\* An event that is published joins the end of a queue.
LEMMA AppendTail ==
    ASSUME NEW q \in Seq(Item), NEW next \in Nat \ {0}, QueueTail(q, next),
           NEW e \in Event, e.seq = next
    PROVE  QueueTail(Append(q, e), next + 1)
<1>1. PICK n \in Nat : n = Len(q)
    BY LenProperties
<1>2. PICK a \in Seq(Item) : a = Append(q, e)
    BY ItemTypes, AppendProperties
<1>3. /\ DOMAIN q = 1..n /\ DOMAIN a = 1..(n + 1)
      /\ a[n + 1] = e /\ \A i \in 1..n : a[i] = q[i]
    <2>1. Len(a) = n + 1 /\ a[n + 1] = e /\ \A i \in 1..n : a[i] = q[i]
        BY <1>1, <1>2, ItemTypes, AppendProperties
    <2> QED
        BY <1>1, <2>1, LenProperties
<1>4. EventsIn(a) = EventsIn(q) \cup {n + 1} /\ EventsIn(q) \subseteq 1..n
    BY <1>3 DEF EventsIn, Event
<1>5. SUFFICES ASSUME NEW i \in EventsIn(a)
               PROVE  a[i].seq + Cardinality({j \in EventsIn(a) : j > i}) = next + 1 - 1
    <2>1. QueueTail(a, next + 1)
        BY <1>5 DEF QueueTail
    <2> QED
        BY <1>2, <2>1
<1>6. CASE i = n + 1
    <2>1. {j \in EventsIn(a) : j > i} = {}
        BY <1>4, <1>6
    <2> QED
        BY <1>3, <1>6, <2>1, FS_EmptySet, next + 0 = next + 1 - 1
<1>7. CASE i \in EventsIn(q)
    <2> DEFINE later == {j \in EventsIn(q) : j > i}
    <2>1. {j \in EventsIn(a) : j > i} = later \cup {n + 1} /\ n + 1 \notin later
        BY <1>4, <1>7
    <2>2. IsFiniteSet(later)
        <3>1. IsFiniteSet(1..n)
            BY FS_Interval
        <3> QED
            BY <1>4, <3>1, FS_Subset
    <2>3. Cardinality(later) \in Nat /\ Cardinality(later \cup {n + 1}) = Cardinality(later) + 1
        BY <2>1, <2>2, FS_AddElement, FS_CardinalityType
    <2>4. q[i].seq + Cardinality(later) = next - 1 /\ a[i] = q[i]
        BY <1>3, <1>4, <1>7 DEF QueueTail
    <2>5. q[i].seq \in Nat
        BY <1>3, <1>4, <1>7, ElementOfSeq, <1>1 DEF Item, Event
    <2> HIDE DEF later
    <2>6. q[i].seq + (Cardinality(later) + 1) = next + 1 - 1
        BY <2>3, <2>4, <2>5
    <2> QED
        BY <2>1, <2>3, <2>4, <2>6
<1> QED
    BY <1>4, <1>6, <1>7

\* and the first one leaves it.
LEMMA TailTail ==
    ASSUME NEW q \in Seq(Item), q # <<>>, NEW next \in Nat, QueueTail(q, next)
    PROVE  QueueTail(Tail(q), next)
<1>1. PICK n \in Nat : n + 1 = Len(q)
    BY EmptySeq
<1>2. PICK t \in Seq(Item) : t = Tail(q)
    BY HeadTailProperties
<1>3. DOMAIN q = 1..(n + 1) /\ DOMAIN t = 1..n /\ \A i \in 1..n : t[i] = q[i + 1]
    <2>1. Len(t) = n /\ \A i \in 1..Len(t) : t[i] = q[i + 1]
        BY <1>1, <1>2, HeadTailProperties
    <2> QED
        BY <1>1, <2>1, LenProperties
<1>4. /\ EventsIn(t) \subseteq 1..n /\ EventsIn(q) \subseteq 1..(n + 1)
      /\ \A i \in 1..n : i \in EventsIn(t) <=> i + 1 \in EventsIn(q)
    BY <1>3 DEF EventsIn
<1>5. SUFFICES ASSUME NEW i \in EventsIn(t)
               PROVE  t[i].seq + Cardinality({j \in EventsIn(t) : j > i}) = next - 1
    BY <1>2 DEF QueueTail
<1> DEFINE A == {j \in EventsIn(t) : j > i}
           B == {j \in EventsIn(q) : j > i + 1}
           f == [j \in A |-> j + 1]
<1>6. f \in Bijection(A, B)
    <2>1. \A j \in A : j + 1 \in B
        BY <1>4
    <2>2. \A j \in B : j - 1 \in A /\ (j - 1) + 1 = j
        BY <1>4
    <2>3. f \in [A -> B]
        BY <2>1
    <2>4. \A a, b \in A : f[a] = f[b] => a = b
        BY <1>4
    <2>5. \A b \in B : \E a \in A : f[a] = b
        BY <2>2
    <2> QED
        BY <2>3, <2>4, <2>5, Fun_IsBij
<1>7. IsFiniteSet(A)
    <2>1. IsFiniteSet(1..n)
        BY FS_Interval
    <2> QED
        BY <1>4, <2>1, FS_Subset
<1>8. Cardinality(B) = Cardinality(A)
    <2>1. ExistsBijection(A, B)
        BY <1>6 DEF ExistsBijection
    <2> QED
        BY <1>7, <2>1, FS_Bijection
<1>9. q[i + 1].seq + Cardinality(B) = next - 1 /\ t[i] = q[i + 1]
    BY <1>3, <1>4 DEF QueueTail
<1> QED
    BY <1>8, <1>9

\* What a new subscriber finds: a notice if its cursor is older than the buffer, every
\* event of the buffer after its cursor, and stream_ready.
LEMMA BacklogShape ==
    ASSUME NEW s \in Stream, BufferTail(s), NEW after \in Nat, NEW q, q = Backlog(s, after)
    PROVE  \E k \in {0, 1}, n \in Nat : LaidOut(q, s, after, k, n)
<1>1. s.next \in Nat \ {0} /\ s.buffer \in Seq(Event)
    BY DEF Stream
<1>2. PICK b : b = Replayed(s.buffer, after)
    OBVIOUS
<1>3. /\ b \in Seq(Event)
      /\ Len(b) = Cardinality(Later(s.buffer, after))
      /\ \A i \in 1..Len(b) : b[i].seq = s.next - 1 - Len(b) + i
      /\ NoneMissing(s, after, b)
    <2>1. Replays(b, s, after)
        BY <1>2, ReplayedTail
    <2> QED
        BY <2>1 DEF Replays
<1>4. PICK n \in Nat : n = Len(b)
    BY <1>3, LenProperties
<1>6. \A i \in 1..n : b[i] \in Event /\ b[i].seq = s.next - 1 - n + i
    BY <1>3, <1>4, ElementOfSeq
<1>7. Earliest(s) \in Nat
    <2>1. CASE s.buffer = <<>>
        BY <1>1, <2>1 DEF Earliest
    <2>2. CASE s.buffer # <<>>
        <3>1. 1 \in 1..Len(s.buffer)
            BY <1>1, <2>2, EmptySeq
        <3>2. s.buffer[1] \in Event
            BY <1>1, <3>1, ElementOfSeq
        <3> QED
            BY <2>2, <3>2 DEF Earliest, Event
    <2> QED
        BY <2>1, <2>2
<1> DEFINE notice == [kind |-> "replay_gap", seq |-> Earliest(s)]
           ready == [kind |-> "stream_ready", seq |-> s.next - 1]
<1>8. /\ notice \in Item /\ notice.kind = "replay_gap" /\ notice.seq = Earliest(s)
      /\ ready \in Item /\ ready.kind = "stream_ready"
    BY <1>1, <1>7 DEF Item
<1>9. PICK g \in Seq(Item) : /\ g = IF after < Earliest(s) - 1 THEN <<notice>> ELSE <<>>
                             /\ Len(g) \in {0, 1}
                             /\ (after < Earliest(s) - 1 => Len(g) = 1)
                             /\ \A i \in 1..Len(g) : g[i].kind = "replay_gap" /\ g[i].seq = Earliest(s)
    <2> HIDE DEF notice
    <2>1. <<notice>> \in Seq(Item) /\ Len(<<notice>>) = 1 /\ <<notice>>[1] = notice
        BY <1>8
    <2>2. <<>> \in Seq(Item) /\ Len(<<>>) = 0
        BY EmptySeq
    <2> QED
        BY <1>8, <2>1, <2>2, \A i \in 1..1 : i = 1, \A i \in 1..0 : FALSE
<1>10. PICK r \in Seq(Item) : r = Ready(s) /\ Len(r) = 1 /\ r[1].kind = "stream_ready"
    <2>1. Ready(s) = <<ready>>
        BY DEF Ready
    <2> HIDE DEF ready
    <2>2. <<ready>> \in Seq(Item) /\ Len(<<ready>>) = 1 /\ <<ready>>[1] = ready
        BY <1>8
    <2> QED
        BY <1>8, <2>1, <2>2
<1>11. q = g \o b \o r
    BY <1>2, <1>9, <1>10 DEF Backlog
<1> HIDE DEF notice, ready
<1>12. b \in Seq(Item)
    BY <1>3, ItemTypes, SeqMonotonic
<1>13. PICK k \in {0, 1} : k = Len(g)
    BY <1>9
<1>14. /\ q \in Seq(Item) /\ DOMAIN q = 1..(k + n + 1)
       /\ \A i \in 1..k : q[i] = g[i]
       /\ \A i \in 1..n : q[k + i] = b[i]
       /\ q[k + n + 1] = r[1]
    <2>1. PICK h \in Seq(Item) : h = g \o b
        BY <1>12, ConcatProperties
    <2>2. Len(h) = k + n /\ \A i \in 1..(k + n) : h[i] = IF i <= k THEN g[i] ELSE b[i - k]
        BY <1>4, <1>12, <1>13, <2>1, ConcatProperties
    <2>3. /\ q \in Seq(Item) /\ Len(q) = k + n + 1
          /\ \A i \in 1..(k + n + 1) : q[i] = IF i <= k + n THEN h[i] ELSE r[i - (k + n)]
        <3>1. /\ h \o r \in Seq(Item) /\ Len(h \o r) = Len(h) + Len(r)
              /\ \A i \in 1..(Len(h) + Len(r)) :
                    (h \o r)[i] = IF i <= Len(h) THEN h[i] ELSE r[i - Len(h)]
            BY ConcatProperties
        <3> QED
            BY <1>10, <1>11, <2>1, <2>2, <3>1
    <2>4. DOMAIN q = 1..(k + n + 1)
        BY <2>3, LenProperties
    <2>5. \A i \in 1..k : q[i] = g[i]
        <3>1. \A i \in 1..k : i \in 1..(k + n) /\ i \in 1..(k + n + 1) /\ i <= k /\ i <= k + n
            OBVIOUS
        <3> QED
            BY <2>2, <2>3, <3>1
    <2>6. \A i \in 1..n : q[k + i] = b[i]
        <3>1. \A i \in 1..n : /\ k + i \in 1..(k + n) /\ k + i \in 1..(k + n + 1)
                              /\ ~(k + i <= k) /\ k + i <= k + n /\ (k + i) - k = i
            OBVIOUS
        <3> QED
            BY <2>2, <2>3, <3>1
    <2>7. q[k + n + 1] = r[1]
        <3>1. /\ k + n + 1 \in 1..(k + n + 1) /\ ~(k + n + 1 <= k + n)
              /\ (k + n + 1) - (k + n) = 1
            OBVIOUS
        <3> QED
            BY <2>3, <3>1
    <2> QED
        BY <2>3, <2>4, <2>5, <2>6, <2>7
<1>15. \A i \in 1..k : q[i].kind = "replay_gap" /\ q[i].seq = Earliest(s)
    BY <1>9, <1>13, <1>14
<1>16. \A i \in 1..n : q[k + i] \in Event /\ q[k + i].seq = s.next - 1 - n + i
    BY <1>6, <1>14
<1>17. \A x \in Nat : after < x /\ x < s.next /\ Earliest(s) <= x =>
           \E i \in 1..n : q[k + i].seq = x
    BY <1>3, <1>4, <1>14, ZenonT(30) DEF NoneMissing
<1>18. n = Cardinality(Later(s.buffer, after)) /\ (after < Earliest(s) - 1 => k = 1)
    BY <1>3, <1>4, <1>9, <1>13
<1>19. q[k + n + 1].kind = "stream_ready"
    BY <1>10, <1>14
<1>20. LaidOut(q, s, after, k, n)
    BY <1>7, <1>14, <1>15, <1>16, <1>17, <1>18, <1>19, Zenon DEF LaidOut
<1> QED
    BY <1>20

\* A backlog ends with the newest event, behind which comes stream_ready.
LEMMA BacklogTail ==
    ASSUME NEW s \in Stream, BufferTail(s), NEW after \in Nat
    PROVE  /\ Backlog(s, after) \in Seq(Item)
           /\ QueueTail(Backlog(s, after), s.next)
           /\ Len(Backlog(s, after)) <= Cardinality(Later(s.buffer, after)) + 3
<1>1. PICK q : q = Backlog(s, after)
    OBVIOUS
<1>2. PICK m \in Nat : m = s.next - 1
    BY DEF Stream
<1>3. PICK k \in {0, 1}, n \in Nat :
          /\ q \in Seq(Item) /\ DOMAIN q = 1..(k + n + 1)
          /\ n = Cardinality(Later(s.buffer, after))
          /\ \A i \in 1..k : q[i].kind = "replay_gap"
          /\ \A i \in 1..n : q[k + i] \in Event /\ q[k + i].seq = m - n + i
          /\ q[k + n + 1].kind = "stream_ready"
    <2>1. PICK k \in {0, 1}, n \in Nat : LaidOut(q, s, after, k, n)
        BY <1>1, BacklogShape
    <2>2. /\ q \in Seq(Item) /\ DOMAIN q = 1..(k + n + 1)
          /\ n = Cardinality(Later(s.buffer, after))
          /\ \A i \in 1..k : q[i].kind = "replay_gap"
          /\ q[k + n + 1].kind = "stream_ready"
        BY <2>1, Zenon DEF LaidOut
    <2>3. \A i \in 1..n : q[k + i] \in Event /\ q[k + i].seq = m - n + i
        BY <1>2, <2>1 DEF LaidOut
    <2> QED
        BY <2>2, <2>3
<1>4. DOMAIN q = 1..(k + n + 1) /\ q \in Seq(Item)
    BY <1>3
<1>5. EventsIn(q) = (k + 1)..(k + n)
    <2>1. \A i \in 1..k : q[i].kind \notin EventKinds
        BY <1>3 DEF EventKinds, TerminalKinds
    <2>2. q[k + n + 1].kind \notin EventKinds
        BY <1>3 DEF EventKinds, TerminalKinds
    <2>3. \A i \in 1..n : q[k + i].kind \in EventKinds
        BY <1>3 DEF Event
    <2>4. \A i \in (k + 1)..(k + n) : i - k \in 1..n /\ k + (i - k) = i
        OBVIOUS
    <2>5. \A i \in (k + 1)..(k + n) : q[i].kind \in EventKinds
        BY <2>3, <2>4
    <2>6. \A i \in 1..(k + n + 1) : i \in 1..k \/ i \in (k + 1)..(k + n) \/ i = k + n + 1
        OBVIOUS
    <2>7. \A i \in (k + 1)..(k + n) : i \in 1..(k + n + 1)
        OBVIOUS
    <2> QED
        BY <1>4, <2>1, <2>2, <2>5, <2>6, <2>7 DEF EventsIn
<1>6. QueueTail(q, s.next)
    <2> SUFFICES ASSUME NEW i \in (k + 1)..(k + n)
                 PROVE  q[i].seq + Cardinality({j \in (k + 1)..(k + n) : j > i}) = s.next - 1
        BY <1>5 DEF QueueTail
    <2>1. {j \in (k + 1)..(k + n) : j > i} = (i + 1)..(k + n)
        OBVIOUS
    <2>2. Cardinality((i + 1)..(k + n)) = k + n - i
        <3>1. Cardinality((i + 1)..(k + n)) = IF i + 1 > k + n THEN 0 ELSE k + n - (i + 1) + 1
            BY FS_Interval
        <3> QED
            BY <3>1
    <2>3. i - k \in 1..n /\ k + (i - k) = i
        OBVIOUS
    <2>5. q[i].seq = m - n + (i - k)
        BY <1>3, <2>3
    <2>6. m - n + (i - k) + (k + n - i) = m
        OBVIOUS
    <2> QED
        BY <1>2, <2>1, <2>2, <2>5, <2>6
<1>7. Len(q) = k + n + 1
    BY <1>4, LenProperties
<1>8. Len(q) <= n + 3
    BY <1>7
<1> QED
    BY <1>1, <1>3, <1>6, <1>8

-----------------------------------------------------------------------------
(***************************************************************************)
(* The invariant is inductive: one lemma for each operation.               *)
(***************************************************************************)
LEMMA BrokerInitially == BrokerInit => BrokerInvariant
<1> SUFFICES ASSUME BrokerInit PROVE BrokerInvariant
    OBVIOUS
<1>1. queue \in [Sub -> Seq(Item)] /\ room \in [Sub -> Nat] /\ \A c \in Sub : Len(queue[c]) = 0
    BY EmptySeq DEF BrokerInit
<1>2. DOMAIN streams = {}
    BY DEF BrokerInit
<1>3. Tidy(streams, queue)
    BY <1>2 DEF Tidy
<1>4. QueuesFit
    BY <1>1, <1>2 DEF QueuesFit, BrokerInit
<1> QED
    BY <1>1, <1>3, <1>4 DEF BrokerInvariant

LEMMA EnsureStreamKeeps ==
    ASSUME BrokerInvariant, NEW r \in Run, EnsureStream(r)
    PROVE  BrokerInvariant'
<1>1. streams' = Ensured(r) /\ queue' = queue /\ room' = room
    BY DEF EnsureStream
<1>2. Tidy(Ensured(r), queue)
    BY EnsuredTidy DEF BrokerInvariant
<1>3. Tidy(streams', queue')
    BY <1>1, <1>2
<1>4. QueuesFit'
    <2>1. \A c \in Sub : \A x \in DOMAIN streams' : c \in streams'[x].subscribers => room[c] > 0
        BY <1>1, EnsuredTidy DEF BrokerInvariant, QueuesFit
    <2> QED
        BY <1>1, <2>1 DEF BrokerInvariant, QueuesFit
<1> QED
    BY <1>1, <1>3, <1>4 DEF BrokerInvariant

LEMMA PublishKeeps ==
    ASSUME BrokerInvariant, NEW r \in Run, NEW kind \in EventKinds, Publish(r, kind)
    PROVE  BrokerInvariant'
<1>1. PICK e : e = Ensured(r)
    OBVIOUS
<1>2. /\ Tidy(e, queue) /\ r \in DOMAIN e
      /\ \A c \in Sub : \A x \in DOMAIN e : c \in e[x].subscribers => room[c] > 0
    BY <1>1, EnsuredTidy DEF BrokerInvariant, QueuesFit
<1>3. PICK s \in Stream : s = e[r]
    BY <1>2 DEF Tidy
<1> DEFINE item == [kind |-> kind, seq |-> s.next]
           full == {c \in s.subscribers : Len(queue[c]) >= room[c]}
           last == IF kind \in TerminalKinds THEN s.next ELSE s.terminal
<1>4. CASE kind \in TerminalKinds /\ s.terminal # 0
    <2>1. EnsureStream(r)
        BY <1>1, <1>3, <1>4 DEF Publish
    <2> QED
        BY <2>1, EnsureStreamKeeps
<1>5. CASE ~(kind \in TerminalKinds /\ s.terminal # 0)
    <2>1. /\ streams' = [e EXCEPT ![r].next = @ + 1,
                                  ![r].buffer = Newest(Append(@, item)),
                                  ![r].terminal = IF kind \in TerminalKinds THEN s.next ELSE @,
                                  ![r].subscribers = @ \ full]
          /\ queue' = [c \in Sub |->
                          IF c \in full THEN <<CloseItem>>
                          ELSE IF c \in s.subscribers THEN Append(queue[c], item) ELSE queue[c]]
          /\ room' = room
        BY <1>1, <1>3, <1>5 DEF Publish
    <2>2. item \in Event /\ item.seq = s.next /\ s.next \in Nat \ {0} /\ s.subscribers \subseteq Sub
        BY DEF Event, Stream
    <2>3. PICK b : b = Newest(Append(s.buffer, item))
        OBVIOUS
    <2>4. DOMAIN streams' = DOMAIN e /\ \A x \in DOMAIN e : x # r => streams'[x] = e[x]
        BY <2>1
    <2>5. streams'[r] = [s EXCEPT !.next = s.next + 1, !.buffer = b,
                                  !.terminal = last, !.subscribers = s.subscribers \ full]
        BY <1>2, <1>3, <2>1, <2>3 DEF Stream
    <2> HIDE DEF item, full
    <2>6. PICK t : t = streams'[r]
        OBVIOUS
    <2>7. /\ t.next = s.next + 1 /\ t.buffer = b /\ t.subscribers = s.subscribers \ full
          /\ t.terminal = last /\ t.aged = s.aged
          /\ t = [next |-> t.next, buffer |-> t.buffer, terminal |-> t.terminal,
                  aged |-> t.aged, subscribers |-> t.subscribers]
        <3>1. s = [next |-> s.next, buffer |-> s.buffer, terminal |-> s.terminal,
                   aged |-> s.aged, subscribers |-> s.subscribers]
            BY DEF Stream
        <3> HIDE DEF last
        <3>2. t = [next |-> s.next + 1, buffer |-> b, terminal |-> last,
                   aged |-> s.aged, subscribers |-> s.subscribers \ full]
            BY <2>5, <2>6, <3>1
        <3> QED
            BY <3>2
    <2>8. BufferTail(s)
        BY <1>2, <1>3 DEF Tidy
    <2>9. b \in Seq(Event) /\ Len(b) <= BufferSize /\ \A i \in DOMAIN b : b[i].seq = s.next - Len(b) + i
        <3>1. TailOf(b, s.next)
            BY <2>2, <2>3, <2>8, NewestTail
        <3> QED
            BY <3>1 DEF TailOf
    <2>10. t \in Stream
        <3>1. last \in Nat
            BY <2>2 DEF Stream
        <3> QED
            BY <2>2, <2>7, <2>9, <3>1 DEF Stream
    <2>11. BufferTail(t)
        <3>1. PICK n \in Nat : n = s.next /\ t.next = n + 1
            BY <2>2, <2>7
        <3>2. \A i \in DOMAIN b : Len(b) \in Nat /\ i \in Nat /\ b[i].seq = n - Len(b) + i
            BY <2>9, <3>1, LenProperties
        <3>3. \A k, i \in Nat : n - k + i = n + 1 - 1 - k + i
            OBVIOUS
        <3>4. \A i \in DOMAIN b : b[i].seq = n + 1 - 1 - Len(b) + i
            BY <3>2, <3>3
        <3> QED
            BY <2>7, <2>9, <3>1, <3>4 DEF BufferTail
    <2>12. \A c \in s.subscribers \ full :
              /\ QueueTail(queue'[c], t.next)
              /\ \A x \in DOMAIN e : c \in e[x].subscribers => x = r
        <3> TAKE c \in s.subscribers \ full
        <3>1. queue'[c] = Append(queue[c], item) /\ queue[c] \in Seq(Item) /\ QueueTail(queue[c], s.next)
            BY <1>2, <1>3, <2>1, <2>2 DEF Tidy, BrokerInvariant
        <3>2. QueueTail(queue'[c], s.next + 1)
            BY <2>2, <3>1, AppendTail
        <3> QED
            BY <1>2, <1>3, <2>7, <3>2 DEF Tidy
    <2>13. \A x \in DOMAIN e : x # r =>
              /\ e[x] \in Stream /\ BufferTail(e[x])
              /\ \A c \in e[x].subscribers :
                    /\ queue'[c] = queue[c] /\ QueueTail(queue[c], e[x].next)
                    /\ \A y \in DOMAIN e : c \in e[y].subscribers => y = x
        <3> SUFFICES ASSUME NEW x \in DOMAIN e, x # r
                     PROVE  /\ e[x] \in Stream /\ BufferTail(e[x])
                            /\ \A c \in e[x].subscribers :
                                 /\ queue'[c] = queue[c] /\ QueueTail(queue[c], e[x].next)
                                 /\ \A y \in DOMAIN e : c \in e[y].subscribers => y = x
            OBVIOUS
        <3>1. e[x] \in Stream /\ BufferTail(e[x])
            BY <1>2 DEF Tidy
        <3>2. \A c \in e[x].subscribers :
                 /\ QueueTail(queue[c], e[x].next)
                 /\ \A y \in DOMAIN e : c \in e[y].subscribers => y = x
            BY <1>2 DEF Tidy
        <3>3. \A c \in e[x].subscribers : c \in Sub /\ c \notin s.subscribers
            BY <1>2, <1>3, <3>1, <3>2 DEF Stream
        <3>4. \A c \in e[x].subscribers : queue'[c] = queue[c]
            BY <2>1, <3>3 DEF full
        <3> QED
            BY <3>1, <3>2, <3>4
    <2>14. Tidy(streams', queue')
        <3>1. \A x \in DOMAIN streams' : \A c : c \in streams'[x].subscribers => c \in e[x].subscribers
            BY <1>3, <2>4, <2>6, <2>7
        <3>2. \A x \in DOMAIN streams' : x # r =>
                 /\ streams'[x] \in Stream /\ BufferTail(streams'[x])
                 /\ \A c \in streams'[x].subscribers :
                        /\ QueueTail(queue'[c], streams'[x].next)
                        /\ \A y \in DOMAIN streams' : c \in streams'[y].subscribers => y = x
            BY <2>4, <2>13, <3>1
        <3>3. /\ streams'[r] \in Stream /\ BufferTail(streams'[r])
              /\ \A c \in streams'[r].subscribers :
                     /\ QueueTail(queue'[c], streams'[r].next)
                     /\ \A y \in DOMAIN streams' : c \in streams'[y].subscribers => y = r
            BY <2>4, <2>6, <2>7, <2>10, <2>11, <2>12, <3>1
        <3>4. DOMAIN streams' \subseteq Run
            BY <1>2, <2>4 DEF Tidy
        <3> QED
            BY <3>2, <3>3, <3>4 DEF Tidy
    <2>15. \A c \in Sub : queue'[c] \in Seq(Item) /\ Len(queue'[c]) <= room[c]
        <3> TAKE c \in Sub
        <3>1. queue[c] \in Seq(Item) /\ room[c] \in Nat /\ Len(queue[c]) <= room[c] /\ Len(queue[c]) \in Nat
            BY LenProperties DEF BrokerInvariant, QueuesFit
        <3>2. CASE c \in full
            <4>1. queue'[c] = <<CloseItem>> /\ room[c] > 0
                BY <1>2, <1>3, <2>1, <3>2 DEF full
            <4> QED
                BY <3>1, <4>1, ItemTypes
        <3>3. CASE c \in s.subscribers /\ c \notin full
            <4>1. queue'[c] = Append(queue[c], item) /\ ~(Len(queue[c]) >= room[c])
                BY <2>1, <3>3 DEF full
            <4>2. Append(queue[c], item) \in Seq(Item) /\ Len(Append(queue[c], item)) = Len(queue[c]) + 1
                BY <2>2, <3>1, ItemTypes, AppendProperties
            <4> QED
                BY <3>1, <4>1, <4>2
        <3>4. CASE c \notin s.subscribers
            BY <2>1, <3>1, <3>4 DEF full
        <3> QED
            BY <3>2, <3>3, <3>4
    <2>16. QueuesFit'
        <3>1. \A c \in Sub : \A x \in DOMAIN streams' : c \in streams'[x].subscribers => room[c] > 0
            BY <1>2, <1>3, <2>4, <2>6, <2>7
        <3> QED
            BY <2>1, <2>15, <3>1 DEF QueuesFit
    <2>17. queue' \in [Sub -> Seq(Item)] /\ room' \in [Sub -> Nat]
        BY <2>1, <2>15 DEF BrokerInvariant
    <2> QED
        BY <2>14, <2>16, <2>17 DEF BrokerInvariant
<1> QED
    BY <1>4, <1>5

LEMMA SubscribeKeeps ==
    ASSUME BrokerInvariant, NEW r \in Run, NEW c \in Sub, NEW after \in Nat,
           ~Subscribed(c), Subscribe(c, r, after)
    PROVE  BrokerInvariant'
<1>1. PICK e : e = Ensured(r)
    OBVIOUS
<1>2. /\ Tidy(e, queue) /\ r \in DOMAIN e
      /\ \A d \in Sub : \A x \in DOMAIN e :
            d \in e[x].subscribers => x \in DOMAIN streams /\ d \in streams[x].subscribers
    BY <1>1, EnsuredTidy DEF BrokerInvariant
<1>3. PICK s \in Stream : s = e[r]
    BY <1>2 DEF Tidy
<1>4. /\ streams' = [e EXCEPT ![r].subscribers = @ \cup {c}]
      /\ queue' = [queue EXCEPT ![c] = Backlog(s, after)]
      /\ room' = [room EXCEPT ![c] = Larger(QueueSize, Cardinality(Later(s.buffer, after)) + 3)]
    BY <1>1, <1>3 DEF Subscribe
<1>5. \A x \in DOMAIN e : c \notin e[x].subscribers
    BY <1>2 DEF Subscribed
<1>6. BufferTail(s)
    BY <1>2, <1>3 DEF Tidy
<1>7. PICK q \in Seq(Item) :
          /\ q = Backlog(s, after) /\ QueueTail(q, s.next)
          /\ Len(q) <= Cardinality(Later(s.buffer, after)) + 3
    BY <1>6, BacklogTail
<1>8. /\ queue' \in [Sub -> Seq(Item)] /\ queue'[c] = q
      /\ \A d \in Sub : d # c => queue'[d] = queue[d]
    BY <1>4, <1>7 DEF BrokerInvariant
<1>9. PICK n \in Nat : n = Cardinality(Later(s.buffer, after))
    BY <1>6, ReplayedTail, LenProperties DEF Replays
<1>10. PICK m \in Nat : m = Larger(QueueSize, n + 3) /\ m >= n + 3
    BY BrokerAssumption DEF Larger
<1>11. /\ room' \in [Sub -> Nat] /\ room'[c] = m
       /\ \A d \in Sub : d # c => room'[d] = room[d]
    BY <1>4, <1>9, <1>10 DEF BrokerInvariant
<1>12. /\ DOMAIN streams' = DOMAIN e
       /\ \A x \in DOMAIN e : x # r => streams'[x] = e[x]
       /\ streams'[r] = [s EXCEPT !.subscribers = s.subscribers \cup {c}]
    BY <1>2, <1>3, <1>4
<1>13. PICK t : t = streams'[r]
    OBVIOUS
<1>14. /\ t \in Stream /\ t.next = s.next /\ t.buffer = s.buffer
       /\ t.subscribers = s.subscribers \cup {c}
    BY <1>12, <1>13 DEF Stream
<1>15. BufferTail(t)
    BY <1>6, <1>14 DEF BufferTail
<1>16. \A x \in DOMAIN e : \A d \in e[x].subscribers : d \in Sub /\ d # c
    BY <1>2, <1>5 DEF Tidy, Stream
<1>17. \A x \in DOMAIN e :
          /\ \A d \in e[x].subscribers : d \in streams'[x].subscribers
          /\ \A d \in streams'[x].subscribers : d \in e[x].subscribers \/ (d = c /\ x = r)
    BY <1>3, <1>12, <1>13, <1>14
<1>18. \A x \in DOMAIN e : \A d \in streams'[x].subscribers :
          \A y \in DOMAIN e : d \in streams'[y].subscribers => y = x
    BY <1>2, <1>5, <1>17 DEF Tidy
<1>19. \A x \in DOMAIN e : streams'[x] \in Stream /\ BufferTail(streams'[x])
    BY <1>2, <1>12, <1>13, <1>14, <1>15 DEF Tidy
<1>20. \A x \in DOMAIN e : \A d \in streams'[x].subscribers : QueueTail(queue'[d], streams'[x].next)
    <2>1. \A x \in DOMAIN e : streams'[x].next = e[x].next
        BY <1>3, <1>12, <1>13, <1>14
    <2>2. \A x \in DOMAIN e : \A d \in e[x].subscribers : QueueTail(queue'[d], e[x].next)
        BY <1>2, <1>8, <1>16 DEF Tidy
    <2>3. QueueTail(queue'[c], e[r].next)
        BY <1>3, <1>7, <1>8
    <2> QED
        BY <1>17, <2>1, <2>2, <2>3
<1>21. Tidy(streams', queue')
    <2>1. DOMAIN e \subseteq Run
        BY <1>2 DEF Tidy
    <2> QED
        BY <1>12, <1>18, <1>19, <1>20, <2>1 DEF Tidy
<1>22. QueuesFit'
    <2>1. \A d \in Sub : Len(queue'[d]) <= room'[d]
        <3> TAKE d \in Sub
        <3>1. CASE d = c
            BY <3>1, <1>7, <1>8, <1>9, <1>10, <1>11, LenProperties
        <3>2. CASE d # c
            BY <3>2, <1>8, <1>11 DEF BrokerInvariant, QueuesFit
        <3> QED
            BY <3>1, <3>2
    <2>2. \A d \in Sub : \A x \in DOMAIN streams' : d \in streams'[x].subscribers => room'[d] > 0
        <3> SUFFICES ASSUME NEW d \in Sub, NEW x \in DOMAIN e, d \in streams'[x].subscribers
                     PROVE  room'[d] > 0
            BY <1>12
        <3>1. CASE d = c
            BY <3>1, <1>10, <1>11
        <3>2. CASE d # c
            BY <3>2, <1>2, <1>11, <1>17 DEF BrokerInvariant, QueuesFit
        <3> QED
            BY <3>1, <3>2
    <2> QED
        BY <2>1, <2>2 DEF QueuesFit
<1> QED
    BY <1>8, <1>11, <1>21, <1>22 DEF BrokerInvariant

\* The tail of a stream is its buffer and its counter alone.
LEMMA SameBuffer ==
    ASSUME NEW s, NEW t, t.next = s.next, t.buffer = s.buffer, BufferTail(s)
    PROVE  BufferTail(t)
BY DEF BufferTail

LEMMA UnsubscribeKeeps ==
    ASSUME BrokerInvariant, NEW r \in Run, NEW c \in Sub, OnlyIn(c, r), Unsubscribe(c, r)
    PROVE  BrokerInvariant'
<1>0. \A x \in DOMAIN streams : x # r => c \notin streams[x].subscribers
    BY DEF OnlyIn
<1>1. /\ DOMAIN streams' = DOMAIN streams
      /\ \A x \in DOMAIN streams : streams[x] \in Stream
      /\ \A x \in DOMAIN streams :
            streams'[x] = IF x = r THEN [streams[x] EXCEPT !.subscribers = @ \ {c}] ELSE streams[x]
    BY DEF Unsubscribe, BrokerInvariant, Tidy
<1>2. \A x \in DOMAIN streams :
          /\ streams'[x] \in Stream
          /\ streams'[x].next = streams[x].next /\ streams'[x].buffer = streams[x].buffer
          /\ \A d \in streams'[x].subscribers : d \in streams[x].subscribers /\ d # c
    <2> TAKE x \in DOMAIN streams
    <2>1. CASE x = r
        BY <1>1, <2>1 DEF Stream
    <2>2. CASE x # r
        BY <1>0, <1>1, <2>2
    <2> QED
        BY <2>1, <2>2
<1>3. /\ queue' = [queue EXCEPT ![c] = <<>>] /\ room' = [room EXCEPT ![c] = 0]
    BY DEF Unsubscribe
<1>4. /\ queue' \in [Sub -> Seq(Item)] /\ room' \in [Sub -> Nat]
      /\ queue'[c] = <<>> /\ room'[c] = 0
      /\ \A d \in Sub : d # c => queue'[d] = queue[d] /\ room'[d] = room[d]
    BY <1>3, EmptySeq DEF BrokerInvariant
<1>5. \A x \in DOMAIN streams : streams[x].subscribers \subseteq Sub
    BY <1>1 DEF Stream
<1>6. Tidy(streams', queue')
    <2>1. \A x \in DOMAIN streams : BufferTail(streams'[x])
        <3> TAKE x \in DOMAIN streams
        <3>1. BufferTail(streams[x])
            BY DEF BrokerInvariant, Tidy
        <3>2. streams'[x].next = streams[x].next /\ streams'[x].buffer = streams[x].buffer
            BY <1>2
        <3> QED
            BY <3>1, <3>2, SameBuffer
    <2>2. \A x \in DOMAIN streams : \A d \in streams'[x].subscribers :
              /\ QueueTail(queue'[d], streams'[x].next)
              /\ \A y \in DOMAIN streams : d \in streams'[y].subscribers => y = x
        BY <1>2, <1>4, <1>5 DEF BrokerInvariant, Tidy
    <2> QED
        BY <1>1, <1>2, <2>1, <2>2 DEF BrokerInvariant, Tidy
<1>7. QueuesFit'
    <2>1. \A d \in Sub : Len(queue'[d]) <= room'[d]
        <3> TAKE d \in Sub
        <3>1. CASE d = c
            BY <1>4, <3>1, EmptySeq
        <3>2. CASE d # c
            BY <1>4, <3>2 DEF BrokerInvariant, QueuesFit
        <3> QED
            BY <3>1, <3>2
    <2>2. \A d \in Sub : \A x \in DOMAIN streams' : d \in streams'[x].subscribers => room'[d] > 0
        BY <1>1, <1>2, <1>4 DEF BrokerInvariant, QueuesFit
    <2> QED
        BY <2>1, <2>2 DEF QueuesFit
<1> QED
    BY <1>4, <1>6, <1>7 DEF BrokerInvariant

LEMMA TakeKeeps ==
    ASSUME BrokerInvariant, NEW c \in Sub, Take(c)
    PROVE  BrokerInvariant'
<1>1. queue[c] \in Seq(Item) /\ queue[c] # <<>>
    BY DEF Take, BrokerInvariant
<1>2. /\ queue' = [queue EXCEPT ![c] = Tail(queue[c])] /\ streams' = streams /\ room' = room
    BY DEF Take
<1>3. /\ Tail(queue[c]) \in Seq(Item) /\ Len(Tail(queue[c])) = Len(queue[c]) - 1
      /\ Len(queue[c]) \in Nat
    BY <1>1, HeadTailProperties, LenProperties
<1>4. /\ queue' \in [Sub -> Seq(Item)] /\ queue'[c] = Tail(queue[c])
      /\ \A d \in Sub : d # c => queue'[d] = queue[d]
    BY <1>2, <1>3 DEF BrokerInvariant
<1>5. \A r \in DOMAIN streams : streams[r].next \in Nat /\ streams[r].subscribers \subseteq Sub
    BY DEF BrokerInvariant, Tidy, Stream
<1>6. \A r \in DOMAIN streams : \A d \in streams[r].subscribers : QueueTail(queue'[d], streams[r].next)
    <2> TAKE r \in DOMAIN streams
    <2> TAKE d \in streams[r].subscribers
    <2>1. QueueTail(queue[d], streams[r].next) /\ d \in Sub
        BY <1>5 DEF BrokerInvariant, Tidy
    <2>2. CASE d = c
        BY <2>1, <2>2, <1>1, <1>4, <1>5, TailTail
    <2>3. CASE d # c
        BY <2>1, <2>3, <1>4
    <2> QED
        BY <2>2, <2>3
<1>7. Tidy(streams', queue')
    BY <1>2, <1>6 DEF BrokerInvariant, Tidy
<1>8. QueuesFit'
    <2>1. \A d \in Sub : Len(queue'[d]) <= room[d]
        <3> TAKE d \in Sub
        <3>1. room[d] \in Nat /\ Len(queue[d]) <= room[d]
            BY DEF BrokerInvariant, QueuesFit
        <3> QED
            BY <3>1, <1>3, <1>4
    <2> QED
        BY <1>2, <2>1 DEF BrokerInvariant, QueuesFit
<1> QED
    BY <1>2, <1>4, <1>7, <1>8 DEF BrokerInvariant

LEMMA AgeKeeps ==
    ASSUME BrokerInvariant, NEW r \in Run, Age(r)
    PROVE  BrokerInvariant'
<1>1. /\ r \in DOMAIN streams /\ streams' = [streams EXCEPT ![r].aged = TRUE]
      /\ queue' = queue /\ room' = room
    BY DEF Age
<1>2. /\ DOMAIN streams' = DOMAIN streams
      /\ \A x \in DOMAIN streams :
            streams'[x] = IF x = r THEN [streams[x] EXCEPT !.aged = TRUE] ELSE streams[x]
    BY <1>1
<1>3. \A x \in DOMAIN streams :
          /\ streams'[x] \in Stream
          /\ streams'[x].next = streams[x].next /\ streams'[x].buffer = streams[x].buffer
          /\ streams'[x].subscribers = streams[x].subscribers
    <2> TAKE x \in DOMAIN streams
    <2>1. streams[x] \in Stream
        BY DEF BrokerInvariant, Tidy
    <2>2. CASE x = r
        BY <1>2, <2>1, <2>2 DEF Stream
    <2>3. CASE x # r
        BY <1>2, <2>1, <2>3
    <2> QED
        BY <2>2, <2>3
<1>4. Tidy(streams', queue')
    BY <1>1, <1>2, <1>3 DEF BrokerInvariant, Tidy, BufferTail
<1>5. QueuesFit'
    BY <1>1, <1>2, <1>3 DEF BrokerInvariant, QueuesFit
<1> QED
    BY <1>1, <1>4, <1>5 DEF BrokerInvariant

LEMMA CloseBrokerKeeps ==
    ASSUME BrokerInvariant, CloseBroker
    PROVE  BrokerInvariant'
<1>1. /\ DOMAIN streams' = {} /\ room' = room
      /\ queue' = [c \in Sub |->
             IF \E r \in DOMAIN streams : c \in streams[r].subscribers THEN <<CloseItem>>
             ELSE queue[c]]
    BY DEF CloseBroker
<1>2. <<CloseItem>> \in Seq(Item) /\ Len(<<CloseItem>>) = 1
    BY ItemTypes
<1>3. \A c \in Sub : queue'[c] \in Seq(Item) /\ Len(queue'[c]) <= room[c]
    <2> TAKE c \in Sub
    <2>1. queue[c] \in Seq(Item) /\ room[c] \in Nat /\ Len(queue[c]) <= room[c]
        BY DEF BrokerInvariant, QueuesFit
    <2>2. CASE \E r \in DOMAIN streams : c \in streams[r].subscribers
        <3>1. room[c] > 0 /\ queue'[c] = <<CloseItem>>
            BY <1>1, <2>2 DEF BrokerInvariant, QueuesFit
        <3> QED
            BY <1>2, <2>1, <3>1
    <2>3. CASE ~ \E r \in DOMAIN streams : c \in streams[r].subscribers
        BY <1>1, <2>1, <2>3
    <2> QED
        BY <2>2, <2>3
<1>4. Tidy(streams', queue')
    BY <1>1 DEF Tidy
<1>5. QueuesFit'
    BY <1>1, <1>3 DEF QueuesFit
<1> QED
    BY <1>1, <1>3, <1>4, <1>5 DEF BrokerInvariant

-----------------------------------------------------------------------------
LEMMA BrokerStep == BrokerInvariant /\ [BrokerNext]_broker => BrokerInvariant'
<1> SUFFICES ASSUME BrokerInvariant, [BrokerNext]_broker
             PROVE  BrokerInvariant'
    OBVIOUS
<1>1. ASSUME NEW r \in Run, EnsureStream(r)
      PROVE  BrokerInvariant'
    BY <1>1, EnsureStreamKeeps
<1>2. ASSUME NEW r \in Run, Age(r)
      PROVE  BrokerInvariant'
    BY <1>2, AgeKeeps
<1>3. ASSUME NEW r \in Run, NEW kind \in EventKinds, Publish(r, kind)
      PROVE  BrokerInvariant'
    BY <1>3, PublishKeeps
<1>4. ASSUME NEW r \in Run, NEW c \in Sub, NEW after \in Cursor, ~Subscribed(c), Subscribe(c, r, after)
      PROVE  BrokerInvariant'
    BY <1>4, SubscribeKeeps, BrokerAssumption
<1>5. ASSUME NEW r \in Run, NEW c \in Sub, OnlyIn(c, r), Unsubscribe(c, r)
      PROVE  BrokerInvariant'
    BY <1>5, UnsubscribeKeeps
<1>6. ASSUME NEW c \in Sub, Take(c)
      PROVE  BrokerInvariant'
    BY <1>6, TakeKeeps
<1>7. CASE CloseBroker
    BY <1>7, CloseBrokerKeeps
<1>8. CASE UNCHANGED broker
    BY <1>8 DEF broker, BrokerInvariant, Tidy, QueuesFit
<1> QED
    BY <1>1, <1>2, <1>3, <1>4, <1>5, <1>6, <1>7, <1>8 DEF BrokerNext

\* Whatever the subscribers and the publishers do, and whenever streams are pruned or the
\* broker is closed, the invariant holds, and queues never take more than they have room for.
THEOREM BrokerInvariance == BrokerSpec => []BrokerInvariant
<1>1. BrokerInit => BrokerInvariant
    BY BrokerInitially
<1>2. BrokerInvariant /\ [BrokerNext]_broker => BrokerInvariant'
    BY BrokerStep
<1> QED
    BY <1>1, <1>2, PTL DEF BrokerSpec

\* The replay buffer of a run holds the last events of its stream, without a hole and
\* without a duplicate, for every buffer size (event_broker.py:113-126).
THEOREM BufferHoldsTheTail == BrokerSpec => []BufferIsTail
<1>1. BrokerInvariant => BufferIsTail
    BY InvariantMeans
<1> QED
    BY <1>1, BrokerInvariance, PTL

\* A subscriber that has not been dropped misses nothing: what waits in its queue runs
\* on, event by event, to the last one published (event_broker.py:135-143, 180-214).
THEOREM SubscribersMissNothing == BrokerSpec => []QueueIsTail
<1>1. BrokerInvariant => QueueIsTail
    BY InvariantMeans
<1> QED
    BY <1>1, BrokerInvariance, PTL
==============================================================================
