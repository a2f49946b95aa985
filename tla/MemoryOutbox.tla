---------------------------- MODULE MemoryOutbox ----------------------------
(***************************************************************************)
(* The long-term memory of one user: the memory service's transactions     *)
(* (app/memory/service.py), the validation a model's proposals go through  *)
(* before they reach it (app/memory/manager.py), and the outbox worker     *)
(* that keeps a vector projection of every entry                           *)
(* (app/memory/outbox_worker.py).                                          *)
(*                                                                         *)
(* A text is its content hash.  Confirmation times, keywords and vectors   *)
(* are left out: they rank results and change nothing else.                *)
(***************************************************************************)
EXTENDS Naturals, Sequences, FiniteSets, SequencesExt

CONSTANTS
    Mem,           \* memory ids that may ever be issued
    Text,          \* memory texts, normalised
    Unsafe,        \* texts that MemoryManager._allowed refuses
    NoText,        \* no text: an entry that does not exist
    NoMem,         \* memory_id is None
    Publisher, NoPublisher,
    BatchSize,     \* events one run_once claims
    MaxVersion,    \* bound: versions of an entry
    MaxAttempts,   \* settings.memory_outbox_max_attempts
    MaxFaults      \* bound: publications that raise, crashes, requeues, leases outlived

ASSUME MemAssumption ==
    /\ IsFiniteSet(Mem) /\ NoMem \notin Mem /\ NoText \notin Text
    /\ NoPublisher \notin Publisher
    /\ BatchSize \in Nat \ {0} /\ MaxVersion \in Nat \ {0}
    /\ MaxAttempts \in Nat /\ MaxFaults \in Nat

VARIABLES
    entries,       \* memory_entries
    history,       \* memory_history of an entry: the events in order
    outbox,        \* outbox_events in the order of created_at
    projection,    \* memory_embeddings: the text a vector was computed from
    publisher,     \* run_once of every outbox worker
    faults

memVars == <<entries, history, outbox, projection, publisher, faults>>

Exists(e)   == e.text # NoText
Resting     == [batch |-> <<>>, phase |-> "idle", read |-> NoText]

MemTypeOK ==
    /\ entries \in [Mem -> [text : Text \cup {NoText}, version : 0..MaxVersion,
                            source : {"user", "agent"}]]
    /\ history \in [Mem -> Seq({"ADD", "UPDATE", "DELETE"})]
    /\ outbox \in Seq([mem : Mem, version : 1..MaxVersion, published : BOOLEAN,
                       due : {"now", "later", "none"}, claim : Publisher \cup {NoPublisher},
                       lapsed : BOOLEAN, attempts : 0..(MaxAttempts + 2), dead : BOOLEAN])
    /\ projection \in [Mem -> Text \cup {NoText}]
    /\ publisher \in [Publisher -> [batch : Seq(DOMAIN outbox),
                                    phase : {"idle", "publishing", "encoding"},
                                    read : Text \cup {NoText}]]
    /\ faults \in 0..MaxFaults

MemInit ==
    /\ entries = [m \in Mem |-> [text |-> NoText, version |-> 0, source |-> "user"]]
    /\ history = [m \in Mem |-> <<>>]
    /\ outbox = <<>>
    /\ projection = [m \in Mem |-> NoText]
    /\ publisher = [p \in Publisher |-> Resting]
    /\ faults = MaxFaults

-----------------------------------------------------------------------------
(***************************************************************************)
(* apply_actions: one transaction over a batch of actions.  The session    *)
(* has autoflush off, so the duplicate checks read the rows as flushed,    *)
(* while the objects already carry the batch's earlier changes; an insert  *)
(* (begin_nested) flushes them first.                                      *)
(***************************************************************************)
Fresh(rows)        == {m \in Mem : rows[m].version = 0}
Holding(rows, x)   == {m \in Mem : rows[m].text = x}
UniqueTexts(rows)  == \A x \in Text : Cardinality(Holding(rows, x)) <= 1

\* Faulty variant: a change is announced only when the entry is new.
NoteFirstOnly(tx, m, event) ==
    [tx EXCEPT !.history[m] = Append(@, event),
               !.changed = IF event = "ADD" THEN Append(@, m) ELSE @]

\* MemoryService._record and ._outbox for the new state of one entry.
Note(tx, m, event) ==
    [tx EXCEPT !.history[m] = Append(@, event),
               !.changed = IF event = "DELETE" THEN @ ELSE Append(@, m)]

\* An exact duplicate only confirms the entry that holds the text.
Add(tx, a) ==
    LET m == CHOOSE f \in Fresh(tx.objects) : TRUE
        new == [text |-> a.text, version |-> 1, source |-> tx.source]
    IN  IF Holding(tx.rows, a.text) # {} THEN tx
        ELSE IF ~UniqueTexts(tx.objects) THEN [tx EXCEPT !.ok = FALSE]
        ELSE IF Holding(tx.objects, a.text) # {} THEN [tx EXCEPT !.rows = tx.objects]
        ELSE LET done == [tx.objects EXCEPT ![m] = new]
             IN  Note([tx EXCEPT !.objects = done, !.rows = done], m, "ADD")

Update(tx, a) ==
    LET e == tx.objects[a.mem]
        new == [text |-> a.text, version |-> e.version + 1, source |-> tx.source]
    IN  IF e.text = a.text THEN tx
        ELSE IF Holding(tx.rows, a.text) \ {a.mem} # {} THEN [tx EXCEPT !.ok = FALSE]
        ELSE Note([tx EXCEPT !.objects[a.mem] = new], a.mem, "UPDATE")

Delete(tx, a) ==
    Note([tx EXCEPT !.objects[a.mem] = [text |-> NoText, version |-> @.version + 1,
                                        source |-> tx.source]], a.mem, "DELETE")

Act(tx, a) ==
    CASE ~tx.ok \/ a.event = "NONE" -> tx
      [] tx.ok /\ a.event = "ADD"    -> Add(tx, a)
      [] tx.ok /\ a.event = "UPDATE" -> Update(tx, a)
      [] tx.ok /\ a.event = "DELETE" -> Delete(tx, a)

Targets(batch) == {a.mem : a \in Range(batch)} \ {NoMem}

\* A batch is two actions: that is enough for every interaction between actions of a batch.
\* One whose targets repeat or do not exist is refused as a whole; so is one that would leave
\* two entries with the same text.
Transaction(batch, source) ==
    LET begin == [ok |-> \A m \in Targets(batch) : Exists(entries[m]), rows |-> entries,
                  objects |-> entries, history |-> history, changed |-> <<>>,
                  source |-> source]
        tx == Act(Act(begin, batch[1]), batch[2])
    IN  [tx EXCEPT !.ok = @ /\ UniqueTexts(tx.objects)]

Announcement(m, version) ==
    [mem |-> m, version |-> version, published |-> FALSE, due |-> "now",
     claim |-> NoPublisher, lapsed |-> FALSE, attempts |-> 0, dead |-> FALSE]

\* memory_embeddings.memory_id references memory_entries ON DELETE CASCADE.
Cascaded(rows) == [m \in Mem |-> IF Exists(rows[m]) THEN projection[m] ELSE NoText]

\* Enough unused ids and versions are left: the bound of the model.
WithinBounds(batch) ==
    /\ Cardinality({i \in DOMAIN batch : batch[i].event = "ADD"})
           <= Cardinality(Fresh(entries))
    /\ \A m \in Targets(batch) : entries[m].version < MaxVersion

ApplyActions(batch, source) ==
    LET tx == Transaction(batch, source)
    IN  /\ WithinBounds(batch) /\ tx.ok
        /\ entries' = tx.objects
        /\ history' = tx.history
        /\ outbox' = outbox \o [i \in DOMAIN tx.changed |->
                         Announcement(tx.changed[i], tx.objects[tx.changed[i]].version)]
        /\ projection' = Cascaded(tx.objects)
        /\ UNCHANGED <<publisher, faults>>

Action(event, m, x) == [event |-> event, mem |-> m, text |-> x]
Nothing             == Action("NONE", NoMem, NoText)

\* MemoryService.create: the same text only confirms the entry, and a text that another
\* request inserts first fails on the unique constraint.
Create(x) == Holding(entries, x) = {} /\ ApplyActions(<<Action("ADD", NoMem, x), Nothing>>, "user")

\* MemoryService.update and .delete.
UserUpdates(m, x) == ApplyActions(<<Action("UPDATE", m, x), Nothing>>, "user")
UserDeletes(m)    == ApplyActions(<<Action("DELETE", m, NoText), Nothing>>, "user")

(***************************************************************************)
(* MemoryManager.process: what the model proposes for the facts of one     *)
(* window is applied only if every proposal is well formed, names no       *)
(* entry twice and stores no text that _allowed refuses.                   *)
(***************************************************************************)
Allowed(x) == x \notin Unsafe

Proposals ==
    {Action("NONE", m, NoText) : m \in Mem \cup {NoMem}}
        \cup {Action("ADD", NoMem, x) : x \in Text}
        \cup {Action("UPDATE", m, x) : m \in Mem, x \in Text}
        \cup {Action("DELETE", m, NoText) : m \in Mem}

Valid(batch) ==
    /\ \A i, j \in DOMAIN batch : i # j /\ batch[i].mem # NoMem => batch[i].mem # batch[j].mem
    /\ \A a \in Range(batch) : a.event \in {"ADD", "UPDATE"} => Allowed(a.text)

\* A window has at most two facts here, so at most two actions.
AgentDecides(a, b) == Valid(<<a, b>>) /\ ApplyActions(<<a, b>>, "agent")

-----------------------------------------------------------------------------
(***************************************************************************)
(* The outbox worker: run_once claims a batch and publishes it one event   *)
(* at a time, each in a transaction that holds the event's row.            *)
(***************************************************************************)
Locked(i) == \E p \in Publisher : publisher[p].phase = "encoding" /\ Head(publisher[p].batch) = i

Available(i) ==
    /\ ~outbox[i].published /\ ~outbox[i].dead /\ outbox[i].due = "now"
    /\ outbox[i].claim = NoPublisher \/ outbox[i].lapsed
    /\ ~Locked(i)

\* The oldest claimable events, a batch at most.
Open   == {i \in DOMAIN outbox : Available(i)}
Oldest == {i \in Open : Cardinality({j \in Open : j < i}) < BatchSize}

\* They are published in the order they were created in.
ClaimBatch(p) ==
    /\ publisher[p].phase = "idle" /\ Oldest # {}
    /\ outbox' = [i \in DOMAIN outbox |->
           IF i \in Oldest THEN [outbox[i] EXCEPT !.claim = p, !.lapsed = FALSE] ELSE outbox[i]]
    /\ \E batch \in SetToSeqs(Oldest) :
           /\ \A i, j \in DOMAIN batch : i < j => batch[i] < batch[j]
           /\ publisher' = [publisher EXCEPT ![p] =
                  [Resting EXCEPT !.phase = "publishing", !.batch = batch]]
    /\ UNCHANGED <<entries, history, projection, faults>>

\* The event is done with, one way or the other.
Rest(p) == IF Len(publisher[p].batch) = 1 THEN Resting
           ELSE [Resting EXCEPT !.phase = "publishing", !.batch = Tail(publisher[p].batch)]

Current(p) == Head(publisher[p].batch)
Owns(p)    == ~outbox[Current(p)].published /\ outbox[Current(p)].claim = p

\* The row of the event is locked and the entry read; an event lost meanwhile is skipped.
ReadEntry(p) ==
    /\ publisher[p].phase = "publishing"
    /\ ~Owns(p) \/ ~Locked(Current(p))
    /\ publisher' = [publisher EXCEPT ![p] =
           IF Owns(p) THEN [@ EXCEPT !.phase = "encoding",
                                     !.read = entries[outbox[Current(p)].mem].text]
           ELSE Rest(p)]
    /\ UNCHANGED <<entries, history, outbox, projection, faults>>

\* Faulty variant: only an entry without a projection is given one.
SourceOnce(p) == IF projection[outbox[Current(p)].mem] = NoText THEN publisher[p].read
                 ELSE projection[outbox[Current(p)].mem]
Source(p) == publisher[p].read

Published(e) == [e EXCEPT !.published = TRUE, !.due = "now", !.claim = NoPublisher,
                          !.lapsed = FALSE, !.attempts = @ + 1]

\* The vector of what was read is stored; for an entry deleted meanwhile the foreign key
\* refuses it and the publication fails (PublishFails).
WriteProjection(p) ==
    LET m == outbox[Current(p)].mem
    IN  /\ publisher[p].phase = "encoding"
        /\ publisher[p].read # NoText => Exists(entries[m])
        /\ projection' = [projection EXCEPT ![m] = Source(p)]
        /\ outbox' = [outbox EXCEPT ![Current(p)] = Published(@)]
        /\ publisher' = [publisher EXCEPT ![p] = Rest(p)]
        /\ UNCHANGED <<entries, history, faults>>

\* The event is put off, or dead-lettered once it has used its attempts.
PutOff(e) ==
    LET dead == e.attempts + 1 > MaxAttempts
    IN  [e EXCEPT !.attempts = @ + 1, !.claim = NoPublisher, !.lapsed = FALSE,
                  !.dead = dead, !.due = IF dead THEN "none" ELSE "later"]

PublishFails(p) ==
    LET refused == publisher[p].read # NoText /\ ~Exists(entries[outbox[Current(p)].mem])
    IN  /\ publisher[p].phase = "encoding"
        /\ refused \/ faults > 0
        /\ faults' = IF refused THEN faults ELSE faults - 1
        /\ outbox' = [outbox EXCEPT ![Current(p)] = PutOff(@)]
        /\ publisher' = [publisher EXCEPT ![p] = Rest(p)]
        /\ UNCHANGED <<entries, history, projection>>

PublisherCrashes(p) ==
    /\ faults > 0 /\ publisher[p].phase # "idle"
    /\ faults' = faults - 1
    /\ publisher' = [publisher EXCEPT ![p] = Resting]
    /\ UNCHANGED <<entries, history, outbox, projection>>

\* Time: a delayed event becomes available, a lease runs out.
EventAvailable(i) ==
    /\ outbox[i].due = "later"
    /\ outbox' = [outbox EXCEPT ![i].due = "now"]
    /\ UNCHANGED <<entries, history, projection, publisher, faults>>

ClaimLapses(i) ==
    /\ outbox[i].claim # NoPublisher /\ ~outbox[i].lapsed
    /\ LET gone == i \notin Range(publisher[outbox[i].claim].batch)
       IN  /\ gone \/ faults > 0
           /\ faults' = IF gone THEN faults ELSE faults - 1
    /\ outbox' = [outbox EXCEPT ![i].lapsed = TRUE]
    /\ UNCHANGED <<entries, history, projection, publisher>>

\* --requeue-event
RequeueEvent(i) ==
    /\ faults > 0 /\ ~outbox[i].published /\ ~Locked(i)
    /\ faults' = faults - 1
    /\ outbox' = [outbox EXCEPT ![i] = Announcement(@.mem, @.version)]
    /\ UNCHANGED <<entries, history, projection, publisher>>

Publish(p) == ClaimBatch(p) \/ ReadEntry(p) \/ WriteProjection(p) \/ PublishFails(p)

MemNext ==
    \/ \E x \in Text : Create(x)
    \/ \E m \in Mem, x \in Text : UserUpdates(m, x)
    \/ \E m \in Mem : UserDeletes(m)
    \/ \E a, b \in Proposals : AgentDecides(a, b)
    \/ \E p \in Publisher : Publish(p) \/ PublisherCrashes(p)
    \/ \E i \in DOMAIN outbox : EventAvailable(i) \/ ClaimLapses(i) \/ RequeueEvent(i)

MaxEvents == Cardinality(Mem) * MaxVersion

MemFairness ==
    /\ \A p \in Publisher : WF_memVars(Publish(p))
    /\ \A i \in 1..MaxEvents :
           WF_memVars(i \in DOMAIN outbox /\ (EventAvailable(i) \/ ClaimLapses(i)))

MemSpec == MemInit /\ [][MemNext]_memVars /\ MemFairness

-----------------------------------------------------------------------------
\* Every version of an entry has its audit record, written in the same transaction, and
\* every version that left the entry in place has its outbox event
\* (docs/long-term-memory-v2.md:52 and :21), for batches whose actions meet each other too.
EveryVersionRecorded ==
    \A m \in Mem :
        /\ Len(history[m]) = entries[m].version
        /\ \A v \in 1..entries[m].version :
            (history[m][v] # "DELETE") <=>
                \E i \in DOMAIN outbox : outbox[i].mem = m /\ outbox[i].version = v

\* Once nothing is left to publish for an entry its projection is that of its text, and a
\* deleted entry has none: failures, retries and stale reads are made up for by the event
\* of the newest version.  It takes the one publisher that is deployed.
ProjectionCatchesUp ==
    \A m \in Mem :
        (\A i \in DOMAIN outbox : outbox[i].mem = m => outbox[i].published)
            => projection[m] = entries[m].text

\* Every event is published or dead-lettered in the end.
EventsSettle ==
    \A i \in 1..MaxEvents :
        i \in DOMAIN outbox ~> (i \in DOMAIN outbox /\ (outbox[i].published \/ outbox[i].dead))
=============================================================================
