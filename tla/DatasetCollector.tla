--------------------------- MODULE DatasetCollector ---------------------------
(***************************************************************************)
(* The resumable, paid collection of search pages                          *)
(* (datasets/justone_headphones/collector.py).  One process runs at a time *)
(* and may be killed at any step; what it finds again are its files: the   *)
(* append-only request ledger, the raw answers, the state file and the     *)
(* candidates file, each written by a step of its own.                     *)
(*                                                                         *)
(* A page is named by platform, keyword and number; what the provider has  *)
(* on it does not change while the collection lasts.                       *)
(***************************************************************************)
EXTENDS Naturals, Sequences, FiniteSets, SequencesExt

CONSTANTS
    Order,            \* PLATFORMS
    Keywords,         \* bound: len(KEYWORDS)
    MaxPages,         \* config.max_pages_per_keyword
    StallLimit,       \* pages without a new candidate that end a keyword (3 in the code)
    CandidateTarget,  \* config.targets
    CapAttempts, CapSuccesses,   \* config.max_attempts, max_success_calls
    Page,             \* what the provider has: [<<platform, keyword, number>> -> page]
    Retries,          \* bound: retries of one page
    Crashes           \* bound: kills, imports of a response

\* The numbers of CollectionConfig are counts, and there are keywords and pages to ask for.
ASSUME ColAssumption ==
    /\ CapAttempts \in Nat /\ CapSuccesses \in Nat /\ Retries \in Nat /\ Crashes \in Nat
    /\ Order \in Seq(Range(Order))
    /\ Keywords \in Nat \ {0} /\ MaxPages \in Nat \ {0}
    /\ StallLimit \in Nat /\ CandidateTarget \in Nat

VARIABLES
    reserved,             \* the ledger: keys with a reservation
    finished,             \* and how it was finished, for those that were
    raw,                  \* the raw answer files, for the keys that have one
    stateFile, savedCandidates,
    mem,                  \* the running process: progress, candidates
    run,                  \* where it is
    report,               \* the item ids of the last written dataset
    imported,             \* platforms a response was imported for
    sentOut, paid,        \* how often each request left, and how many answers were billed
    crashes

colVars == <<reserved, finished, raw, stateFile, savedCandidates, mem, run, report, imported,
             sentOut, paid, crashes>>

Source == Range(Order)
Key    == {<<p, k, n, s, r>> : p \in Source, k \in 1..Keywords, n \in 1..(MaxPages + 1),
                               s \in BOOLEAN, r \in 0..Retries}
Start  == [k |-> 1, n |-> 1, sid |-> FALSE, stalled |-> 0]
Idle   == [at |-> "idle", stage |-> "smoke", i |-> 1, retry |-> 0, retrying |-> FALSE,
           answer |-> "none", added |-> 0, then |-> "turn", moved |-> FALSE]
NoMemory == [progress |-> [p \in Source |-> Start], smoke |-> FALSE, items |-> {}]

ColTypeOK ==
    /\ reserved \subseteq Key
    /\ DOMAIN finished \cup DOMAIN raw \cup DOMAIN sentOut \subseteq reserved
    /\ Range(finished) \subseteq {"ok", "provider_error", "transport_error"}
    /\ Range(raw) \subseteq {"ok", "billable", "nonbillable"}
    /\ Range(sentOut) \subseteq 1..2
    /\ \A f \in {stateFile, mem} : \A p \in Source :
        /\ f.progress[p].k \in 1..(Keywords + 1) /\ f.progress[p].n \in 1..(MaxPages + 1)
        /\ f.progress[p].sid \in BOOLEAN /\ f.progress[p].stalled \in 0..StallLimit
    /\ run.at \in {"idle", "turn", "call", "sending", "received", "finishing", "take",
                   "state", "candidates", "searched", "report"}
    /\ run.stage \in {"smoke", "collect"} /\ run.i \in 0..(Len(Order) + 1)
    /\ paid \in Nat /\ crashes \in 0..Crashes

ColInit ==
    /\ reserved = {} /\ finished = <<>> /\ raw = <<>> /\ sentOut = <<>>
    /\ stateFile = [progress |-> NoMemory.progress, smoke |-> FALSE]
    /\ savedCandidates = {}
    /\ mem = NoMemory /\ run = Idle /\ report = {} /\ imported = {}
    /\ paid = 0 /\ crashes = Crashes

-----------------------------------------------------------------------------
(***************************************************************************)
(* Pages and candidates.  A raw item holds, for each field that decides,   *)
(* the values under the aliases the mappers read, in their order.          *)
(***************************************************************************)
Absent == {"absent", "empty"}

FirstValue(vs, skipped) ==
    LET i == SelectInSeq(vs, LAMBDA v : v \notin skipped)
    IN  IF i = 0 THEN Last(vs) ELSE vs[i]

\* The platform mappers chain the aliases with "or", which also skips a number zero; the
\* generic mapper, for Douyin items of another shape, takes the first one that is not empty.
Field(p, item, vs) ==
    FirstValue(vs, IF p = "douyin" /\ ~item.base THEN Absent ELSE Absent \cup {"zero"})

\* normalize_search_item is not None: an id, a price that is not negative, a headphone title.
Accepted(p, item) ==
    /\ Field(p, item, item.ids) \notin Absent \cup {"zero"}
    /\ Field(p, item, item.prices) \in {"zero", "positive"}
    /\ Field(p, item, item.titles) = "headphone"

\* search_items: the platform's list, else the array that looks most like one.
Items(page) == IF page.listed # <<>> THEN page.listed ELSE page.found

\* A page lists finitely many items.
ASSUME PageAssumption ==
    \A p \in Source, k \in 1..Keywords, n \in 1..(MaxPages + 1) :
        LET list == Items(Page[<<p, k, n>>]) IN list \in Seq(Range(list))

CountOf(p, items) == Cardinality({c \in items : c[1] = p})
Full(p, items)    == CountOf(p, items) >= CandidateTarget

\* What the items before the i-th add, if there is room for all of them.
UpTo(p, list, i, items) ==
    items \cup {<<p, list[j].name>> : j \in {j \in 1..(i - 1) : Accepted(p, list[j])}}

\* The candidates after a page: an item counts while the platform has room.
Collected(p, page, items) ==
    LET list == Items(page)
        taken == {i \in DOMAIN list :
                     Accepted(p, list[i]) /\ ~Full(p, UpTo(p, list, i, items))}
    IN  items \cup {<<p, list[i].name>> : i \in taken}

-----------------------------------------------------------------------------
(***************************************************************************)
(* Runs.                                                                   *)
(***************************************************************************)
P == Order[run.i]
Progress == mem.progress[P]

\* The page asked for: the smoke test always asks for the first page of the keyword.
PageNo    == IF run.stage = "smoke" THEN 1 ELSE Progress.n
KeywordNo == IF run.stage = "smoke" /\ Progress.k > Keywords THEN Keywords ELSE Progress.k

\* request_key: Douyin's pages after the first answer are asked for with its searchId.
RequestKey == <<P, KeywordNo, PageNo, P = "douyin" /\ Progress.sid, run.retry>>
ThisPage   == Page[<<P, KeywordNo, PageNo>>]

\* The entry of this page in the ledger or among the files.
With(f, value) ==
    [q \in DOMAIN f \cup {RequestKey} |-> IF q = RequestKey THEN value ELSE f[q]]

To(at) == run' = [run EXCEPT !.at = at]

StartCollecting(retrying) ==
    /\ run.at = "idle"
    /\ mem' = [progress |-> stateFile.progress, smoke |-> stateFile.smoke,
               items |-> savedCandidates]
    /\ run' = [Idle EXCEPT !.at = "turn", !.retrying = retrying,
                           !.stage = IF stateFile.smoke THEN "collect" ELSE "smoke"]
    /\ UNCHANGED <<reserved, finished, raw, stateFile, savedCandidates, report, imported,
                   sentOut, paid, crashes>>

Elsewhere == UNCHANGED <<reserved, finished, raw, stateFile, savedCandidates, report, imported,
                         sentOut, paid, crashes>>

\* smoke_test: a platform without candidates is searched; after the last one the result is
\* saved and the collection begins, unless only the smoke test was asked for.
SmokeTurn ==
    /\ run.at = "turn" /\ run.stage = "smoke"
    /\ IF run.i > Len(Order)
       THEN /\ mem' = [mem EXCEPT !.smoke = \A p \in Source : CountOf(p, mem.items) > 0]
            /\ \E then \in {"turn", "report"} :
                   run' = [run EXCEPT !.at = "state", !.stage = "collect", !.i = 0,
                                      !.then = then]
       ELSE /\ IF CountOf(P, mem.items) > 0 THEN run' = [run EXCEPT !.i = @ + 1]
               ELSE run' = [run EXCEPT !.at = "call", !.retry = 0]
            /\ UNCHANGED mem
    /\ Elsewhere

\* collect_searches: one page per platform and round, until a round moves nothing.
\* Before a platform is passed over the code saves what the files hold already.
CollectTurn ==
    /\ run.at = "turn" /\ run.stage = "collect"
    /\ run' = IF run.i > Len(Order)
              THEN [run EXCEPT !.i = 1, !.moved = FALSE, !.at = IF run.moved THEN @ ELSE "report"]
              ELSE IF Full(P, mem.items) \/ Progress.k > Keywords THEN [run EXCEPT !.i = @ + 1]
              ELSE [run EXCEPT !.at = "call", !.retry = 0, !.moved = TRUE]
    /\ UNCHANGED mem /\ Elsewhere

-----------------------------------------------------------------------------
(***************************************************************************)
(* JustOneClient.call.                                                     *)
(***************************************************************************)
\* RequestLedger.contains
Known(q) == q \in reserved

Successes == Cardinality({q \in DOMAIN finished : finished[q] = "ok"})
Capped    == Cardinality(reserved) >= CapAttempts \/ Successes >= CapSuccesses

\* A stored answer is used again; a stored error ends the run, or is asked for once more.
Cached ==
    /\ run.at = "call" /\ RequestKey \in DOMAIN raw
    /\ IF raw[RequestKey] = "ok" THEN To("take")
       ELSE IF run.retrying /\ raw[RequestKey] = "nonbillable" /\ run.retry < Retries
       THEN run' = [run EXCEPT !.retry = @ + 1]
       ELSE To("report")
    /\ UNCHANGED mem /\ Elsewhere

\* Reserved without an answer, or a cap is reached: the run ends here.
Refused ==
    /\ run.at = "call" /\ RequestKey \notin DOMAIN raw
    /\ Known(RequestKey) \/ Capped
    /\ To("report")
    /\ UNCHANGED mem /\ Elsewhere

Reserve ==
    /\ run.at = "call" /\ RequestKey \notin DOMAIN raw
    /\ ~Known(RequestKey) /\ ~Capped
    /\ reserved' = reserved \cup {RequestKey}
    /\ To("sending")
    /\ UNCHANGED <<finished, raw, stateFile, savedCandidates, mem, report, imported, sentOut, paid,
                   crashes>>

\* The request leaves; "none" is a transport error, which the ledger records.
Send(answer) ==
    /\ run.at = "sending"
    /\ sentOut' = With(sentOut, IF RequestKey \in DOMAIN sentOut THEN 2 ELSE 1)
    /\ paid' = IF answer = "ok" THEN paid + 1 ELSE paid
    /\ finished' = IF answer = "none" THEN With(finished, "transport_error") ELSE finished
    /\ run' = [run EXCEPT !.at = IF answer = "none" THEN "report" ELSE "received",
                          !.answer = answer]
    /\ UNCHANGED <<reserved, raw, stateFile, savedCandidates, mem, report, imported, crashes>>

WriteRaw ==
    /\ run.at = "received"
    /\ raw' = With(raw, run.answer)
    /\ To("finishing")
    /\ UNCHANGED <<reserved, finished, stateFile, savedCandidates, mem, report, imported, sentOut,
                   paid, crashes>>

FinishRequest ==
    /\ run.at = "finishing"
    /\ finished' = With(finished, IF run.answer = "ok" THEN "ok" ELSE "provider_error")
    /\ To(IF run.answer = "ok" THEN "take" ELSE "report")
    /\ UNCHANGED <<reserved, raw, stateFile, savedCandidates, mem, report, imported, sentOut, paid,
                   crashes>>

-----------------------------------------------------------------------------
(***************************************************************************)
(* _search, _checkpoint and the way on.                                    *)
(***************************************************************************)
Take ==
    /\ run.at = "take"
    /\ LET items == Collected(P, ThisPage, mem.items)
       IN  /\ mem' = [mem EXCEPT !.items = items, !.progress[P].sid = @ \/ P = "douyin"]
           /\ run' = [run EXCEPT !.at = "state", !.then = "searched",
                                 !.added = Cardinality(items) - Cardinality(mem.items)]
    /\ Elsewhere

\* Faulty variant: the state is saved with the next page while its candidates are not.
CheckpointedAhead ==
    IF run.then = "searched" THEN [mem.progress EXCEPT ![P].n = @ + 1] ELSE mem.progress
\* What _checkpoint writes first.
Checkpointed == mem.progress

SaveState ==
    /\ run.at = "state"
    /\ stateFile' = [progress |-> Checkpointed, smoke |-> mem.smoke]
    /\ To("candidates")
    /\ UNCHANGED <<reserved, finished, raw, savedCandidates, mem, report, imported, sentOut, paid,
                   crashes>>

SaveCandidates ==
    /\ run.at = "candidates"
    /\ savedCandidates' = mem.items
    /\ run' = [run EXCEPT !.at = run.then, !.i = IF run.then = "turn" THEN @ + 1 ELSE @]
    /\ UNCHANGED <<reserved, finished, raw, stateFile, mem, report, imported, sentOut, paid,
                   crashes>>

\* The smoke test wants a candidate from the page and goes on at the second one.
SmokeSearched ==
    /\ run.at = "searched" /\ run.stage = "smoke"
    /\ IF run.added = 0 THEN To("report") /\ UNCHANGED mem
       ELSE /\ mem' = [mem EXCEPT !.progress[P].n = 2]
            /\ run' = [run EXCEPT !.at = "turn", !.i = @ + 1]
    /\ Elsewhere

\* A keyword is left after its last page, an empty page, or too many pages without a
\* candidate.
Moved(pr) ==
    LET stalled == IF run.added = 0 THEN pr.stalled + 1 ELSE 0
        over == \/ Items(ThisPage) = <<>>
                \/ ThisPage.pages > 0 /\ pr.n >= ThisPage.pages
                \/ pr.n >= MaxPages \/ stalled >= StallLimit
    IN  IF over THEN [Start EXCEPT !.k = pr.k + 1]
        ELSE [pr EXCEPT !.n = @ + 1, !.stalled = stalled]

\* The second checkpoint; a run with a limit of pages may end with it.
CollectSearched(then) ==
    /\ run.at = "searched" /\ run.stage = "collect"
    /\ mem' = [mem EXCEPT !.progress[P] = Moved(@)]
    /\ run' = [run EXCEPT !.at = "state", !.then = then]
    /\ Elsewhere

\* write_outputs, also after an error: the dataset is what the process holds.
WriteOutputs ==
    /\ run.at = "report"
    /\ report' = mem.items
    /\ run' = Idle /\ mem' = NoMemory
    /\ UNCHANGED <<reserved, finished, raw, stateFile, savedCandidates, imported, sentOut, paid,
                   crashes>>

\* import_response: an answer the user provides, for any page; the collection goes on
\* behind it.
ImportResponse(p, k, n) ==
    LET page == Page[<<p, k, n>>]
        items == Collected(p, page, savedCandidates)
    IN  /\ run.at = "idle" /\ crashes > 0 /\ Items(page) # <<>>
        /\ mem' = [progress |-> [stateFile.progress EXCEPT ![p] =
                                    [Start EXCEPT !.k = k, !.n = n + 1, !.sid = p = "douyin"]],
                   smoke |-> \A q \in Source : CountOf(q, items) > 0,
                   items |-> items]
        /\ run' = [Idle EXCEPT !.at = "state", !.then = "report"]
        /\ imported' = imported \cup {p}
        /\ crashes' = crashes - 1
        /\ UNCHANGED <<reserved, finished, raw, stateFile, savedCandidates, report, sentOut, paid>>

Crash ==
    /\ run.at # "idle" /\ crashes > 0
    /\ crashes' = crashes - 1
    /\ run' = Idle /\ mem' = NoMemory
    /\ UNCHANGED <<reserved, finished, raw, stateFile, savedCandidates, report, imported, sentOut,
                   paid>>

ColNext ==
    \/ \E retrying \in BOOLEAN : StartCollecting(retrying)
    \/ SmokeTurn \/ CollectTurn
    \/ Cached \/ Refused \/ Reserve
    \/ \E answer \in {"ok", "billable", "nonbillable", "none"} : Send(answer)
    \/ WriteRaw \/ FinishRequest
    \/ Take \/ SaveState \/ SaveCandidates \/ SmokeSearched
    \/ \E then \in {"turn", "report"} : CollectSearched(then)
    \/ WriteOutputs
    \/ \E p \in Source, k \in 1..Keywords, n \in 1..MaxPages : ImportResponse(p, k, n)
    \/ Crash

ColSpec == ColInit /\ [][ColNext]_colVars

-----------------------------------------------------------------------------
\* Whenever the process is killed, the candidates of every paid page that the saved state has
\* left behind are saved too, unless the platform is full, and so is everything the last
\* dataset lists (_checkpoint, write_outputs).  A platform is left out once a response was
\* imported for it: an import sets the position without regard to the pages before.
NothingPaidIsLost ==
    /\ \A q \in DOMAIN raw :
        LET pr == stateFile.progress[q[1]]
            page == Page[<<q[1], q[2], q[3]>>]
        IN  /\ raw[q] = "ok" /\ q[1] \notin imported
            /\ q[2] < pr.k \/ (q[2] = pr.k /\ q[3] < pr.n)
            => \/ Full(q[1], savedCandidates)
               \/ \A item \in Range(Items(page)) :
                      Accepted(q[1], item) => <<q[1], item.name>> \in savedCandidates
    /\ report \subseteq savedCandidates

\* No request leaves twice, and whatever is killed, the requests stay within their cap; the
\* cap of paid answers is passed by one answer for each kill at most, which came before the
\* answer was entered in the ledger (RequestLedger.reserve).
PaidOnceWithinCaps ==
    /\ \A q \in DOMAIN sentOut : sentOut[q] <= 1
    /\ Cardinality(DOMAIN sentOut) <= CapAttempts
    /\ paid <= CapSuccesses + (Crashes - crashes)
=============================================================================
