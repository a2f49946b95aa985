-------------------------- MODULE CatalogHydration ---------------------------
(***************************************************************************)
(* Filling the product catalog from the paid provider                      *)
(* (app/products/catalog): the shared jobs of the coordinator              *)
(* (hydration.py), its stop policy (stop_policy.py), the coverage check    *)
(* (coverage.py) and the rows of the repository (repository.py).           *)
(*                                                                         *)
(* The jobs share scopes and request fingerprints: their groups differ in  *)
(* the platforms and the target.  Titles, prices, ranks and observations   *)
(* of an offer are written with its membership and decide nothing here.    *)
(***************************************************************************)
EXTENDS Naturals, Sequences, FiniteSets, FiniteSetsExt, SequencesExt

CONSTANTS
    Caller,          \* calls of ensure
    NoCaller,
    RunKey,          \* (thread, run): the key a caller subscribes under
    Job,             \* group keys
    Platform,
    Platforms,       \* intent.platforms of a job
    Offer,           \* offers of one platform
    PageSize,        \* valid offers of one provider page
    LastPage,        \* bound: the last page a platform has
    Enough,          \* settings.catalog_minimum_per_platform
    Minimum, Target, HardCap, MaxAttempts, MaxSuccesses,   \* the stop policy
    LowYield,        \* new offers below which a page is poor (3 in the code)
    HydMishaps       \* bound: cancelled calls, deadlines, database errors, restarts, leases
                     \* that expire under a live job

\* An intent names at least one platform (intent.py:42), a platform has a first page.
ASSUME HydAssumption ==
    /\ NoCaller \notin Caller
    /\ IsFiniteSet(Platform) /\ IsFiniteSet(Offer)
    /\ Platforms \in [Job -> SUBSET Platform] /\ \A j \in Job : Platforms[j] # {}
    /\ LastPage \in [Platform -> Nat \ {0}]
    /\ PageSize \in Nat /\ HardCap \in Nat
    /\ HydMishaps \in Nat

VARIABLES
    caller,          \* the calls of ensure
    job,             \* _jobs and the local state of _run
    fetch,           \* fetch(platform) of every job
    hydRuns,         \* catalog_hydration_runs.status, by the caller that started the run
    scope,           \* catalog_scopes and catalog_scope_offers
    ledger,          \* provider_request_ledger
    sent,            \* how many jobs sent a request
    hydMishaps

hydVars == <<caller, job, fetch, hydRuns, scope, ledger, sent, hydMishaps>>

Query       == {"primary", "variant"}
Request     == UNION {{p} \X Query \X (1..LastPage[p]) : p \in Platform}
Clock       == {"early", "soft", "hard"}
NoJob       == [phase |-> "none", owner |-> NoCaller, subs |-> {}, cancel |-> FALSE,
                todo |-> <<>>, outcome |-> "none", leased |-> {}, clock |-> "early",
                counts |-> [p \in Platform |-> 0], pages |-> {}, exhausted |-> {},
                partial |-> {}, attempts |-> 0, successes |-> 0]
Aside       == [phase |-> "new", job |-> NoCaller, run |-> NoCaller, of |-> NoCaller,
                late |-> FALSE, shared |-> FALSE, answer |-> "none"]
NotFetching == [phase |-> "idle", query |-> "primary", page |-> 1, varied |-> FALSE,
                low |-> 0, seen |-> {}, kept |-> {}, ok |-> TRUE, more |-> FALSE]

HydTypeOK ==
    /\ caller \in [Caller -> [phase : {"new", "waiting", "gone"}, job : Job \cup {NoCaller},
                              run : RunKey \cup {NoCaller},
                              of : Caller \cup {NoCaller}, late : BOOLEAN, shared : BOOLEAN,
                              answer : {"none", "cache", "ok", "partial", "error",
                                        "cancelled"}]]
    /\ \A j \in Job :
        /\ job[j].phase \in {"none", "inspecting", "creating", "leasing", "fetching",
                             "settling", "done"}
        /\ job[j].subs \subseteq RunKey /\ job[j].leased \subseteq Platform
        /\ \A p \in Platform :
            /\ job[j].counts[p] \in 0..Cardinality(Offer)
            /\ fetch[j][p].phase \in {"idle", "asking", "waiting", "noting", "done"}
            /\ fetch[j][p].page \in 1..LastPage[p] /\ fetch[j][p].seen \subseteq Offer
    /\ hydRuns \in [Caller -> {"none", "running", "finished"}]
    /\ scope \in [Platform -> [fresh : SUBSET Offer, stale : SUBSET Offer,
                               lease : Caller \cup {NoCaller}, lapsed : BOOLEAN]]
    /\ ledger \in [Request -> {"free", "reserved", "finished"}]
    /\ sent \in [Request -> 0..2]
    /\ hydMishaps \in 0..HydMishaps

HydInit ==
    /\ caller = [c \in Caller |-> Aside]
    /\ job = [j \in Job |-> NoJob]
    /\ fetch = [j \in Job |-> [p \in Platform |-> NotFetching]]
    /\ hydRuns = [c \in Caller |-> "none"]
    /\ scope = [p \in Platform |-> [fresh |-> {}, stale |-> {}, lease |-> NoCaller,
                                    lapsed |-> FALSE]]
    /\ ledger = [r \in Request |-> "free"]
    /\ sent = [r \in Request |-> 0]
    /\ hydMishaps = HydMishaps

-----------------------------------------------------------------------------
(***************************************************************************)
(* ensure: the callers of a shared job.                                    *)
(***************************************************************************)
Over(j) == job[j].phase \in {"none", "done"}

Leaving(j) == job[j].cancel \/ job[j].outcome = "cancelled"

\* A caller joins the job of its group, or starts one when there is none or it is done.
Ensure(c, j, r) ==
    /\ caller[c].phase = "new"
    /\ job' = [job EXCEPT ![j] = IF Over(j) THEN [NoJob EXCEPT !.phase = "inspecting",
                                                               !.owner = c, !.subs = {r}]
                                 ELSE [job[j] EXCEPT !.subs = @ \cup {r}]]
    /\ caller' = [caller EXCEPT ![c] = [@ EXCEPT !.phase = "waiting", !.job = j, !.run = r,
                                                 !.of = job'[j].owner,
                                                 !.late = ~Over(j) /\ Leaving(j)]]
    /\ fetch' = IF Over(j) THEN [fetch EXCEPT ![j] = [p \in Platform |-> NotFetching]]
                ELSE fetch
    /\ UNCHANGED <<hydRuns, scope, ledger, sent, hydMishaps>>

\* Faulty variant: whoever leaves takes the job down.
AbandonedByAny(j, subs) == ~Over(j)
Abandoned(j, subs)      == subs = {} /\ ~Over(j)

\* The finally block of ensure, after an answer or the caller's own cancellation.  The key
\* belongs to the run: a fork that leaves takes the key of its siblings with it.
Leave(c) ==
    LET j == caller[c].job
        subs == job[j].subs \ {caller[c].run}
        gone(d) == d # c /\ caller[d].phase = "waiting" /\ caller[d].of = caller[c].of
                         /\ caller[d].run = caller[c].run
    IN  /\ caller[c].phase = "waiting"
        /\ caller' = [d \in Caller |->
               IF d = c THEN [Aside EXCEPT !.phase = "gone"]
               ELSE IF gone(d) THEN [caller[d] EXCEPT !.shared = TRUE]
               ELSE caller[d]]
        /\ job' = IF job[j].owner # caller[c].of THEN job
                  ELSE [job EXCEPT ![j] =
                      IF Over(j) /\ subs = {} THEN NoJob
                      ELSE [job[j] EXCEPT !.subs = subs, !.cancel = @ \/ Abandoned(j, subs)]]
        /\ UNCHANGED <<fetch, hydRuns, scope, ledger, sent>>

Returns(c) == caller[c].answer # "none" /\ Leave(c) /\ UNCHANGED hydMishaps

CallerCancelled(c) ==
    /\ hydMishaps > 0 /\ caller[c].answer = "none"
    /\ hydMishaps' = hydMishaps - 1
    /\ Leave(c)

-----------------------------------------------------------------------------
(***************************************************************************)
(* _run: coverage, the run's row, the leases.                              *)
(***************************************************************************)
Live(j, phase) == job[j].phase = phase /\ ~job[j].cancel

Awaits(c, j) == caller[c].phase = "waiting" /\ caller[c].of = job[j].owner

\* The job's task is done: every caller that waits for it has its answer.
Ended(j, answer) ==
    /\ job' = [job EXCEPT ![j] = [NoJob EXCEPT !.phase = "done", !.owner = job[j].owner,
                                               !.subs = job[j].subs]]
    /\ caller' = [c \in Caller |->
            IF Awaits(c, j) THEN [caller[c] EXCEPT !.answer = answer] ELSE caller[c]]

Forget(j) == fetch' = [fetch EXCEPT ![j] = [p \in Platform |-> NotFetching]]

LeaseActive(p) == scope[p].lease # NoCaller /\ ~scope[p].lapsed
Sufficient(p)  == ~LeaseActive(p) /\ Cardinality(scope[p].fresh) >= Enough

Inspect(j) ==
    /\ Live(j, "inspecting")
    /\ IF \A p \in Platforms[j] : Sufficient(p)
       THEN Ended(j, "cache") /\ UNCHANGED fetch
       ELSE /\ job' = [job EXCEPT ![j] = [@ EXCEPT !.phase = "creating",
                           !.counts = [p \in Platform |->
                               IF p \in Platforms[j] THEN Cardinality(scope[p].fresh) ELSE 0]]]
            /\ fetch' = [fetch EXCEPT ![j] = [p \in Platform |->
                             [NotFetching EXCEPT !.seen = scope[p].fresh]]]
            /\ UNCHANGED caller
    /\ UNCHANGED <<hydRuns, scope, ledger, sent, hydMishaps>>

CreateHydrationRun(j) ==
    /\ Live(j, "creating")
    /\ hydRuns' = [hydRuns EXCEPT ![job[j].owner] = "running"]
    /\ job' = [job EXCEPT ![j] = [@ EXCEPT !.phase = "leasing", !.todo = SetToSeq(Platforms[j])]]
    /\ UNCHANGED <<caller, fetch, scope, ledger, sent, hydMishaps>>

\* acquire_scope_lease, one platform after the other; the last one starts the fetches.
AcquireScopeLease(j) ==
    /\ Live(j, "leasing")
    /\ LET p == Head(job[j].todo)
           last == Len(job[j].todo) = 1
       IN  /\ scope' = IF LeaseActive(p) THEN scope
                       ELSE [scope EXCEPT ![p] = [@ EXCEPT !.lease = job[j].owner,
                                                           !.lapsed = FALSE]]
           /\ job' = [job EXCEPT ![j] = [job[j] EXCEPT
                          !.leased = IF LeaseActive(p) THEN @ ELSE @ \cup {p},
                          !.todo = Tail(@), !.phase = IF last THEN "fetching" ELSE @]]
           /\ fetch' = IF last
                       THEN [fetch EXCEPT ![j] = [q \in Platform |->
                               [fetch[j][q] EXCEPT !.phase =
                                    IF q \in Platforms[j] THEN "asking" ELSE @]]]
                       ELSE fetch
    /\ UNCHANGED <<caller, hydRuns, ledger, sent, hydMishaps>>

-----------------------------------------------------------------------------
(***************************************************************************)
(* CatalogStopPolicy.                                                      *)
(***************************************************************************)
Total(j)   == MapThenSumSet(LAMBDA p : job[j].counts[p], Platforms[j])
Started(j) == Platforms[j] \subseteq job[j].pages \cup job[j].exhausted
Covered(j) == \A p \in Platforms[j] \ job[j].exhausted : job[j].counts[p] >= Enough

\* reason() # None: hard cap, hard deadline, budget, target, minimum at the soft deadline,
\* every platform exhausted.
Stops(j) ==
    \/ Total(j) >= HardCap
    \/ job[j].clock = "hard"
    \/ job[j].attempts >= MaxAttempts \/ job[j].successes >= MaxSuccesses
    \/ Total(j) >= Target /\ Started(j)
    \/ job[j].clock # "early" /\ Total(j) >= Minimum /\ Covered(j)
    \/ job[j].exhausted = Platforms[j]

Tick(j) ==
    /\ hydMishaps > 0 /\ Live(j, "fetching") /\ job[j].clock # "hard"
    /\ hydMishaps' = hydMishaps - 1
    /\ job' = [job EXCEPT ![j].clock = IF @ = "early" THEN "soft" ELSE "hard"]
    /\ UNCHANGED <<caller, fetch, hydRuns, scope, ledger, sent>>

-----------------------------------------------------------------------------
(***************************************************************************)
(* fetch(platform): pages of one platform, one request at a time.          *)
(***************************************************************************)
Asking(j, p) == Live(j, "fetching") /\ fetch[j][p].phase = "asking"

\* After two poor pages the variant is asked for, once and from its first page; the page
\* after it is the primary query's again.
Varies(j, p)  == fetch[j][p].low >= 2 /\ ~fetch[j][p].varied
NextAsk(j, p) == IF Varies(j, p) THEN <<p, "variant", 1>>
                 ELSE <<p, "primary", fetch[j][p].page>>

\* Faulty variant: only an answered request counts as made.
AskableUnlessFinished(r) == ledger[r] # "finished"
\* reserve_request: a request that has a row, in whatever status, is never made again.
Askable(r) == ledger[r] = "free"

Fetched    == [NotFetching EXCEPT !.phase = "done"]
Stop(j, p) == fetch' = [fetch EXCEPT ![j][p] = Fetched]

NotLeased(j, p) ==
    /\ Asking(j, p) /\ p \notin job[j].leased
    /\ Stop(j, p)
    /\ job' = [job EXCEPT ![j].partial = @ \cup {p}, ![j].exhausted = @ \cup {p}]
    /\ UNCHANGED <<caller, hydRuns, scope, ledger, sent, hydMishaps>>

PolicyStops(j, p) ==
    /\ Asking(j, p) /\ p \in job[j].leased /\ Stops(j)
    /\ Stop(j, p)
    /\ UNCHANGED <<caller, job, hydRuns, scope, ledger, sent, hydMishaps>>

AlreadyAsked(j, p) ==
    /\ Asking(j, p) /\ p \in job[j].leased /\ ~Stops(j) /\ ~Askable(NextAsk(j, p))
    /\ Stop(j, p)
    /\ job' = [job EXCEPT ![j].exhausted = @ \cup {p}]
    /\ UNCHANGED <<caller, hydRuns, scope, ledger, sent, hydMishaps>>

ReserveRequest(j, p) ==
    LET r == NextAsk(j, p)
    IN  /\ Asking(j, p) /\ p \in job[j].leased /\ ~Stops(j) /\ Askable(r)
        /\ ledger' = [ledger EXCEPT ![r] = "reserved"]
        /\ sent' = [sent EXCEPT ![r] = IF @ < 2 THEN @ + 1 ELSE @]
        /\ fetch' = [fetch EXCEPT ![j][p] = [fetch[j][p] EXCEPT !.phase = "waiting",
                         !.query = r[2], !.page = r[3], !.varied = @ \/ Varies(j, p)]]
        /\ UNCHANGED <<caller, job, hydRuns, scope, hydMishaps>>

\* Faulty variant: the page is stored uncut.
RemainingUncut(j) == PageSize
Remaining(j) == IF Total(j) >= HardCap THEN 0 ELSE HardCap - Total(j)

\* persist_page: snapshot, products, offers, observations and the members of the scope, each
\* offer of the page once, in one transaction.
Stored(s, kept) == [s EXCEPT !.fresh = @ \cup kept, !.stale = @ \ kept]

\* The provider answers, after one retry at most, and under the policy lock the page is cut
\* to the room that is left and persisted.  The policy hears of it in the next step.
PersistPage(j, p, kept, more) ==
    /\ Live(j, "fetching") /\ fetch[j][p].phase = "waiting"
    /\ Cardinality(kept) <= PageSize /\ Cardinality(kept) <= Remaining(j)
    /\ more => fetch[j][p].page < LastPage[p]
    /\ scope' = [scope EXCEPT ![p] = Stored(@, kept)]
    /\ fetch' = [fetch EXCEPT ![j][p] = [@ EXCEPT !.phase = "noting", !.kept = kept,
                                                  !.ok = TRUE, !.more = more]]
    /\ UNCHANGED <<caller, job, hydRuns, ledger, sent, hydMishaps>>

\* An error status or the timeout; nothing is stored.
ProviderFails(j, p, more) ==
    /\ Live(j, "fetching") /\ fetch[j][p].phase = "waiting"
    /\ fetch' = [fetch EXCEPT ![j][p] = [@ EXCEPT !.phase = "noting", !.kept = {},
                                                  !.ok = FALSE, !.more = more]]
    /\ UNCHANGED <<caller, job, hydRuns, scope, ledger, sent, hydMishaps>>

NoteRequestFinished(p, f) == ledger' = [ledger EXCEPT ![<<p, f.query, f.page>>] = "finished"]

NewOffers(f) == f.kept \ f.seen

\* CatalogStopPolicy.observe.
Observed(b, p, f) ==
    [b EXCEPT !.attempts = @ + 1,
              !.successes = IF f.ok THEN @ + 1 ELSE @,
              !.pages = IF f.ok THEN @ \cup {p} ELSE @,
              !.counts[p] = IF f.ok THEN @ + Cardinality(NewOffers(f)) ELSE @,
              !.exhausted = IF f.more THEN @ ELSE @ \cup {p},
              !.partial = IF f.ok THEN @ ELSE @ \cup {p}]

\* The request is finished, and the policy learns what the page adds.
NotePage(j, p) ==
    LET f == fetch[j][p]
        low == IF Cardinality(NewOffers(f)) >= LowYield THEN 0
               ELSE IF f.low < 2 THEN f.low + 1 ELSE 2
    IN  /\ Live(j, "fetching") /\ f.phase = "noting"
        /\ NoteRequestFinished(p, f)
        /\ job' = [job EXCEPT ![j] = Observed(@, p, f)]
        /\ fetch' = [fetch EXCEPT ![j][p] =
               IF f.ok /\ f.more
               THEN [NotFetching EXCEPT !.phase = "asking", !.page = f.page + 1,
                         !.varied = f.varied, !.low = low, !.seen = f.seen \cup f.kept]
               ELSE Fetched]
        /\ UNCHANGED <<caller, hydRuns, scope, sent, hydMishaps>>

-----------------------------------------------------------------------------
(***************************************************************************)
(* The end of _run.                                                        *)
(***************************************************************************)
Settling(j, outcome, todo) ==
    /\ job' = [job EXCEPT ![j] = [NoJob EXCEPT !.phase = "settling", !.owner = job[j].owner,
                   !.subs = job[j].subs, !.leased = job[j].leased, !.outcome = outcome,
                   !.todo = todo]]
    /\ Forget(j)

FetchesDone(j) ==
    /\ Live(j, "fetching") /\ \A p \in Platforms[j] : fetch[j][p].phase = "done"
    /\ Settling(j, IF job[j].partial = {} /\ Total(j) >= Minimum THEN "ok" ELSE "partial",
                <<"release", "record">>)
    /\ UNCHANGED <<caller, hydRuns, scope, ledger, sent, hydMishaps>>

\* Only leases that are still its own are given back.
ReleaseScopeLeases(j) ==
    scope' = [p \in Platform |->
        IF p \in job[j].leased /\ scope[p].lease = job[j].owner
        THEN [scope[p] EXCEPT !.lease = NoCaller, !.lapsed = FALSE] ELSE scope[p]]

FinishHydrationRun(j) == hydRuns' = [hydRuns EXCEPT ![job[j].owner] = "finished"]

\* After an error or a cancellation the run's row comes before the leases.
Settle(j) ==
    /\ Live(j, "settling")
    /\ IF Head(job[j].todo) = "release" THEN ReleaseScopeLeases(j) /\ UNCHANGED hydRuns
       ELSE FinishHydrationRun(j) /\ UNCHANGED scope
    /\ IF Len(job[j].todo) = 1 THEN Ended(j, job[j].outcome)
       ELSE job' = [job EXCEPT ![j].todo = Tail(@)] /\ UNCHANGED caller
    /\ UNCHANGED <<fetch, ledger, sent, hydMishaps>>

\* The cancellation reaches the task.  Before the fetches there is no handler: the row
\* stays "running" and the leases stay taken.
CancelArrives(j) ==
    /\ job[j].cancel /\ ~Over(j)
    /\ CASE job[j].phase = "fetching" ->
              Settling(j, "cancelled", <<"record", "release">>) /\ UNCHANGED caller
         [] job[j].phase = "settling" /\ job[j].todo = <<"record", "release">> ->
              Settling(j, "cancelled", <<"release">>) /\ UNCHANGED caller
         [] OTHER -> Ended(j, "cancelled") /\ Forget(j)
    /\ UNCHANGED <<hydRuns, scope, ledger, sent, hydMishaps>>

\* The database refuses a transaction: before the fetches nothing catches the exception.
Raises(j) ==
    /\ hydMishaps > 0 /\ job[j].phase \in {"inspecting", "creating", "leasing"}
    /\ ~job[j].cancel
    /\ hydMishaps' = hydMishaps - 1
    /\ Ended(j, "error") /\ Forget(j)
    /\ UNCHANGED <<hydRuns, scope, ledger, sent>>

PersistFails(j, p) ==
    /\ hydMishaps > 0 /\ Live(j, "fetching") /\ fetch[j][p].phase = "waiting"
    /\ hydMishaps' = hydMishaps - 1
    /\ NoteRequestFinished(p, fetch[j][p])
    /\ Settling(j, "error", <<"record", "release">>)
    /\ UNCHANGED <<caller, hydRuns, scope, sent>>

-----------------------------------------------------------------------------
(***************************************************************************)
(* Time and restarts.                                                      *)
(***************************************************************************)
LeaseExpires(p) ==
    LET held == \E j \in Job : ~Over(j) /\ job[j].owner = scope[p].lease
    IN  /\ LeaseActive(p) /\ (held => hydMishaps > 0)
        /\ hydMishaps' = IF held THEN hydMishaps - 1 ELSE hydMishaps
        /\ scope' = [scope EXCEPT ![p].lapsed = TRUE]
        /\ UNCHANGED <<caller, job, fetch, hydRuns, ledger, sent>>

\* A member's day ends (its ageing under a job would be seen by the next job only).
MembersAge(p) ==
    /\ scope[p].fresh # {} /\ \A j \in Job : Over(j)
    /\ scope' = [scope EXCEPT ![p].fresh = {}, ![p].stale = @ \cup scope[p].fresh]
    /\ UNCHANGED <<caller, job, fetch, hydRuns, ledger, sent, hydMishaps>>

ServerRestarts ==
    /\ hydMishaps > 0 /\ \E c \in Caller : caller[c].phase = "waiting"
    /\ hydMishaps' = hydMishaps - 1
    /\ caller' = [c \in Caller |-> IF caller[c].phase = "waiting"
                                   THEN [Aside EXCEPT !.phase = "gone"] ELSE caller[c]]
    /\ job' = [j \in Job |-> NoJob]
    /\ fetch' = [j \in Job |-> [p \in Platform |-> NotFetching]]
    /\ UNCHANGED <<hydRuns, scope, ledger, sent>>

Fetch(j, p) ==
    \/ NotLeased(j, p) \/ PolicyStops(j, p) \/ AlreadyAsked(j, p) \/ ReserveRequest(j, p)
    \/ \E kept \in SUBSET Offer, more \in BOOLEAN : PersistPage(j, p, kept, more)
    \/ \E more \in BOOLEAN : ProviderFails(j, p, more)
    \/ NotePage(j, p)

RunJob(j) ==
    \/ Inspect(j) \/ CreateHydrationRun(j) \/ AcquireScopeLease(j)
    \/ \E p \in Platform : Fetch(j, p)
    \/ FetchesDone(j) \/ Settle(j) \/ CancelArrives(j)

HydNext ==
    \/ \E c \in Caller : (\E j \in Job, r \in RunKey : Ensure(c, j, r))
                         \/ Returns(c) \/ CallerCancelled(c)
    \/ \E j \in Job : RunJob(j) \/ Tick(j) \/ Raises(j)
                      \/ \E p \in Platform : PersistFails(j, p)
    \/ \E p \in Platform : LeaseExpires(p) \/ MembersAge(p)
    \/ ServerRestarts

HydSpec == HydInit /\ [][HydNext]_hydVars

-----------------------------------------------------------------------------
\* A provider request is paid for by one job only: concurrent jobs on one scope, an expired
\* lease and a restart between the request and its answer included (the ledger of
\* reserve_request).
RequestSentOnce == \A r \in Request : sent[r] <= 1

\* The hard cap is not hard: pages of other platforms that are stored and not yet noted come
\* on top of it, and no more than those.
Pending(j) == MapThenSumSet(LAMBDA p : Cardinality(fetch[j][p].kept), Platform)
OvershootBounded ==
    \A j \in Job : Live(j, "fetching") /\ job[j].pages # {} =>
        Total(j) + Pending(j) <= HardCap + (Cardinality(Platforms[j]) - 1) * PageSize

\* A waiting caller is cancelled with the job only if it came after the last one had left,
\* or if a call of its own run left ("subscriber-safe cancellation", hydration.py:1).
OnlyLeaversCancel ==
    \A c \in Caller : caller[c].answer = "cancelled" => caller[c].late \/ caller[c].shared

\* Nobody waits for a job that is over, replaced or lost its record of the caller: whoever
\* waits unanswered has the live job it joined, also after its subscriber key was taken away.
NobodyForgotten ==
    \A c \in Caller :
        LET j == caller[c].job
        IN  caller[c].phase = "waiting" /\ caller[c].answer = "none" =>
                ~Over(j) /\ job[j].owner = caller[c].of

\* Whoever waits is served: with an answer of the job it joined, and not cancelled by others.
CallersServed == OnlyLeaversCancel /\ NobodyForgotten
=============================================================================
