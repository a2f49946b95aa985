---------------------------- MODULE CatalogProofs ----------------------------
(***************************************************************************)
(* Proofs about the hydration of the catalog, for any number of callers,   *)
(* jobs, platforms and pages, and any number of restarts, cancelled calls  *)
(* and leases that expire under a live job.                                *)
(*                                                                         *)
(* A caller is served because the record of the live job that owns it      *)
(* still knows it, or says why it does not (CallersKnown).  A request is   *)
(* sent once because its row in the ledger outlives the job (SentKnown).   *)
(* A job outgrows the hard cap by a page of every other platform at most,  *)
(* because it is held to that limit from its first request on (RoomKnown): *)
(* the sums this speaks of are counts of pairs (Sums).                     *)
(***************************************************************************)
EXTENDS CatalogHydration, FiniteSetTheorems, FunctionTheorems, SequenceTheorems,
        WellFoundedInduction, TLAPS

CallerRow == [phase : {"new", "waiting", "gone"}, job : Job \cup {NoCaller},
              run : RunKey \cup {NoCaller}, of : Caller \cup {NoCaller}, late : BOOLEAN,
              shared : BOOLEAN,
              answer : {"none", "cache", "ok", "partial", "error", "cancelled"}]

Duties == {<<"release", "record">>, <<"record", "release">>, <<"record">>, <<"release">>}

\* What is left to do: platforms to lease, or the two steps of the end.
Todo == Seq(Platform) \cup Duties

JobRow == [phase : {"none", "inspecting", "creating", "leasing", "fetching", "settling", "done"},
           owner : Caller \cup {NoCaller}, subs : SUBSET RunKey, cancel : BOOLEAN, todo : Todo,
           outcome : {"none", "ok", "partial", "error", "cancelled"},
           leased : SUBSET Platform, clock : Clock, counts : [Platform -> Nat],
           pages : SUBSET Platform, exhausted : SUBSET Platform, partial : SUBSET Platform,
           attempts : Nat, successes : Nat]

FetchRow == [phase : {"idle", "asking", "waiting", "noting", "done"}, query : Query,
             page : Nat \ {0}, varied : BOOLEAN, low : 0..2, seen : SUBSET Offer,
             kept : SUBSET Offer, ok : BOOLEAN, more : BOOLEAN]

ScopeRow == [fresh : SUBSET Offer, stale : SUBSET Offer, lease : Caller \cup {NoCaller},
             lapsed : BOOLEAN]

\* What is left to do fits the phase.
TodoFits(b) ==
    /\ b.phase = "leasing" => b.todo \in Seq(Platform) /\ b.todo # <<>>
    /\ b.phase = "settling" => b.todo \in Duties /\ b.outcome # "none"

\* Pages are pages of the platform, and while a platform is being filled, its count is the
\* number of offers seen there.
FetchFits(b, f, p, wanted) ==
    /\ f.page <= LastPage[p]
    /\ f.phase = "noting" /\ f.ok /\ f.more => f.page < LastPage[p]
    /\ f.phase # "idle" => b.phase = "fetching"
    /\ b.counts[p] <= Cardinality(Offer)
    /\ \/ f.phase \in {"asking", "waiting", "noting"}
       \/ p \in wanted /\ b.phase \in {"creating", "leasing"}
       => b.counts[p] = Cardinality(f.seen)

HydTypes ==
    /\ caller \in [Caller -> CallerRow]
    /\ job \in [Job -> JobRow]
    /\ fetch \in [Job -> [Platform -> FetchRow]]
    /\ hydRuns \in [Caller -> {"none", "running", "finished"}]
    /\ scope \in [Platform -> ScopeRow]
    /\ ledger \in [Request -> {"free", "reserved", "finished"}]
    /\ sent \in [Request -> 0..2]
    /\ hydMishaps \in 0..HydMishaps

JobsFit ==
    \A j \in Job :
        /\ TodoFits(job[j])
        /\ \A p \in Platform : FetchFits(job[j], fetch[j][p], p, Platforms[j])

\* A request nobody has reserved has not left, and none has left twice.
SentKnown == \A r \in Request : sent[r] <= 1 /\ (ledger[r] = "free" => sent[r] = 0)

Waiting(c) == caller[c].phase = "waiting"

\* A job is owned by the caller that started it, and by nobody else.
OwnersKnown ==
    /\ \A j \in Job : job[j].owner \in Caller => caller[job[j].owner].phase # "new"
    /\ \A j \in Job : ~Over(j) => job[j].owner \in Caller
    /\ \A i, j \in Job : job[i].owner \in Caller /\ job[i].owner = job[j].owner => i = j

CallersKnown ==
    /\ \A c \in Caller : ~Waiting(c) => caller[c].answer = "none"
    /\ \A c \in Caller : Waiting(c) =>
          /\ caller[c].job \in Job
          /\ caller[c].of \in Caller /\ caller[caller[c].of].phase # "new"
    /\ \A c \in Caller, j \in Job : Waiting(c) /\ caller[c].of = job[j].owner =>
          /\ caller[c].job = j
          /\ ~Over(j) => caller[c].run \in job[j].subs \/ caller[c].shared
          /\ ~Over(j) /\ Leaving(j) => caller[c].late \/ caller[c].shared

HydInvariant ==
    HydTypes /\ JobsFit /\ SentKnown /\ OwnersKnown /\ CallersKnown /\ CallersServed

-----------------------------------------------------------------------------
(***************************************************************************)
(* The initial state.                                                      *)
(***************************************************************************)
LEMMA RowsBegin ==
    /\ Aside \in CallerRow /\ NoJob \in JobRow /\ NotFetching \in FetchRow
    /\ Fetched \in FetchRow
    /\ Fetched.phase = "done" /\ Fetched.page = 1 /\ Fetched.seen = {}
    /\ NotFetching.phase = "idle" /\ NotFetching.page = 1 /\ NotFetching.seen = {}
    /\ NoJob.phase = "none" /\ NoJob.owner = NoCaller /\ NoJob.subs = {} /\ ~NoJob.cancel
    /\ NoJob.outcome = "none" /\ \A p \in Platform : NoJob.counts[p] = 0
<1>1. Aside \in CallerRow
    BY DEF Aside, CallerRow
<1>2. <<>> \in Todo
    BY DEF Todo
<1>3. PICK none \in Todo : none = <<>>
    BY <1>2
<1>4. [p \in Platform |-> 0] \in [Platform -> Nat]
    OBVIOUS
<1>5. NoJob \in JobRow
    BY <1>3, <1>4 DEF NoJob, JobRow, Clock
<1>6. /\ NotFetching \in FetchRow
      /\ NotFetching.phase = "idle" /\ NotFetching.page = 1 /\ NotFetching.seen = {}
    BY DEF NotFetching, FetchRow, Query
<1>7. /\ Fetched \in FetchRow
      /\ Fetched.phase = "done" /\ Fetched.page = 1 /\ Fetched.seen = {}
    BY <1>6 DEF FetchRow, Fetched
<1>8. /\ NoJob.phase = "none" /\ NoJob.owner = NoCaller /\ NoJob.subs = {} /\ ~NoJob.cancel
      /\ NoJob.outcome = "none" /\ \A p \in Platform : NoJob.counts[p] = 0
    BY DEF NoJob
<1> QED BY <1>1, <1>5, <1>6, <1>7, <1>8

\* Nobody has asked for anything yet: the state without jobs has every part.
LEMMA HydStarts == HydInit => HydInvariant
<1> SUFFICES ASSUME HydInit PROVE HydInvariant
    OBVIOUS
<1> USE DEF HydInit
<1>1. HydTypes
    BY RowsBegin, HydAssumption DEF HydTypes, ScopeRow
<1>2. JobsFit
    <2>1. Cardinality(Offer) \in Nat
        BY HydAssumption, FS_CardinalityType
    <2>2. TodoFits(NoJob)
        BY RowsBegin DEF TodoFits
    <2>3. ASSUME NEW j \in Job, NEW p \in Platform
          PROVE  FetchFits(NoJob, NotFetching, p, Platforms[j])
        BY <2>1, RowsBegin, HydAssumption DEF FetchFits
    <2>4. \A j \in Job : job[j] = NoJob /\ \A p \in Platform : fetch[j][p] = NotFetching
        OBVIOUS
    <2> QED BY <2>2, <2>3, <2>4 DEF JobsFit
<1>3. SentKnown
    BY DEF SentKnown
<1>4. \A j \in Job : Over(j) /\ job[j].owner \notin Caller
    BY RowsBegin, HydAssumption DEF Over
<1>5. \A c \in Caller : ~Waiting(c) /\ caller[c].answer = "none"
    BY DEF Waiting, Aside
<1> QED BY <1>1, <1>2, <1>3, <1>4, <1>5
        DEF HydInvariant, OwnersKnown, CallersKnown, CallersServed, OnlyLeaversCancel,
            NobodyForgotten, Waiting
-----------------------------------------------------------------------------
(***************************************************************************)
(* Rows.  A step of a job changes the row of that job and its fetches.     *)
(***************************************************************************)
OffersCount(S) == Cardinality(S) \in Nat /\ Cardinality(S) <= Cardinality(Offer)

\* The count of any part of the catalog is a number no greater than all of it.
LEMMA OffersFit == \A S \in SUBSET Offer : OffersCount(S)
BY HydAssumption, FS_Subset, FS_CardinalityType DEF OffersCount

\* A step of one job replaces its row and its fetches; those of the others stay as they were.
LEMMA JobChanges ==
    ASSUME HydTypes, JobsFit, NEW j \in Job, NEW b \in JobRow, NEW F \in [Platform -> FetchRow],
           job' = [job EXCEPT ![j] = b], fetch' = [fetch EXCEPT ![j] = F],
           TodoFits(b), \A p \in Platform : FetchFits(b, F[p], p, Platforms[j])
    PROVE  job' \in [Job -> JobRow] /\ fetch' \in [Job -> [Platform -> FetchRow]] /\ JobsFit'
<1>1. job' \in [Job -> JobRow] /\ fetch' \in [Job -> [Platform -> FetchRow]]
    BY DEF HydTypes
<1>2. ASSUME NEW i \in Job, i # j
      PROVE  job'[i] = job[i] /\ fetch'[i] = fetch[i]
    BY <1>2 DEF HydTypes
<1>3. job'[j] = b /\ fetch'[j] = F
    BY DEF HydTypes
<1>4. ASSUME NEW i \in Job
      PROVE  /\ TodoFits(job'[i])
             /\ \A p \in Platform : FetchFits(job'[i], fetch'[i][p], p, Platforms[i])
    <2>1. CASE i = j
        BY <2>1, <1>3
    <2>2. CASE i # j
        BY <2>2, <1>2 DEF JobsFit
    <2> QED BY <2>1, <2>2
<1> QED BY <1>1, <1>4 DEF JobsFit

\* A job that is not being filled has no page under way and no count.
LEMMA IdleFits ==
    ASSUME HydTypes, NEW b \in JobRow, b.phase \in {"none", "inspecting", "settling", "done"},
           \A p \in Platform : b.counts[p] = 0, TodoFits(b),
           NEW F \in [Platform -> FetchRow],
           \A p \in Platform : F[p].phase = "idle" /\ F[p].page <= LastPage[p],
           NEW wanted
    PROVE  \A p \in Platform : FetchFits(b, F[p], p, wanted)
BY OffersFit, HydAssumption DEF FetchFits, OffersCount

\* The fetches of a job without a task are idle, on a first page that exists.
LEMMA ForgottenFits ==
    ASSUME HydTypes, NEW j \in Job
    PROVE  /\ [p \in Platform |-> NotFetching] \in [Platform -> FetchRow]
           /\ \A p \in Platform : [q \in Platform |-> NotFetching][p].phase = "idle"
                                  /\ [q \in Platform |-> NotFetching][p].page <= LastPage[p]
BY RowsBegin, HydAssumption

\* The task of a job ends: its record says so, and its callers are answered.
TellsCallers(j, answer) ==
    /\ ~Over(j)
    /\ caller' = [c \in Caller |->
            IF Awaits(c, j) THEN [caller[c] EXCEPT !.answer = answer] ELSE caller[c]]
    /\ \E b \in JobRow : job' = [job EXCEPT ![j] = b] /\ b.phase = "done"
                         /\ b.owner = job[j].owner

\* A job that ends keeps its record and answers everyone who waits for it (_JobRecord).
LEMMA EndedFits ==
    ASSUME HydTypes, JobsFit, NEW j \in Job, ~Over(j),
           NEW answer \in {"cache", "ok", "partial", "error", "cancelled"}, Ended(j, answer),
           Forget(j) \/ (UNCHANGED fetch /\ job[j].phase # "fetching")
    PROVE  /\ caller' \in [Caller -> CallerRow] /\ job' \in [Job -> JobRow]
           /\ fetch' \in [Job -> [Platform -> FetchRow]] /\ JobsFit' /\ TellsCallers(j, answer)
<1> DEFINE b == [NoJob EXCEPT !.phase = "done", !.owner = job[j].owner, !.subs = job[j].subs]
           gone == [p \in Platform |-> NotFetching]
<1>1. job[j] \in JobRow /\ fetch[j] \in [Platform -> FetchRow]
    BY DEF HydTypes
<1>2. /\ b \in JobRow /\ b.phase = "done" /\ b.owner = job[j].owner
      /\ \A p \in Platform : b.counts[p] = 0
    BY <1>1, RowsBegin DEF JobRow
<1>3. TodoFits(b)
    BY <1>2 DEF TodoFits
<1>4. job' = [job EXCEPT ![j] = b]
    BY DEF Ended
<1>5. TellsCallers(j, answer)
    BY <1>2, <1>4 DEF TellsCallers, Ended
<1>6. caller' \in [Caller -> CallerRow]
    <2>1. ASSUME NEW c \in Caller
          PROVE  [caller[c] EXCEPT !.answer = answer] \in CallerRow
        BY ZenonT(30) DEF HydTypes, CallerRow
    <2> QED BY <2>1 DEF Ended, HydTypes
<1> HIDE DEF b
<1>7. CASE Forget(j)
    <2>1. fetch' = [fetch EXCEPT ![j] = gone]
        BY <1>7 DEF Forget
    <2>2. gone \in [Platform -> FetchRow]
          /\ \A p \in Platform : FetchFits(b, gone[p], p, Platforms[j])
        BY <1>2, <1>3, ForgottenFits, IdleFits
    <2> HIDE DEF gone
    <2> QED BY <1>2, <1>3, <1>4, <1>5, <1>6, <2>1, <2>2, JobChanges
<1>8. CASE UNCHANGED fetch /\ job[j].phase # "fetching"
    <2>1. fetch' = [fetch EXCEPT ![j] = fetch[j]]
        BY <1>8 DEF HydTypes
    <2>2. \A p \in Platform : fetch[j][p].phase = "idle" /\ fetch[j][p].page <= LastPage[p]
        BY <1>8 DEF JobsFit, FetchFits
    <2>3. \A p \in Platform : FetchFits(b, fetch[j][p], p, Platforms[j])
        BY <1>1, <1>2, <1>3, <2>2, IdleFits
    <2> QED BY <1>1, <1>2, <1>3, <1>4, <1>5, <1>6, <2>1, <2>3, JobChanges
<1> QED BY <1>7, <1>8

\* A step of a job that goes on: nobody is answered, nobody is dropped.
GoesOn(j) ==
    /\ ~Over(j)
    /\ UNCHANGED caller
    /\ \E b \in JobRow :
          /\ job' = [job EXCEPT ![j] = b] /\ b.phase \notin {"none", "done"}
          /\ b.owner = job[j].owner /\ b.subs = job[j].subs
          /\ b.cancel \/ b.outcome = "cancelled" => Leaving(j)

\* A job that stops fetching goes on to release its leases and to record the run.
LEMMA SettlingFits ==
    ASSUME HydTypes, JobsFit, NEW j \in Job, ~Over(j), UNCHANGED caller,
           NEW outcome \in {"ok", "partial", "error", "cancelled"}, NEW todo \in Duties,
           outcome = "cancelled" => Leaving(j), Settling(j, outcome, todo)
    PROVE  /\ job' \in [Job -> JobRow] /\ fetch' \in [Job -> [Platform -> FetchRow]]
           /\ JobsFit' /\ GoesOn(j)
<1> DEFINE b == [NoJob EXCEPT !.phase = "settling", !.owner = job[j].owner,
                     !.subs = job[j].subs, !.leased = job[j].leased, !.outcome = outcome,
                     !.todo = todo]
           gone == [p \in Platform |-> NotFetching]
<1>1. job[j] \in JobRow /\ todo \in Todo
    BY DEF HydTypes, Todo
<1>2. /\ b \in JobRow /\ b.phase = "settling" /\ b.owner = job[j].owner
      /\ b.subs = job[j].subs /\ ~b.cancel /\ b.outcome = outcome /\ b.todo = todo
      /\ \A p \in Platform : b.counts[p] = 0
    BY <1>1, RowsBegin DEF JobRow
<1>3. TodoFits(b)
    BY <1>2 DEF TodoFits
<1>4. job' = [job EXCEPT ![j] = b] /\ fetch' = [fetch EXCEPT ![j] = gone]
    BY DEF Settling, Forget
<1> HIDE DEF b
<1>5. GoesOn(j)
    BY <1>2, <1>4 DEF GoesOn
<1>6. gone \in [Platform -> FetchRow]
      /\ \A p \in Platform : FetchFits(b, gone[p], p, Platforms[j])
    BY <1>2, <1>3, ForgottenFits, IdleFits
<1> HIDE DEF gone
<1> QED BY <1>2, <1>3, <1>4, <1>5, <1>6, JobChanges

-----------------------------------------------------------------------------
(***************************************************************************)
(* The steps of a job.                                                     *)
(***************************************************************************)
JobStep(j) ==
    \/ GoesOn(j)
    \/ \E answer \in {"cache", "ok", "partial", "error", "cancelled"} :
          TellsCallers(j, answer) /\ (answer = "cancelled" => Leaving(j))

JobSteps(j) == HydTypes' /\ JobsFit' /\ JobStep(j)

\* Inspecting the cache either ends the job at once or opens a run (_run_job).
LEMMA InspectFits ==
    ASSUME HydTypes, JobsFit, NEW j \in Job, Inspect(j)
    PROVE  JobSteps(j)
<1>1. ~Over(j) /\ ~job[j].cancel /\ job[j].phase = "inspecting"
    BY DEF Inspect, Live, Over
<1>2. CASE Ended(j, "cache") /\ UNCHANGED fetch
    BY <1>1, <1>2, EndedFits DEF Inspect, JobSteps, JobStep, HydTypes
<1>3. ASSUME ~(Ended(j, "cache") /\ UNCHANGED fetch)
      PROVE  JobSteps(j)
    <2> DEFINE counts == [p \in Platform |->
                   IF p \in Platforms[j] THEN Cardinality(scope[p].fresh) ELSE 0]
               b == [job[j] EXCEPT !.phase = "creating", !.counts = counts]
               F == [p \in Platform |-> [NotFetching EXCEPT !.seen = scope[p].fresh]]
    <2>1. /\ job' = [job EXCEPT ![j] = b] /\ fetch' = [fetch EXCEPT ![j] = F]
          /\ UNCHANGED <<caller, hydRuns, scope, ledger, sent, hydMishaps>>
        BY <1>3 DEF Inspect
    <2>2. \A p \in Platform : scope[p].fresh \in SUBSET Offer
        BY DEF HydTypes, ScopeRow
    <2>3. counts \in [Platform -> Nat]
        BY <2>2, OffersFit DEF OffersCount
    <2>4. job[j] \in JobRow
        BY DEF HydTypes
    <2>5. /\ b \in JobRow /\ b.phase = "creating" /\ b.counts = counts
          /\ b.owner = job[j].owner /\ b.subs = job[j].subs /\ b.cancel = job[j].cancel
          /\ b.outcome = job[j].outcome
        BY <2>3, <2>4 DEF JobRow
    <2>6. /\ F \in [Platform -> FetchRow]
          /\ \A p \in Platform : F[p].phase = "idle" /\ F[p].page = 1
                                 /\ F[p].seen = scope[p].fresh
        BY <2>2, RowsBegin DEF FetchRow
    <2>7. ASSUME NEW p \in Platform
          PROVE  /\ counts[p] <= Cardinality(Offer)
                 /\ p \in Platforms[j] => counts[p] = Cardinality(scope[p].fresh)
        BY <2>2, OffersFit DEF OffersCount
    <2> HIDE DEF b, F, counts
    <2>8. \A p \in Platform : FetchFits(b, F[p], p, Platforms[j])
        BY <2>5, <2>6, <2>7, HydAssumption DEF FetchFits
    <2>9. TodoFits(b)
        BY <2>5 DEF TodoFits
    <2>10. GoesOn(j)
        BY <1>1, <2>1, <2>5 DEF GoesOn, Leaving
    <2>11. job' \in [Job -> JobRow] /\ fetch' \in [Job -> [Platform -> FetchRow]] /\ JobsFit'
        BY <2>1, <2>5, <2>6, <2>8, <2>9, JobChanges
    <2> QED BY <2>1, <2>10, <2>11 DEF JobSteps, JobStep, HydTypes
<1> QED BY <1>2, <1>3

\* A set of platforms can be put in order.
LEMMA PlatformsInOrder ==
    ASSUME NEW j \in Job
    PROVE  SetToSeq(Platforms[j]) \in Seq(Platform) /\ SetToSeq(Platforms[j]) # <<>>
<1> DEFINE S == Platforms[j]
<1>1. S \subseteq Platform /\ S # {} /\ IsFiniteSet(S)
    BY HydAssumption, FS_Subset
<1>2. PICK n \in Nat : ExistsBijection(1..n, S)
    BY <1>1, FS_NatBijection
<1>3. PICK f \in [1..n -> S] : IsInjective(f)
    <2>1. PICK f \in Bijection(1..n, S) : TRUE
        BY <1>2 DEF ExistsBijection
    <2>2. f \in [1..n -> S] /\ IsInjective(f)
        BY <2>1, Zenon DEF Bijection, Injection
    <2> QED BY <2>2
<1>4. Cardinality(S) = n
    BY <1>1, <1>2, FS_CountingElements
<1>5. SetToSeq(S) \in [1..n -> S]
    BY <1>3, <1>4 DEF SetToSeq
<1>6. n # 0
    <2> SUFFICES ASSUME n = 0 PROVE FALSE
        OBVIOUS
    <2>1. S = {}
        BY <1>1, <1>4, FS_EmptySet
    <2> QED BY <1>1, <2>1
<1> HIDE DEF S
<1>7. SetToSeq(S) \in Seq(S) /\ Len(SetToSeq(S)) = n
    BY <1>5
<1>8. SetToSeq(S) # <<>>
    BY <1>6, <1>7
<1>9. SetToSeq(S) \in Seq(Platform)
    BY <1>1, <1>5, <1>7
<1> QED BY <1>8, <1>9 DEF S

\* Creating the run puts every wanted platform on the list of leases to acquire.
LEMMA CreateFits ==
    ASSUME HydTypes, JobsFit, NEW j \in Job, CreateHydrationRun(j)
    PROVE  JobSteps(j)
<1> DEFINE todo == SetToSeq(Platforms[j])
           b == [job[j] EXCEPT !.phase = "leasing", !.todo = todo]
<1>1. ~Over(j) /\ ~job[j].cancel /\ job[j].phase = "creating"
    BY DEF CreateHydrationRun, Live, Over
<1>2. /\ job' = [job EXCEPT ![j] = b]
      /\ UNCHANGED <<caller, fetch, scope, ledger, sent, hydMishaps>>
      /\ hydRuns' = [hydRuns EXCEPT ![job[j].owner] = "running"]
    BY DEF CreateHydrationRun
<1>3. todo \in Seq(Platform) /\ todo # <<>>
    BY PlatformsInOrder
<1>4. job[j] \in JobRow /\ fetch[j] \in [Platform -> FetchRow]
    BY DEF HydTypes
<1> HIDE DEF todo
<1>5. /\ b \in JobRow /\ b.phase = "leasing" /\ b.todo = todo /\ b.counts = job[j].counts
      /\ b.owner = job[j].owner /\ b.subs = job[j].subs /\ b.cancel = job[j].cancel
      /\ b.outcome = job[j].outcome
    BY <1>3, <1>4 DEF JobRow, Todo
<1> HIDE DEF b
<1>6. \A p \in Platform : FetchFits(b, fetch[j][p], p, Platforms[j])
    BY <1>1, <1>5 DEF JobsFit, FetchFits
<1>7. TodoFits(b)
    BY <1>3, <1>5 DEF TodoFits
<1>8. GoesOn(j)
    BY <1>1, <1>2, <1>5 DEF GoesOn, Leaving
<1>9. fetch' = [fetch EXCEPT ![j] = fetch[j]]
    BY <1>2 DEF HydTypes
<1>10. job' \in [Job -> JobRow] /\ fetch' \in [Job -> [Platform -> FetchRow]] /\ JobsFit'
    BY <1>2, <1>4, <1>5, <1>6, <1>7, <1>9, JobChanges
<1>11. hydRuns' \in [Caller -> {"none", "running", "finished"}]
    BY <1>2 DEF HydTypes
<1> QED BY <1>2, <1>8, <1>10, <1>11 DEF JobSteps, JobStep, HydTypes

\* The head of a list that is not empty, and the list after it.
LEMMA Listing ==
    ASSUME NEW S, NEW s \in Seq(S), s # <<>>
    PROVE  /\ Head(s) \in S /\ Tail(s) \in Seq(S)
           /\ Len(s) # 1 => Tail(s) # <<>>
<1>1. Len(s) \in Nat /\ Len(s) # 0
    BY EmptySeq
<1>2. Head(s) \in S /\ Tail(s) \in Seq(S) /\ Len(Tail(s)) = Len(s) - 1
    BY HeadTailProperties
<1> QED BY <1>1, <1>2

\* Acquiring a lease works off one platform; after the last one the fetches begin.
LEMMA LeaseFits ==
    ASSUME HydTypes, JobsFit, NEW j \in Job, AcquireScopeLease(j)
    PROVE  JobSteps(j)
<1> DEFINE p == Head(job[j].todo)
           last == Len(job[j].todo) = 1
           b == [job[j] EXCEPT !.leased = IF LeaseActive(p) THEN @ ELSE @ \cup {p},
                               !.todo = Tail(@), !.phase = IF last THEN "fetching" ELSE @]
           F == IF last
                THEN [q \in Platform |-> [fetch[j][q] EXCEPT !.phase =
                                              IF q \in Platforms[j] THEN "asking" ELSE @]]
                ELSE fetch[j]
<1>1. ~Over(j) /\ ~job[j].cancel /\ job[j].phase = "leasing"
    BY DEF AcquireScopeLease, Live, Over
<1>2. job[j] \in JobRow /\ fetch[j] \in [Platform -> FetchRow]
    BY DEF HydTypes
<1>3. job[j].todo \in Seq(Platform) /\ job[j].todo # <<>>
    BY <1>1 DEF JobsFit, TodoFits
<1>4. /\ Head(job[j].todo) \in Platform /\ Tail(job[j].todo) \in Seq(Platform)
      /\ Len(job[j].todo) # 1 => Tail(job[j].todo) # <<>>
    BY <1>3, Listing
<1>5. /\ job' = [job EXCEPT ![j] = b]
      /\ UNCHANGED <<caller, hydRuns, ledger, sent, hydMishaps>>
    BY Zenon DEF AcquireScopeLease
<1>6. fetch' = [fetch EXCEPT ![j] = F]
    <2>1. CASE last
        BY <2>1, Zenon DEF AcquireScopeLease
    <2>2. CASE ~last
        <3>1. fetch' = fetch
            BY <2>2, Zenon DEF AcquireScopeLease
        <3> QED BY <2>2, <3>1 DEF HydTypes
    <2> QED BY <2>1, <2>2
<1>7. \/ UNCHANGED scope
      \/ scope' = [scope EXCEPT ![p] = [@ EXCEPT !.lease = job[j].owner, !.lapsed = FALSE]]
    BY DEF AcquireScopeLease
<1>8. scope' \in [Platform -> ScopeRow]
    <2>1. job[j].owner \in Caller \cup {NoCaller}
        BY <1>2 DEF JobRow
    <2>2. CASE UNCHANGED scope
        BY <2>2 DEF HydTypes
    <2>3. ASSUME NEW q \in Platform, NEW o \in Caller \cup {NoCaller},
                 scope' = [scope EXCEPT ![q] = [@ EXCEPT !.lease = o, !.lapsed = FALSE]]
          PROVE  scope' \in [Platform -> ScopeRow]
        BY <2>3, ZenonT(30) DEF HydTypes, ScopeRow
    <2> QED BY <1>4, <1>7, <2>1, <2>2, <2>3
<1>9. /\ b \in JobRow /\ b.phase = (IF last THEN "fetching" ELSE "leasing")
      /\ b.todo = Tail(job[j].todo) /\ b.counts = job[j].counts
      /\ b.owner = job[j].owner /\ b.subs = job[j].subs /\ b.cancel = job[j].cancel
      /\ b.outcome = job[j].outcome
    BY <1>1, <1>2, <1>4 DEF JobRow, Todo
<1>10. F \in [Platform -> FetchRow]
    BY <1>2 DEF FetchRow
<1>11. ASSUME NEW q \in Platform
       PROVE  /\ F[q].page = fetch[j][q].page /\ F[q].seen = fetch[j][q].seen
              /\ F[q].phase = (IF last /\ q \in Platforms[j] THEN "asking"
                               ELSE fetch[j][q].phase)
    BY <1>2 DEF FetchRow
<1> HIDE DEF b, F, p
<1>12. ASSUME NEW q \in Platform
       PROVE  FetchFits(b, F[q], q, Platforms[j])
    <2>1. FetchFits(job[j], fetch[j][q], q, Platforms[j])
        BY DEF JobsFit
    <2>2. fetch[j][q].phase = "idle"
        BY <1>1, <2>1 DEF FetchFits
    <2> QED BY <1>1, <1>9, <1>11, <2>1, <2>2 DEF FetchFits
<1>13. TodoFits(b)
    BY <1>4, <1>9 DEF TodoFits
<1>14. GoesOn(j)
    BY <1>1, <1>5, <1>9 DEF GoesOn, Leaving
<1>15. job' \in [Job -> JobRow] /\ fetch' \in [Job -> [Platform -> FetchRow]] /\ JobsFit'
    BY <1>5, <1>6, <1>9, <1>10, <1>12, <1>13, JobChanges
<1> QED BY <1>5, <1>8, <1>14, <1>15 DEF JobSteps, JobStep, HydTypes

\* A step of one platform's fetches leaves the other platforms alone.
FetchTo(j, p, b, f) ==
    /\ UNCHANGED caller
    /\ job' = [job EXCEPT ![j] = b] /\ fetch' = [fetch EXCEPT ![j][p] = f]
    /\ b.phase = "fetching" /\ b.owner = job[j].owner /\ b.subs = job[j].subs
    /\ b.cancel = job[j].cancel /\ b.outcome = job[j].outcome
    /\ \A q \in Platform \ {p} : b.counts[q] = job[j].counts[q]

\* A step of one platform's fetch, which may count towards its job.
LEMMA FetchChanges ==
    ASSUME HydTypes, JobsFit, NEW j \in Job, NEW p \in Platform, Live(j, "fetching"),
           NEW b \in JobRow, NEW f \in FetchRow, FetchTo(j, p, b, f),
           FetchFits(b, f, p, Platforms[j])
    PROVE  /\ job' \in [Job -> JobRow] /\ fetch' \in [Job -> [Platform -> FetchRow]]
           /\ JobsFit' /\ GoesOn(j)
<1> USE DEF FetchTo
<1> DEFINE F == [fetch[j] EXCEPT ![p] = f]
<1>1. fetch[j] \in [Platform -> FetchRow] /\ job[j].phase = "fetching" /\ ~Over(j)
    BY DEF HydTypes, Live, Over
<1>2. F \in [Platform -> FetchRow] /\ F[p] = f /\ \A q \in Platform \ {p} : F[q] = fetch[j][q]
    BY <1>1
<1>3. fetch' = [fetch EXCEPT ![j] = F]
    OBVIOUS
<1> HIDE DEF F
<1>4. ASSUME NEW q \in Platform
      PROVE  FetchFits(b, F[q], q, Platforms[j])
    <2>1. CASE q = p
        BY <2>1, <1>2
    <2>2. CASE q # p
        BY <2>2, <1>1, <1>2 DEF JobsFit, FetchFits
    <2> QED BY <2>1, <2>2
<1>5. TodoFits(b)
    BY DEF TodoFits
<1>6. GoesOn(j)
    BY <1>1 DEF GoesOn, Leaving
<1> QED BY <1>2, <1>3, <1>4, <1>5, <1>6, JobChanges

\* When only the fetch of a platform changes, the record of the job still fits.
LEMMA FetchMoves ==
    ASSUME HydTypes, JobsFit, NEW j \in Job, NEW p \in Platform, Live(j, "fetching"),
           UNCHANGED <<caller, job>>, NEW f \in FetchRow, fetch' = [fetch EXCEPT ![j][p] = f],
           FetchFits(job[j], f, p, Platforms[j])
    PROVE  /\ job' \in [Job -> JobRow] /\ fetch' \in [Job -> [Platform -> FetchRow]]
           /\ JobsFit' /\ GoesOn(j)
<1>1. job[j] \in JobRow /\ job' = [job EXCEPT ![j] = job[j]]
    BY DEF HydTypes
<1>2. job[j].phase = "fetching"
    BY DEF Live
<1>3. FetchTo(j, p, job[j], f)
    BY <1>1, <1>2 DEF FetchTo
<1> QED BY <1>1, <1>3, FetchChanges

\* A fetch that stops leaves the counters of its job alone.
LEMMA StopFits ==
    ASSUME HydTypes, JobsFit, NEW j \in Job, NEW p \in Platform, Live(j, "fetching"),
           NEW b \in JobRow, b.phase = "fetching", b.counts = job[j].counts
    PROVE  FetchFits(b, Fetched, p, Platforms[j])
BY RowsBegin, HydAssumption DEF FetchFits, JobsFit

\* A platform leased elsewhere counts as partial and exhausted.
LEMMA NotLeasedFits ==
    ASSUME HydTypes, JobsFit, NEW j \in Job, NEW p \in Platform, NotLeased(j, p)
    PROVE  JobSteps(j)
<1> DEFINE b == [job[j] EXCEPT !.partial = @ \cup {p}, !.exhausted = @ \cup {p}]
<1>1. job[j] \in JobRow
    BY DEF HydTypes
<1>2. /\ b \in JobRow /\ b.phase = job[j].phase /\ b.owner = job[j].owner
      /\ b.subs = job[j].subs /\ b.cancel = job[j].cancel /\ b.outcome = job[j].outcome
      /\ b.counts = job[j].counts
    BY <1>1 DEF JobRow
<1>3. /\ Live(j, "fetching") /\ job[j].phase = "fetching"
      /\ fetch' = [fetch EXCEPT ![j][p] = Fetched]
      /\ UNCHANGED <<caller, hydRuns, scope, ledger, sent, hydMishaps>>
    BY DEF NotLeased, Asking, Live, Stop
<1>4. job' = [job EXCEPT ![j] = b]
    BY <1>1 DEF NotLeased, HydTypes, JobRow
<1> HIDE DEF b
<1>5. FetchFits(b, Fetched, p, Platforms[j])
    BY <1>2, <1>3, StopFits
<1>6. FetchTo(j, p, b, Fetched)
    BY <1>2, <1>3, <1>4 DEF FetchTo
<1>7. /\ job' \in [Job -> JobRow] /\ fetch' \in [Job -> [Platform -> FetchRow]]
      /\ JobsFit' /\ GoesOn(j)
    BY <1>2, <1>3, <1>5, <1>6, RowsBegin, FetchChanges
<1> QED BY <1>3, <1>7 DEF JobSteps, JobStep, HydTypes

\* The policy ends the fetch of a platform without an effect on the job.
LEMMA PolicyStopsFits ==
    ASSUME HydTypes, JobsFit, NEW j \in Job, NEW p \in Platform, PolicyStops(j, p)
    PROVE  JobSteps(j)
<1>1. /\ Live(j, "fetching") /\ job[j].phase = "fetching"
      /\ fetch' = [fetch EXCEPT ![j][p] = Fetched]
      /\ UNCHANGED <<caller, job, hydRuns, scope, ledger, sent, hydMishaps>>
    BY DEF PolicyStops, Asking, Live, Stop
<1>2. job[j] \in JobRow
    BY DEF HydTypes
<1>3. FetchFits(job[j], Fetched, p, Platforms[j])
    BY <1>1, <1>2, StopFits
<1>4. /\ job' \in [Job -> JobRow] /\ fetch' \in [Job -> [Platform -> FetchRow]]
      /\ JobsFit' /\ GoesOn(j)
    BY <1>1, <1>3, RowsBegin, FetchMoves
<1> QED BY <1>1, <1>4 DEF JobSteps, JobStep, HydTypes

\* A page that somebody asked for today is not asked for again: the platform is exhausted.
LEMMA AlreadyAskedFits ==
    ASSUME HydTypes, JobsFit, NEW j \in Job, NEW p \in Platform, AlreadyAsked(j, p)
    PROVE  JobSteps(j)
<1> DEFINE b == [job[j] EXCEPT !.exhausted = @ \cup {p}]
<1>1. job[j] \in JobRow
    BY DEF HydTypes
<1>2. /\ b \in JobRow /\ b.phase = job[j].phase /\ b.owner = job[j].owner
      /\ b.subs = job[j].subs /\ b.cancel = job[j].cancel /\ b.outcome = job[j].outcome
      /\ b.counts = job[j].counts
    BY <1>1 DEF JobRow
<1>3. /\ Live(j, "fetching") /\ job[j].phase = "fetching"
      /\ fetch' = [fetch EXCEPT ![j][p] = Fetched]
      /\ UNCHANGED <<caller, hydRuns, scope, ledger, sent, hydMishaps>>
    BY DEF AlreadyAsked, Asking, Live, Stop
<1>4. job' = [job EXCEPT ![j] = b]
    BY <1>1 DEF AlreadyAsked, HydTypes, JobRow
<1> HIDE DEF b
<1>5. FetchFits(b, Fetched, p, Platforms[j])
    BY <1>2, <1>3, StopFits
<1>6. FetchTo(j, p, b, Fetched)
    BY <1>2, <1>3, <1>4 DEF FetchTo
<1>7. /\ job' \in [Job -> JobRow] /\ fetch' \in [Job -> [Platform -> FetchRow]]
      /\ JobsFit' /\ GoesOn(j)
    BY <1>2, <1>3, <1>5, <1>6, RowsBegin, FetchChanges
<1> QED BY <1>3, <1>7 DEF JobSteps, JobStep, HydTypes

\* The page that is asked for is a page of the platform.
LEMMA AskFits ==
    ASSUME HydTypes, JobsFit, NEW j \in Job, NEW p \in Platform
    PROVE  /\ NextAsk(j, p) \in Request
           /\ NextAsk(j, p)[2] \in Query /\ NextAsk(j, p)[3] \in Nat \ {0}
           /\ NextAsk(j, p)[3] <= LastPage[p]
<1>1. fetch[j][p].page \in 1..LastPage[p] /\ 1 \in 1..LastPage[p]
    BY HydAssumption DEF HydTypes, FetchRow, JobsFit, FetchFits
<1>2. ASSUME NEW q \in Query, NEW n \in 1..LastPage[p]
      PROVE  <<p, q, n>> \in Request
    BY <1>2 DEF Request
<1>3. LastPage[p] \in Nat
    BY HydAssumption
<1>4. CASE Varies(j, p)
    BY <1>1, <1>2, <1>3, <1>4 DEF NextAsk, Query
<1>5. CASE ~Varies(j, p)
    BY <1>1, <1>2, <1>3, <1>5 DEF NextAsk, Query
<1> QED BY <1>4, <1>5

\* A request is reserved in the ledger and leaves, in one step (reserve_request).
LEMMA ReserveFits ==
    ASSUME HydTypes, JobsFit, NEW j \in Job, NEW p \in Platform, ReserveRequest(j, p)
    PROVE  JobSteps(j)
<1> DEFINE r == NextAsk(j, p)
           varied == fetch[j][p].varied \/ Varies(j, p)
           f == [fetch[j][p] EXCEPT !.phase = "waiting", !.query = r[2], !.page = r[3],
                                    !.varied = varied]
<1>1. /\ Live(j, "fetching") /\ fetch[j][p].phase = "asking"
      /\ ledger' = [ledger EXCEPT ![r] = "reserved"]
      /\ sent' = [sent EXCEPT ![r] = IF @ < 2 THEN @ + 1 ELSE @]
      /\ fetch' = [fetch EXCEPT ![j][p] = f]
      /\ UNCHANGED <<caller, job, hydRuns, scope, hydMishaps>>
    BY Zenon DEF ReserveRequest, Asking
<1>2. varied \in BOOLEAN
    OBVIOUS
<1>3. /\ r \in Request /\ r[2] \in Query /\ r[3] \in Nat \ {0} /\ r[3] <= LastPage[p]
    BY AskFits
<1> HIDE DEF r, varied
<1>4. fetch[j][p] \in FetchRow /\ job[j].phase = "fetching"
    BY <1>1 DEF HydTypes, Live
<1>5. /\ f \in FetchRow /\ f.phase = "waiting" /\ f.page = r[3] /\ f.seen = fetch[j][p].seen
    BY <1>2, <1>3, <1>4 DEF FetchRow
<1> HIDE DEF f
<1>6. FetchFits(job[j], f, p, Platforms[j])
    BY <1>1, <1>3, <1>4, <1>5 DEF JobsFit, FetchFits
<1>7. /\ job' \in [Job -> JobRow] /\ fetch' \in [Job -> [Platform -> FetchRow]]
      /\ JobsFit' /\ GoesOn(j)
    BY <1>1, <1>5, <1>6, FetchMoves
<1>8. ledger' \in [Request -> {"free", "reserved", "finished"}] /\ sent' \in [Request -> 0..2]
    BY <1>1, <1>3 DEF HydTypes
<1> QED BY <1>1, <1>7, <1>8 DEF JobSteps, JobStep, HydTypes

\* A page is stored before the job takes note of it.
LEMMA PersistPageFits ==
    ASSUME HydTypes, JobsFit, NEW j \in Job, NEW p \in Platform, NEW kept \in SUBSET Offer,
           NEW more \in BOOLEAN, PersistPage(j, p, kept, more)
    PROVE  JobSteps(j)
<1> DEFINE f == [fetch[j][p] EXCEPT !.phase = "noting", !.kept = kept, !.ok = TRUE,
                                    !.more = more]
<1>1. /\ Live(j, "fetching") /\ fetch[j][p].phase = "waiting"
      /\ more => fetch[j][p].page < LastPage[p]
      /\ scope' = [scope EXCEPT ![p] = Stored(scope[p], kept)]
      /\ fetch' = [fetch EXCEPT ![j][p] = f]
      /\ UNCHANGED <<caller, job, hydRuns, ledger, sent, hydMishaps>>
    BY Zenon DEF PersistPage
<1>2. fetch[j][p] \in FetchRow /\ job[j].phase = "fetching"
    BY <1>1 DEF HydTypes, Live
<1>3. /\ f \in FetchRow /\ f.phase = "noting" /\ f.page = fetch[j][p].page
      /\ f.seen = fetch[j][p].seen /\ f.more = more
    BY <1>2 DEF FetchRow
<1> HIDE DEF f
<1>4. FetchFits(job[j], f, p, Platforms[j])
    BY <1>1, <1>2, <1>3 DEF JobsFit, FetchFits
<1>5. /\ job' \in [Job -> JobRow] /\ fetch' \in [Job -> [Platform -> FetchRow]]
      /\ JobsFit' /\ GoesOn(j)
    BY <1>1, <1>3, <1>4, FetchMoves
<1>6. scope' \in [Platform -> ScopeRow]
    <2>1. Stored(scope[p], kept) \in ScopeRow
        BY DEF HydTypes, Stored, ScopeRow
    <2> QED BY <1>1, <2>1 DEF HydTypes
<1> QED BY <1>1, <1>5, <1>6 DEF JobSteps, JobStep, HydTypes

\* A failed request keeps nothing and is noted like a page.
LEMMA ProviderFailsFits ==
    ASSUME HydTypes, JobsFit, NEW j \in Job, NEW p \in Platform, NEW more \in BOOLEAN,
           ProviderFails(j, p, more)
    PROVE  JobSteps(j)
<1> DEFINE f == [fetch[j][p] EXCEPT !.phase = "noting", !.kept = {}, !.ok = FALSE,
                                    !.more = more]
<1>1. /\ Live(j, "fetching") /\ fetch[j][p].phase = "waiting"
      /\ fetch' = [fetch EXCEPT ![j][p] = f]
      /\ UNCHANGED <<caller, job, hydRuns, scope, ledger, sent, hydMishaps>>
    BY Zenon DEF ProviderFails
<1>2. fetch[j][p] \in FetchRow /\ job[j].phase = "fetching"
    BY <1>1 DEF HydTypes, Live
<1>3. /\ f \in FetchRow /\ f.phase = "noting" /\ f.page = fetch[j][p].page
      /\ f.seen = fetch[j][p].seen /\ ~f.ok
    BY <1>2 DEF FetchRow
<1> HIDE DEF f
<1>4. FetchFits(job[j], f, p, Platforms[j])
    BY <1>1, <1>2, <1>3 DEF JobsFit, FetchFits
<1>5. /\ job' \in [Job -> JobRow] /\ fetch' \in [Job -> [Platform -> FetchRow]]
      /\ JobsFit' /\ GoesOn(j)
    BY <1>1, <1>3, <1>4, FetchMoves
<1> QED BY <1>1, <1>5 DEF JobSteps, JobStep, HydTypes

\* Finishing a request keeps the types, and no row becomes free.
LEMMA FinishedFits ==
    ASSUME HydTypes, NEW p, NEW f, NoteRequestFinished(p, f)
    PROVE  /\ ledger' \in [Request -> {"free", "reserved", "finished"}]
           /\ \A r \in Request : ledger'[r] = "free" => ledger[r] = "free"
BY DEF HydTypes, NoteRequestFinished

\* What the policy learns of a page.
LEMMA ObservedFits ==
    ASSUME NEW b \in JobRow, NEW f \in FetchRow, NEW p \in Platform
    PROVE  /\ Observed(b, p, f) \in JobRow
           /\ Observed(b, p, f).phase = b.phase /\ Observed(b, p, f).owner = b.owner
           /\ Observed(b, p, f).subs = b.subs /\ Observed(b, p, f).cancel = b.cancel
           /\ Observed(b, p, f).outcome = b.outcome
           /\ Observed(b, p, f).counts[p] =
                  b.counts[p] + IF f.ok THEN Cardinality(NewOffers(f)) ELSE 0
           /\ \A q \in Platform \ {p} : Observed(b, p, f).counts[q] = b.counts[q]
<1>1. NewOffers(f) \in SUBSET Offer
    BY DEF NewOffers, FetchRow
<1>2. PICK n \in Nat : n = Cardinality(NewOffers(f))
    BY <1>1, OffersFit DEF OffersCount
<1> DEFINE o == [b EXCEPT !.attempts = @ + 1,
              !.successes = IF f.ok THEN @ + 1 ELSE @,
              !.pages = IF f.ok THEN @ \cup {p} ELSE @,
              !.counts[p] = IF f.ok THEN @ + n ELSE @,
              !.exhausted = IF f.more THEN @ ELSE @ \cup {p},
              !.partial = IF f.ok THEN @ ELSE @ \cup {p}]
<1>3. Observed(b, p, f) = o
    BY <1>2 DEF Observed
<1>4. f.ok \in BOOLEAN /\ f.more \in BOOLEAN
    BY DEF FetchRow
<1> DEFINE m == IF f.ok THEN n ELSE 0
           counts == [b.counts EXCEPT ![p] = @ + m]
<1>5. /\ counts \in [Platform -> Nat] /\ counts[p] = b.counts[p] + m
      /\ \A q \in Platform \ {p} : counts[q] = b.counts[q]
    BY <1>4 DEF JobRow
<1> DEFINE attempts == b.attempts + 1
           successes == IF f.ok THEN b.successes + 1 ELSE b.successes
           pages == IF f.ok THEN b.pages \cup {p} ELSE b.pages
           exhausted == IF f.more THEN b.exhausted ELSE b.exhausted \cup {p}
           partial == IF f.ok THEN b.partial ELSE b.partial \cup {p}
<1>a. /\ attempts \in Nat /\ successes \in Nat /\ pages \in SUBSET Platform
      /\ exhausted \in SUBSET Platform /\ partial \in SUBSET Platform
    BY <1>4 DEF JobRow
<1>6. o = [b EXCEPT !.attempts = attempts, !.successes = successes, !.pages = pages,
                    !.counts = counts, !.exhausted = exhausted, !.partial = partial]
    <2>1. [b EXCEPT !.counts[p] = IF f.ok THEN @ + n ELSE @]
            = [b EXCEPT !.counts = counts]
        BY <1>4 DEF JobRow
    <2> QED BY <1>4, <2>1 DEF JobRow
<1> HIDE DEF o, counts, attempts, successes, pages, exhausted, partial
<1>7. /\ o \in JobRow /\ o.phase = b.phase /\ o.owner = b.owner
      /\ o.subs = b.subs /\ o.cancel = b.cancel /\ o.outcome = b.outcome
      /\ o.counts = counts
    BY <1>5, <1>6, <1>a DEF JobRow
<1> QED BY <1>2, <1>3, <1>5, <1>7

\* Noting a page counts its new offers, each once, and turns to the next page or stops.
LEMMA NotePageFits ==
    ASSUME HydTypes, JobsFit, NEW j \in Job, NEW p \in Platform, NotePage(j, p)
    PROVE  JobSteps(j)
<1> DEFINE old == fetch[j][p]
           b == Observed(job[j], p, old)
           low == IF Cardinality(NewOffers(old)) >= LowYield THEN 0
                  ELSE IF old.low < 2 THEN old.low + 1 ELSE 2
           next == [NotFetching EXCEPT !.phase = "asking", !.page = old.page + 1,
                        !.varied = old.varied, !.low = low, !.seen = old.seen \cup old.kept]
           g == IF old.ok /\ old.more THEN next ELSE Fetched
<1>1. /\ Live(j, "fetching") /\ old.phase = "noting" /\ NoteRequestFinished(p, old)
      /\ job' = [job EXCEPT ![j] = b]
      /\ fetch' = [fetch EXCEPT ![j][p] = g]
      /\ UNCHANGED <<caller, hydRuns, scope, sent, hydMishaps>>
    BY Zenon DEF NotePage
<1>2. old \in FetchRow /\ job[j] \in JobRow /\ job[j].phase = "fetching"
    BY <1>1 DEF HydTypes, Live
<1>3. FetchFits(job[j], old, p, Platforms[j])
    BY DEF JobsFit
<1>4. /\ b \in JobRow /\ b.phase = "fetching" /\ b.owner = job[j].owner
      /\ b.subs = job[j].subs /\ b.cancel = job[j].cancel /\ b.outcome = job[j].outcome
      /\ b.counts[p] = job[j].counts[p] + IF old.ok THEN Cardinality(NewOffers(old)) ELSE 0
      /\ \A q \in Platform \ {p} : b.counts[q] = job[j].counts[q]
    BY <1>2, ObservedFits
<1>5. /\ old.seen \in SUBSET Offer /\ old.kept \in SUBSET Offer
      /\ old.seen \cup old.kept \in SUBSET Offer
      /\ NewOffers(old) \in SUBSET Offer
    BY <1>2 DEF FetchRow, NewOffers
<1>6. Cardinality(old.seen \cup old.kept) = Cardinality(old.seen) + Cardinality(NewOffers(old))
    <2>1. /\ IsFiniteSet(old.seen) /\ IsFiniteSet(NewOffers(old))
          /\ old.seen \cap NewOffers(old) = {}
          /\ old.seen \cup NewOffers(old) = old.seen \cup old.kept
        BY <1>5, HydAssumption, FS_Subset DEF NewOffers
    <2>2. Cardinality(old.seen \cup NewOffers(old))
            = Cardinality(old.seen) + Cardinality(NewOffers(old)) - Cardinality({})
        BY <2>1, FS_Union
    <2>3. Cardinality({}) = 0
        BY FS_EmptySet
    <2>4. PICK n, m \in Nat : n = Cardinality(old.seen) /\ m = Cardinality(NewOffers(old))
        BY <1>5, OffersFit DEF OffersCount
    <2>5. Cardinality(old.seen \cup NewOffers(old)) = n + m
        BY <2>2, <2>3, <2>4
    <2> QED BY <2>1, <2>4, <2>5
<1>7. low \in 0..2
    BY <1>2 DEF FetchRow
<1> HIDE DEF b, low
<1>8. /\ next \in FetchRow /\ next.phase = "asking" /\ next.page = old.page + 1
      /\ next.seen = old.seen \cup old.kept
    <2>1. PICK page \in Nat \ {0}, varied \in BOOLEAN, n \in 0..2, seen \in SUBSET Offer :
              page = old.page + 1 /\ varied = old.varied /\ n = low /\ seen = old.seen \cup old.kept
        <3>1. old.page + 1 \in Nat \ {0} /\ old.varied \in BOOLEAN
            BY <1>2 DEF FetchRow
        <3> QED BY <1>5, <1>7, <3>1
    <2>2. next = [NotFetching EXCEPT !.phase = "asking", !.page = page, !.varied = varied,
                                     !.low = n, !.seen = seen]
        BY <2>1
    <2> HIDE DEF next
    <2> QED BY <2>1, <2>2, RowsBegin DEF FetchRow
<1> HIDE DEF next
<1>9. g \in FetchRow
    BY <1>8, RowsBegin
<1>10. FetchFits(b, g, p, Platforms[j])
    <2>1. job[j].counts[p] = Cardinality(old.seen)
        BY <1>1, <1>3 DEF FetchFits
    <2>2. CASE old.ok /\ old.more
        <3>1. b.counts[p] = Cardinality(next.seen)
            BY <1>4, <1>6, <1>8, <2>1, <2>2
        <3>2. b.counts[p] <= Cardinality(Offer)
            BY <1>5, <1>8, <3>1, OffersFit DEF OffersCount
        <3>3. next.page <= LastPage[p]
            BY <1>1, <1>2, <1>3, <1>8, <2>2, HydAssumption DEF FetchFits, FetchRow
        <3> QED BY <1>4, <1>8, <2>2, <3>1, <3>2, <3>3 DEF FetchFits
    <2>3. CASE ~(old.ok /\ old.more)
        <3>1. b.counts[p] <= Cardinality(Offer)
            <4>1. CASE old.ok
                <5>1. b.counts[p] = Cardinality(old.seen \cup old.kept)
                    BY <1>4, <1>6, <2>1, <4>1
                <5> QED BY <1>5, <5>1, OffersFit DEF OffersCount
            <4>2. CASE ~old.ok
                <5>1. b.counts[p] = Cardinality(old.seen)
                    BY <1>4, <1>5, <2>1, <4>2, OffersFit DEF OffersCount
                <5> QED BY <1>5, <5>1, OffersFit DEF OffersCount
            <4> QED BY <4>1, <4>2
        <3>2. g = Fetched
            BY <2>3
        <3> QED BY <1>4, <3>1, <3>2, RowsBegin, HydAssumption DEF FetchFits
    <2> QED BY <2>2, <2>3
<1> HIDE DEF g
<1>11. /\ job' \in [Job -> JobRow] /\ fetch' \in [Job -> [Platform -> FetchRow]]
       /\ JobsFit' /\ GoesOn(j)
    <2>1. FetchTo(j, p, b, g)
        BY <1>1, <1>4 DEF FetchTo
    <2> QED BY <1>1, <1>4, <1>9, <1>10, <2>1, FetchChanges
<1>12. ledger' \in [Request -> {"free", "reserved", "finished"}]
    BY <1>1, FinishedFits
<1> QED BY <1>1, <1>11, <1>12 DEF JobSteps, JobStep, HydTypes

\* When every platform is done, the leases are released and then the run is recorded.
LEMMA DoneFits ==
    ASSUME HydTypes, JobsFit, NEW j \in Job, FetchesDone(j)
    PROVE  JobSteps(j)
<1>1. PICK outcome \in {"ok", "partial"} : Settling(j, outcome, <<"release", "record">>)
    BY DEF FetchesDone
<1>2. ~Over(j) /\ UNCHANGED <<caller, hydRuns, scope, ledger, sent, hydMishaps>>
    BY DEF FetchesDone, Live, Over
<1>3. <<"release", "record">> \in Duties
    BY DEF Duties
<1>4. /\ job' \in [Job -> JobRow] /\ fetch' \in [Job -> [Platform -> FetchRow]]
      /\ JobsFit' /\ GoesOn(j)
    BY <1>1, <1>2, <1>3, SettlingFits
<1> QED BY <1>2, <1>4 DEF JobSteps, JobStep, HydTypes

\* A page that cannot be stored ends the whole job with an error.
LEMMA PersistFailsFits ==
    ASSUME HydTypes, JobsFit, NEW j \in Job, NEW p \in Platform, PersistFails(j, p)
    PROVE  JobSteps(j)
<1>1. /\ ~Over(j) /\ UNCHANGED <<caller, hydRuns, scope, sent>>
      /\ Settling(j, "error", <<"record", "release">>)
      /\ NoteRequestFinished(p, fetch[j][p])
    BY Zenon DEF PersistFails, Live, Over
<1>2. hydMishaps' \in 0..HydMishaps
    BY HydAssumption DEF PersistFails, HydTypes
<1>3. <<"record", "release">> \in Duties
    BY DEF Duties
<1>4. /\ job' \in [Job -> JobRow] /\ fetch' \in [Job -> [Platform -> FetchRow]]
      /\ JobsFit' /\ GoesOn(j)
    BY <1>1, <1>3, SettlingFits
<1>5. ledger' \in [Request -> {"free", "reserved", "finished"}]
    BY <1>1, FinishedFits
<1> QED BY <1>1, <1>2, <1>4, <1>5 DEF JobSteps, JobStep, HydTypes

\* A step that raises ends the task, and its record is still answered.
LEMMA RaisesFits ==
    ASSUME HydTypes, JobsFit, NEW j \in Job, Raises(j)
    PROVE  JobSteps(j)
<1>1. /\ ~Over(j) /\ UNCHANGED <<hydRuns, scope, ledger, sent>>
      /\ Ended(j, "error") /\ Forget(j)
    BY DEF Raises, Over
<1>2. hydMishaps' \in 0..HydMishaps
    BY HydAssumption DEF Raises, HydTypes
<1>3. PICK answer \in {"cache", "ok", "partial", "error", "cancelled"} : answer = "error"
    OBVIOUS
<1>4. /\ caller' \in [Caller -> CallerRow] /\ job' \in [Job -> JobRow]
      /\ fetch' \in [Job -> [Platform -> FetchRow]] /\ JobsFit' /\ TellsCallers(j, answer)
    <2>1. Ended(j, answer) /\ (Forget(j) \/ (UNCHANGED fetch /\ job[j].phase # "fetching"))
        BY <1>1, <1>3
    <2> QED BY <1>1, <2>1, EndedFits
<1> QED BY <1>1, <1>2, <1>3, <1>4 DEF JobSteps, JobStep, HydTypes

\* The two steps of the end are worked off one after the other, in either order.
LEMMA DutiesEnd == \A s \in Duties : Len(s) # 1 => Tail(s) \in Duties
<1>1. /\ Tail(<<"release", "record">>) = <<"record">>
      /\ Tail(<<"record", "release">>) = <<"release">>
    OBVIOUS
<1>2. Len(<<"record">>) = 1 /\ Len(<<"release">>) = 1
    OBVIOUS
<1> QED BY <1>1, <1>2 DEF Duties

\* One of the two steps of the end; after the last one the job answers its callers.
LEMMA SettleFits ==
    ASSUME HydTypes, JobsFit, NEW j \in Job, Settle(j)
    PROVE  JobSteps(j)
<1>1. /\ ~Over(j) /\ job[j].phase = "settling" /\ ~job[j].cancel
      /\ UNCHANGED <<fetch, ledger, sent, hydMishaps>>
    BY DEF Settle, Live, Over
<1>2. /\ job[j] \in JobRow /\ fetch[j] \in [Platform -> FetchRow]
      /\ job[j].todo \in Duties /\ job[j].outcome # "none"
    BY <1>1 DEF HydTypes, JobsFit, TodoFits
<1>3. hydRuns' \in [Caller -> {"none", "running", "finished"}]
    BY DEF Settle, FinishHydrationRun, HydTypes
<1>4. scope' \in [Platform -> ScopeRow]
    <2>1. \A p \in Platform : [scope[p] EXCEPT !.lease = NoCaller, !.lapsed = FALSE] \in ScopeRow
        BY DEF HydTypes, ScopeRow
    <2>2. CASE ReleaseScopeLeases(j)
        BY <2>1, <2>2 DEF ReleaseScopeLeases, HydTypes
    <2>3. CASE UNCHANGED scope
        BY <2>3 DEF HydTypes
    <2> QED BY <2>2, <2>3 DEF Settle
<1>5. CASE Len(job[j].todo) = 1
    <2>1. PICK answer \in {"cache", "ok", "partial", "error", "cancelled"} :
              answer = job[j].outcome
        BY <1>2 DEF JobRow
    <2>2. Ended(j, answer)
        BY <1>5, <2>1, Zenon DEF Settle
    <2>3. UNCHANGED fetch /\ job[j].phase # "fetching"
        BY <1>1
    <2>4. /\ caller' \in [Caller -> CallerRow] /\ job' \in [Job -> JobRow]
          /\ fetch' \in [Job -> [Platform -> FetchRow]] /\ JobsFit' /\ TellsCallers(j, answer)
        BY <1>1, <2>2, <2>3, EndedFits
    <2>5. answer = "cancelled" => Leaving(j)
        BY <2>1 DEF Leaving
    <2> QED BY <1>1, <1>3, <1>4, <2>4, <2>5 DEF JobSteps, JobStep, HydTypes
<1>6. CASE Len(job[j].todo) # 1
    <2> DEFINE b == [job[j] EXCEPT !.todo = Tail(@)]
    <2>1. Tail(job[j].todo) \in Duties
        BY <1>2, <1>6, DutiesEnd
    <2>2. /\ b \in JobRow /\ b.phase = "settling" /\ b.owner = job[j].owner
          /\ b.subs = job[j].subs /\ b.cancel = job[j].cancel /\ b.outcome = job[j].outcome
          /\ b.todo \in Duties /\ b.counts = job[j].counts
        BY <1>1, <1>2, <2>1 DEF JobRow, Todo
    <2>3. job' = [job EXCEPT ![j] = b] /\ UNCHANGED caller
        BY <1>2, <1>6 DEF Settle, HydTypes, JobRow
    <2> HIDE DEF b
    <2>4. TodoFits(b)
        BY <1>2, <2>2 DEF TodoFits
    <2>5. \A p \in Platform : FetchFits(b, fetch[j][p], p, Platforms[j])
        BY <1>1, <2>2 DEF JobsFit, FetchFits
    <2>6. fetch' = [fetch EXCEPT ![j] = fetch[j]]
        BY <1>1 DEF HydTypes
    <2>7. job' \in [Job -> JobRow] /\ fetch' \in [Job -> [Platform -> FetchRow]] /\ JobsFit'
        BY <1>2, <2>2, <2>3, <2>4, <2>5, <2>6, JobChanges
    <2>8. GoesOn(j)
        BY <1>1, <2>2, <2>3 DEF GoesOn, Leaving
    <2> QED BY <1>1, <1>3, <1>4, <2>3, <2>7, <2>8 DEF JobSteps, JobStep, HydTypes
<1> QED BY <1>5, <1>6

\* A cancel interrupts the job where it is: it releases its leases, or ends at once.
LEMMA CancelArrivesFits ==
    ASSUME HydTypes, JobsFit, NEW j \in Job, CancelArrives(j)
    PROVE  JobSteps(j)
<1>1. ~Over(j) /\ job[j].cancel /\ UNCHANGED <<hydRuns, scope, ledger, sent, hydMishaps>>
    BY DEF CancelArrives
<1>2. <<"record", "release">> \in Duties /\ <<"release">> \in Duties
    BY DEF Duties
<1>3. Leaving(j)
    BY <1>1 DEF Leaving
<1>4. CASE job[j].phase = "fetching"
    <2>1. Settling(j, "cancelled", <<"record", "release">>) /\ UNCHANGED caller
        BY <1>4, Zenon DEF CancelArrives
    <2>2. /\ job' \in [Job -> JobRow] /\ fetch' \in [Job -> [Platform -> FetchRow]]
          /\ JobsFit' /\ GoesOn(j)
        BY <1>1, <1>2, <1>3, <2>1, SettlingFits
    <2> QED BY <1>1, <2>1, <2>2 DEF JobSteps, JobStep, HydTypes
<1>5. CASE Settling(j, "cancelled", <<"release">>) /\ UNCHANGED caller
    <2>1. /\ job' \in [Job -> JobRow] /\ fetch' \in [Job -> [Platform -> FetchRow]]
          /\ JobsFit' /\ GoesOn(j)
        BY <1>1, <1>2, <1>3, <1>5, SettlingFits
    <2> QED BY <1>1, <1>5, <2>1 DEF JobSteps, JobStep, HydTypes
<1>6. CASE Ended(j, "cancelled") /\ Forget(j)
    <2>1. PICK answer \in {"cache", "ok", "partial", "error", "cancelled"} :
              answer = "cancelled"
        OBVIOUS
    <2>2. Ended(j, answer) /\ Forget(j)
        BY <1>6, <2>1
    <2>3. /\ caller' \in [Caller -> CallerRow] /\ job' \in [Job -> JobRow]
          /\ fetch' \in [Job -> [Platform -> FetchRow]] /\ JobsFit' /\ TellsCallers(j, answer)
        BY <1>1, <2>2, EndedFits
    <2> QED BY <1>1, <1>3, <2>3 DEF JobSteps, JobStep, HydTypes
<1> QED BY <1>4, <1>5, <1>6 DEF CancelArrives

\* Time passes for a job that fetches, and nothing else changes.
LEMMA TickFits ==
    ASSUME HydTypes, JobsFit, NEW j \in Job, Tick(j)
    PROVE  JobSteps(j)
<1>1. /\ ~Over(j) /\ job[j].phase = "fetching"
      /\ UNCHANGED <<caller, fetch, hydRuns, scope, ledger, sent>>
    BY DEF Tick, Live, Over
<1>2. job[j] \in JobRow /\ fetch[j] \in [Platform -> FetchRow]
    BY DEF HydTypes
<1>3. PICK clock \in Clock : clock = IF job[j].clock = "early" THEN "soft" ELSE "hard"
    BY DEF Clock
<1> DEFINE b == [job[j] EXCEPT !.clock = clock]
<1>4. /\ b \in JobRow /\ b.phase = "fetching" /\ b.owner = job[j].owner
      /\ b.subs = job[j].subs /\ b.cancel = job[j].cancel /\ b.outcome = job[j].outcome
      /\ b.counts = job[j].counts
    BY <1>1, <1>2 DEF JobRow
<1>5. job' = [job EXCEPT ![j] = b]
    BY <1>2, <1>3 DEF Tick, HydTypes, JobRow
<1> HIDE DEF b
<1>6. TodoFits(b) /\ \A p \in Platform : FetchFits(b, fetch[j][p], p, Platforms[j])
    BY <1>1, <1>4 DEF TodoFits, JobsFit, FetchFits
<1>7. fetch' = [fetch EXCEPT ![j] = fetch[j]]
    BY <1>1 DEF HydTypes
<1>8. job' \in [Job -> JobRow] /\ fetch' \in [Job -> [Platform -> FetchRow]] /\ JobsFit'
    BY <1>2, <1>4, <1>5, <1>6, <1>7, JobChanges
<1>9. GoesOn(j)
    BY <1>1, <1>4, <1>5 DEF GoesOn, Leaving
<1>10. hydMishaps' \in 0..HydMishaps
    BY HydAssumption DEF Tick, HydTypes
<1> QED BY <1>1, <1>8, <1>9, <1>10 DEF JobSteps, JobStep, HydTypes

-----------------------------------------------------------------------------
(***************************************************************************)
(* The callers.                                                            *)
(***************************************************************************)
\* What a caller's arrival does to the record of the job and to its own.
Joins(c, j, r, b, of, late) ==
    /\ caller[c].phase = "new"
    /\ job' = [job EXCEPT ![j] = b] /\ b.phase \notin {"none", "done"}
    /\ caller' = [caller EXCEPT ![c] = [@ EXCEPT !.phase = "waiting", !.job = j, !.run = r,
                                                 !.of = of, !.late = late]]
    /\ b.owner = of
    /\ \/ Over(j) /\ of = c /\ b.subs = {r} /\ ~b.cancel /\ b.outcome = "none" /\ ~late
       \/ /\ ~Over(j) /\ of = job[j].owner /\ b.subs = job[j].subs \cup {r}
          /\ b.cancel = job[j].cancel /\ b.outcome = job[j].outcome /\ (late <=> Leaving(j))

\* A caller joins the job that runs, or starts a new one as its owner (ensure).
LEMMA EnsureFits ==
    ASSUME HydTypes, JobsFit, NEW c \in Caller, NEW j \in Job, NEW r \in RunKey, Ensure(c, j, r)
    PROVE  /\ HydTypes' /\ JobsFit'
           /\ \E b \in JobRow, of \in Caller \cup {NoCaller}, late \in BOOLEAN :
                  Joins(c, j, r, b, of, late)
<1>1. /\ caller[c].phase = "new" /\ UNCHANGED <<hydRuns, scope, ledger, sent, hydMishaps>>
      /\ caller' = [caller EXCEPT ![c] = [@ EXCEPT !.phase = "waiting", !.job = j, !.run = r,
                                                   !.of = job'[j].owner,
                                                   !.late = ~Over(j) /\ Leaving(j)]]
    BY Zenon DEF Ensure
<1>2. job[j] \in JobRow /\ fetch[j] \in [Platform -> FetchRow] /\ caller[c] \in CallerRow
    BY DEF HydTypes
<1>3. PICK late \in BOOLEAN : late = (~Over(j) /\ Leaving(j))
    OBVIOUS
<1>a. late <=> (~Over(j) /\ Leaving(j))
    BY <1>3
<1>4. ASSUME NEW b \in JobRow, job' = [job EXCEPT ![j] = b]
      PROVE  /\ caller' = [caller EXCEPT ![c] = [@ EXCEPT !.phase = "waiting", !.job = j,
                                                     !.run = r, !.of = b.owner, !.late = late]]
             /\ caller' \in [Caller -> CallerRow]
    <2>1. job'[j].owner = b.owner /\ b.owner \in Caller \cup {NoCaller}
        BY <1>4 DEF HydTypes, JobRow
    <2>2. caller' = [caller EXCEPT ![c] = [@ EXCEPT !.phase = "waiting", !.job = j,
                                                     !.run = r, !.of = b.owner, !.late = late]]
        BY <1>1, <1>3, <2>1, Zenon
    <2>3. [caller[c] EXCEPT !.phase = "waiting", !.job = j, !.run = r, !.of = b.owner,
                            !.late = late] \in CallerRow
        BY <1>2, <2>1 DEF CallerRow
    <2> QED BY <2>2, <2>3 DEF HydTypes
<1>5. CASE Over(j)
    <2> DEFINE b == [NoJob EXCEPT !.phase = "inspecting", !.owner = c, !.subs = {r}]
               gone == [p \in Platform |-> NotFetching]
    <2>1. /\ b \in JobRow /\ b.phase = "inspecting" /\ b.owner = c /\ b.subs = {r}
          /\ ~b.cancel /\ b.outcome = "none" /\ \A p \in Platform : b.counts[p] = 0
        BY RowsBegin DEF JobRow
    <2>2. job' = [job EXCEPT ![j] = b]
        BY <1>5, Zenon DEF Ensure
    <2>3. fetch' = [fetch EXCEPT ![j] = gone]
        BY <1>5, Zenon DEF Ensure
    <2> HIDE DEF b
    <2>4. TodoFits(b)
        BY <2>1 DEF TodoFits
    <2>5. gone \in [Platform -> FetchRow]
          /\ \A p \in Platform : FetchFits(b, gone[p], p, Platforms[j])
        BY <2>1, <2>4, ForgottenFits, IdleFits
    <2> HIDE DEF gone
    <2>6. job' \in [Job -> JobRow] /\ fetch' \in [Job -> [Platform -> FetchRow]] /\ JobsFit'
        BY <2>1, <2>2, <2>3, <2>4, <2>5, JobChanges
    <2>7. Joins(c, j, r, b, c, late)
        BY <1>1, <1>4, <1>5, <1>a, <2>1, <2>2 DEF Joins
    <2>8. HydTypes'
        BY <1>1, <1>4, <2>1, <2>2, <2>6 DEF HydTypes
    <2> QED BY <1>3, <2>1, <2>6, <2>7, <2>8
<1>6. CASE ~Over(j)
    <2> DEFINE b == [job[j] EXCEPT !.subs = @ \cup {r}]
    <2>1. /\ b \in JobRow /\ b.phase = job[j].phase /\ b.owner = job[j].owner
          /\ b.subs = job[j].subs \cup {r} /\ b.todo = job[j].todo
          /\ b.cancel = job[j].cancel /\ b.outcome = job[j].outcome /\ b.counts = job[j].counts
        BY <1>2 DEF JobRow
    <2>2. job' = [job EXCEPT ![j] = b]
        BY <1>6, Zenon DEF Ensure
    <2>3. fetch' = [fetch EXCEPT ![j] = fetch[j]]
        <3>1. fetch' = fetch
            BY <1>6, Zenon DEF Ensure
        <3> QED BY <3>1 DEF HydTypes
    <2> HIDE DEF b
    <2>4. TodoFits(b) /\ \A p \in Platform : FetchFits(b, fetch[j][p], p, Platforms[j])
        BY <2>1 DEF TodoFits, JobsFit, FetchFits
    <2>5. job' \in [Job -> JobRow] /\ fetch' \in [Job -> [Platform -> FetchRow]] /\ JobsFit'
        BY <1>2, <2>1, <2>2, <2>3, <2>4, JobChanges
    <2>6. b.owner \in Caller \cup {NoCaller}
        BY <2>1 DEF JobRow
    <2>7. Joins(c, j, r, b, b.owner, late)
        BY <1>1, <1>4, <1>6, <1>a, <2>1, <2>2 DEF Joins, Over
    <2>8. HydTypes'
        BY <1>1, <1>4, <2>1, <2>2, <2>5 DEF HydTypes
    <2> QED BY <1>3, <2>1, <2>5, <2>6, <2>7, <2>8
<1> QED BY <1>5, <1>6

\* What it does when a caller leaves.
Parts(c, b) ==
    LET j == caller[c].job
        subs == job[j].subs \ {caller[c].run}
    IN  \/ job[j].owner # caller[c].of /\ UNCHANGED job
        \/ /\ job[j].owner = caller[c].of /\ job' = [job EXCEPT ![j] = b]
           /\ \/ Over(j) /\ b.phase = "none" /\ b.owner = NoCaller
              \/ /\ b.phase = job[j].phase /\ b.owner = job[j].owner /\ b.subs = subs
                 /\ b.outcome = job[j].outcome
                 /\ b.cancel => job[j].cancel \/ subs = {}

LeavesBehind(c) ==
    caller' = [d \in Caller |->
        IF d = c THEN [Aside EXCEPT !.phase = "gone"]
        ELSE IF /\ caller[d].phase = "waiting" /\ caller[d].of = caller[c].of
                /\ caller[d].run = caller[c].run
             THEN [caller[d] EXCEPT !.shared = TRUE]
        ELSE caller[d]]

\* A caller that returns or is cancelled takes its run out of the job it waited for.
LEMMA LeaveFits ==
    ASSUME HydTypes, JobsFit, NEW c \in Caller, Leave(c), hydMishaps' \in 0..HydMishaps,
           caller[c].job \in Job
    PROVE  /\ HydTypes' /\ JobsFit' /\ Waiting(c) /\ LeavesBehind(c)
           /\ \E b \in JobRow : Parts(c, b)
<1> DEFINE j == caller[c].job
           subs == job[j].subs \ {caller[c].run}
<1>1. caller[c].phase = "waiting" /\ UNCHANGED <<fetch, hydRuns, scope, ledger, sent>>
    BY DEF Leave
<1>2. job[j] \in JobRow /\ fetch[j] \in [Platform -> FetchRow]
    BY DEF HydTypes
<1>3. LeavesBehind(c)
    <2>1. ASSUME NEW d \in Caller, d # c
          PROVE  (d # c /\ caller[d].phase = "waiting" /\ caller[d].of = caller[c].of
                        /\ caller[d].run = caller[c].run)
                 <=> (/\ caller[d].phase = "waiting" /\ caller[d].of = caller[c].of
                      /\ caller[d].run = caller[c].run)
        BY <2>1
    <2> QED BY <2>1 DEF Leave, LeavesBehind
<1>4. caller' \in [Caller -> CallerRow]
    <2>1. [Aside EXCEPT !.phase = "gone"] \in CallerRow
        BY RowsBegin DEF CallerRow
    <2>2. \A d \in Caller : [caller[d] EXCEPT !.shared = TRUE] \in CallerRow
        BY ZenonT(30) DEF HydTypes, CallerRow
    <2> QED BY <1>3, <2>1, <2>2 DEF LeavesBehind, HydTypes
<1>5. fetch' = [fetch EXCEPT ![j] = fetch[j]]
    BY <1>1 DEF HydTypes
<1>6. CASE job[j].owner # caller[c].of
    <2>1. UNCHANGED job
        BY <1>6, Zenon DEF Leave
    <2>2. Parts(c, job[j])
        BY <1>6, <2>1, Zenon DEF Parts
    <2>3. JobsFit'
        BY <1>1, <2>1 DEF JobsFit, TodoFits, FetchFits
    <2> QED BY <1>1, <1>2, <1>3, <1>4, <2>1, <2>2, <2>3 DEF HydTypes, Waiting
<1>7. CASE job[j].owner = caller[c].of /\ Over(j) /\ subs = {}
    <2>1. job' = [job EXCEPT ![j] = NoJob]
        BY <1>7, Zenon DEF Leave
    <2>2. Parts(c, NoJob)
        BY <1>7, <2>1, RowsBegin, Zenon DEF Parts
    <2>3. TodoFits(NoJob)
        BY RowsBegin DEF TodoFits
    <2>4. \A p \in Platform : fetch[j][p].phase = "idle" /\ fetch[j][p].page <= LastPage[p]
        BY <1>7 DEF JobsFit, FetchFits, Over
    <2>5. \A p \in Platform : FetchFits(NoJob, fetch[j][p], p, Platforms[j])
        BY <1>2, <2>3, <2>4, RowsBegin, IdleFits
    <2>6. job' \in [Job -> JobRow] /\ fetch' \in [Job -> [Platform -> FetchRow]] /\ JobsFit'
        BY <1>2, <1>5, <2>1, <2>3, <2>5, RowsBegin, JobChanges
    <2> QED BY <1>1, <1>3, <1>4, <2>2, <2>6, RowsBegin DEF HydTypes, Waiting
<1>8. CASE job[j].owner = caller[c].of /\ ~(Over(j) /\ subs = {})
    <2> DEFINE cancel == job[j].cancel \/ Abandoned(j, subs)
               b == [job[j] EXCEPT !.subs = subs, !.cancel = cancel]
    <2>1. job' = [job EXCEPT ![j] = b]
        BY <1>8, Zenon DEF Leave
    <2>2. cancel \in BOOLEAN /\ (cancel => job[j].cancel \/ subs = {})
        BY <1>2 DEF Abandoned, JobRow
    <2>3. subs \in SUBSET RunKey
        BY <1>2 DEF JobRow
    <2> HIDE DEF cancel, subs
    <2>4. /\ b \in JobRow /\ b.phase = job[j].phase /\ b.owner = job[j].owner
          /\ b.subs = subs /\ b.todo = job[j].todo /\ b.cancel = cancel
          /\ b.outcome = job[j].outcome /\ b.counts = job[j].counts
        BY <1>2, <2>2, <2>3 DEF JobRow
    <2> HIDE DEF b
    <2>5. TodoFits(b) /\ \A p \in Platform : FetchFits(b, fetch[j][p], p, Platforms[j])
        <3>1. TodoFits(b)
            BY <2>4 DEF TodoFits, JobsFit
        <3>2. ASSUME NEW p \in Platform PROVE FetchFits(b, fetch[j][p], p, Platforms[j])
            <4>1. FetchFits(job[j], fetch[j][p], p, Platforms[j])
                BY DEF JobsFit
            <4> QED BY <2>4, <4>1 DEF FetchFits
        <3> QED BY <3>1, <3>2
    <2>6. job' \in [Job -> JobRow] /\ fetch' \in [Job -> [Platform -> FetchRow]] /\ JobsFit'
        BY <1>2, <1>5, <2>1, <2>4, <2>5, JobChanges
    <2>7. Parts(c, b)
        BY <1>8, <2>1, <2>2, <2>4, Zenon DEF Parts, subs
    <2> QED BY <1>1, <1>3, <1>4, <2>4, <2>6, <2>7 DEF HydTypes, Waiting
<1> QED BY <1>6, <1>7, <1>8

-----------------------------------------------------------------------------
(***************************************************************************)
(* Who waits, for whom, and what it is told.                               *)
(***************************************************************************)
Served == OwnersKnown /\ CallersKnown /\ CallersServed

\* A job that goes on without a change of its callers serves those who wait for it.
LEMMA GoesOnServes ==
    ASSUME HydTypes, Served, NEW j \in Job, GoesOn(j)
    PROVE  Served'
<1> USE DEF Served
<1>1. PICK b \in JobRow :
          /\ job' = [job EXCEPT ![j] = b] /\ b.phase \notin {"none", "done"}
          /\ b.owner = job[j].owner /\ b.subs = job[j].subs
          /\ b.cancel \/ b.outcome = "cancelled" => Leaving(j)
    BY DEF GoesOn
<1>2. /\ ~Over(j) /\ caller' = caller
      /\ job'[j] = b /\ \A i \in Job \ {j} : job'[i] = job[i]
    BY <1>1 DEF GoesOn, HydTypes
<1>3. \A i \in Job : /\ job'[i].owner = job[i].owner /\ job'[i].subs = job[i].subs
                     /\ Over(i)' <=> Over(i)
                     /\ Leaving(i)' => Leaving(i)
    BY <1>1, <1>2 DEF Over, Leaving
<1>4. \A c \in Caller : Waiting(c)' <=> Waiting(c)
    BY <1>2 DEF Waiting
<1>5. OwnersKnown'
    BY <1>2, <1>3 DEF OwnersKnown
<1>6. CallersKnown'
    BY <1>2, <1>3, <1>4 DEF CallersKnown
<1>7. CallersServed'
    <2>1. OnlyLeaversCancel'
        BY <1>2 DEF CallersServed, OnlyLeaversCancel
    <2>2. NobodyForgotten'
        BY <1>2, <1>3, <1>4 DEF CallersServed, CallersKnown, NobodyForgotten, Waiting
    <2> QED BY <2>1, <2>2 DEF CallersServed
<1> QED BY <1>5, <1>6, <1>7

\* A job that ends answers everyone who waits; cancelled only if they have all left.
LEMMA AnswersServe ==
    ASSUME HydTypes, Served, NEW j \in Job,
           NEW answer \in {"cache", "ok", "partial", "error", "cancelled"}, TellsCallers(j, answer),
           answer = "cancelled" => Leaving(j)
    PROVE  Served'
<1> USE DEF Served
<1>1. PICK b \in JobRow :
          job' = [job EXCEPT ![j] = b] /\ b.phase = "done" /\ b.owner = job[j].owner
    BY DEF TellsCallers
<1>2. /\ ~Over(j) /\ job'[j] = b /\ \A i \in Job \ {j} : job'[i] = job[i]
    BY <1>1 DEF TellsCallers, HydTypes
<1>3. Over(j)' /\ job'[j].owner = job[j].owner
    BY <1>1, <1>2 DEF Over
<1>4. \A i \in Job \ {j} : (Over(i)' <=> Over(i)) /\ (Leaving(i)' <=> Leaving(i))
    BY <1>2 DEF Over, Leaving
<1>5. ASSUME NEW c \in Caller
      PROVE  /\ caller'[c].phase = caller[c].phase /\ caller'[c].job = caller[c].job
             /\ caller'[c].of = caller[c].of /\ caller'[c].run = caller[c].run
             /\ caller'[c].late = caller[c].late /\ caller'[c].shared = caller[c].shared
             /\ IF Waiting(c) /\ caller[c].of = job[j].owner
                THEN caller'[c].answer = answer ELSE caller'[c].answer = caller[c].answer
    <2>1. caller[c] \in CallerRow
        BY DEF HydTypes
    <2>2. caller'[c] = IF Awaits(c, j) THEN [caller[c] EXCEPT !.answer = answer] ELSE caller[c]
        BY DEF TellsCallers
    <2>3. CASE Awaits(c, j)
        <3>1. caller'[c] = [caller[c] EXCEPT !.answer = answer]
            BY <2>2, <2>3
        <3> QED BY <2>1, <2>3, <3>1 DEF Awaits, Waiting, CallerRow
    <2>4. CASE ~Awaits(c, j)
        <3>1. caller'[c] = caller[c]
            BY <2>2, <2>4
        <3> QED BY <2>4, <3>1 DEF Awaits, Waiting
    <2> QED BY <2>3, <2>4
<1>6. \A c \in Caller : Waiting(c)' <=> Waiting(c)
    BY <1>5 DEF Waiting
<1>7. OwnersKnown'
    BY <1>2, <1>3, <1>4, <1>5 DEF OwnersKnown
<1>8. CallersKnown'
    <2>1. ASSUME NEW c \in Caller, ~Waiting(c)'
          PROVE  caller'[c].answer = "none"
        BY <1>5, <1>6, <2>1 DEF CallersKnown
    <2>2. ASSUME NEW c \in Caller, Waiting(c)'
          PROVE  /\ caller'[c].job \in Job
                 /\ caller'[c].of \in Caller /\ caller'[caller'[c].of].phase # "new"
        BY <1>5, <1>6, <2>2 DEF CallersKnown
    <2>3. ASSUME NEW c \in Caller, NEW i \in Job, Waiting(c)', caller'[c].of = job'[i].owner
          PROVE  /\ caller'[c].job = i
                 /\ ~Over(i)' => caller'[c].run \in job'[i].subs \/ caller'[c].shared
                 /\ ~Over(i)' /\ Leaving(i)' => caller'[c].late \/ caller'[c].shared
        <3>1. CASE i = j
            BY <1>3, <1>5, <1>6, <2>3, <3>1 DEF CallersKnown
        <3>2. CASE i # j
            BY <1>2, <1>4, <1>5, <1>6, <2>3, <3>2 DEF CallersKnown
        <3> QED BY <3>1, <3>2
    <2> QED BY <2>1, <2>2, <2>3 DEF CallersKnown
<1>9. CallersServed'
    <2>1. ASSUME NEW c \in Caller, caller'[c].answer = "cancelled"
          PROVE  caller'[c].late \/ caller'[c].shared
        <3>1. CASE Waiting(c) /\ caller[c].of = job[j].owner
            BY <1>2, <1>5, <2>1, <3>1 DEF CallersKnown
        <3>2. CASE ~(Waiting(c) /\ caller[c].of = job[j].owner)
            BY <1>5, <2>1, <3>2 DEF CallersServed, OnlyLeaversCancel
        <3> QED BY <3>1, <3>2
    <2>2. ASSUME NEW c \in Caller, caller'[c].phase = "waiting", caller'[c].answer = "none"
          PROVE  LET i == caller'[c].job
                 IN  job'[i].phase \notin {"none", "done"} /\ job'[i].owner = caller'[c].of
        <3>1. /\ Waiting(c) /\ caller[c].of # job[j].owner /\ caller[c].answer = "none"
              /\ caller'[c].job = caller[c].job /\ caller'[c].of = caller[c].of
            BY <1>5, <2>2 DEF Waiting
        <3>2. PICK i \in Job : i = caller[c].job
            BY <3>1 DEF CallersKnown
        <3>3. ~Over(i) /\ job[i].owner = caller[c].of
            BY <3>1, <3>2 DEF CallersServed, NobodyForgotten, Waiting
        <3>4. i # j
            BY <3>1, <3>3
        <3>5. job'[i] = job[i]
            BY <1>2, <3>4
        <3>6. ~Over(i)' /\ job'[i].owner = caller'[c].of
            BY <3>1, <3>3, <3>5 DEF Over
        <3>7. caller'[c].job = i
            BY <3>1, <3>2
        <3> QED BY <3>6, <3>7 DEF Over
    <2> QED BY <2>1, <2>2 DEF CallersServed, OnlyLeaversCancel, NobodyForgotten, Over
<1> QED BY <1>7, <1>8, <1>9

\* Whoever joins is known to the record of the job, or is told that it came too late.
LEMMA JoinsServe ==
    ASSUME HydTypes, Served, NEW c \in Caller, NEW j \in Job, NEW r \in RunKey,
           NEW b \in JobRow, NEW of \in Caller \cup {NoCaller}, NEW late \in BOOLEAN,
           Joins(c, j, r, b, of, late)
    PROVE  Served'
<1> USE DEF Served
<1>1. /\ job'[j] = b /\ \A i \in Job \ {j} : job'[i] = job[i]
    BY DEF Joins, HydTypes
<1>2. /\ ~Waiting(c) /\ caller[c].phase = "new"
      /\ caller'[c].phase = "waiting" /\ caller'[c].job = j /\ caller'[c].run = r
      /\ caller'[c].of = of /\ caller'[c].late = late /\ caller'[c].answer = "none"
    BY DEF Joins, HydTypes, CallerRow, Waiting, CallersKnown
<1>3. \A d \in Caller \ {c} : caller'[d] = caller[d]
    BY DEF Joins, HydTypes
<1>4. /\ ~Over(j)' /\ job'[j].owner = of /\ b.owner = of
    BY <1>1 DEF Joins, Over
<1>5. of \in Caller /\ (of = c \/ caller[of].phase # "new")
    BY DEF Joins, OwnersKnown
<1>6. \A i \in Job \ {j} : (Over(i)' <=> Over(i)) /\ (Leaving(i)' <=> Leaving(i))
    BY <1>1 DEF Over, Leaving
<1>7. \A d \in Caller : caller[d].phase # "new" => caller'[d].phase # "new"
    BY <1>2, <1>3
<1>8. \A i \in Job \ {j} : job[i].owner # of
    BY <1>2, <1>5 DEF Joins, OwnersKnown
<1>9. OwnersKnown'
    BY <1>1, <1>2, <1>4, <1>5, <1>6, <1>7, <1>8 DEF OwnersKnown
<1>10. CallersKnown'
    <2>1. ASSUME NEW d \in Caller, ~Waiting(d)'
          PROVE  caller'[d].answer = "none"
        BY <1>2, <1>3, <2>1 DEF CallersKnown, Waiting
    <2>2. ASSUME NEW d \in Caller, Waiting(d)'
          PROVE  /\ caller'[d].job \in Job
                 /\ caller'[d].of \in Caller /\ caller'[caller'[d].of].phase # "new"
        BY <1>2, <1>3, <1>5, <1>7, <2>2 DEF CallersKnown, Waiting
    <2>3. ASSUME NEW d \in Caller, NEW i \in Job, Waiting(d)', caller'[d].of = job'[i].owner
          PROVE  /\ caller'[d].job = i
                 /\ ~Over(i)' => caller'[d].run \in job'[i].subs \/ caller'[d].shared
                 /\ ~Over(i)' /\ Leaving(i)' => caller'[d].late \/ caller'[d].shared
        <3>1. CASE d = c
            <4>1. i = j
                BY <1>1, <1>2, <1>8, <2>3, <3>1
            <4>2. r \in job'[j].subs
                BY <1>1 DEF Joins
            <4>3. Leaving(j)' => late
                BY <1>1 DEF Joins, Leaving
            <4> QED BY <1>2, <3>1, <4>1, <4>2, <4>3
        <3>2. CASE d # c /\ i # j
            BY <1>1, <1>3, <1>6, <2>3, <3>2 DEF CallersKnown, Waiting
        <3>3. CASE d # c /\ i = j
            <4>1. Waiting(d) /\ caller[d].of = of /\ caller'[d] = caller[d]
                BY <1>3, <1>4, <2>3, <3>3 DEF Waiting
            <4>2. ~Over(j) /\ of = job[j].owner
                BY <1>2, <4>1 DEF Joins, CallersKnown
            <4>3. job[j].subs \subseteq job'[j].subs /\ (Leaving(j)' => Leaving(j))
                BY <1>1, <4>2 DEF Joins, Leaving
            <4> QED BY <3>3, <4>1, <4>2, <4>3 DEF CallersKnown
        <3> QED BY <3>1, <3>2, <3>3
    <2> QED BY <2>1, <2>2, <2>3 DEF CallersKnown
<1>11. CallersServed'
    <2>1. ASSUME NEW d \in Caller, caller'[d].answer = "cancelled"
          PROVE  caller'[d].late \/ caller'[d].shared
        BY <1>2, <1>3, <2>1 DEF CallersServed, OnlyLeaversCancel
    <2>2. ASSUME NEW d \in Caller, caller'[d].phase = "waiting", caller'[d].answer = "none"
          PROVE  LET i == caller'[d].job
                 IN  job'[i].phase \notin {"none", "done"} /\ job'[i].owner = caller'[d].of
        <3>1. CASE d = c
            BY <1>2, <1>4, <3>1 DEF Over
        <3>2. CASE d # c
            <4>1. caller'[d] = caller[d]
                BY <1>3, <3>2
            <4>2. PICK i \in Job : i = caller[d].job
                BY <2>2, <4>1 DEF CallersKnown, Waiting
            <4>3. ~Over(i) /\ job[i].owner = caller[d].of
                BY <2>2, <4>1, <4>2 DEF CallersServed, NobodyForgotten
            <4>4. ~Over(i)' /\ job'[i].owner = job[i].owner
                BY <1>1, <1>4, <1>6, <4>3 DEF Joins
            <4> QED BY <4>1, <4>2, <4>3, <4>4 DEF Over
        <3> QED BY <3>1, <3>2
    <2> QED BY <2>1, <2>2 DEF CallersServed, OnlyLeaversCancel, NobodyForgotten, Over
<1> QED BY <1>9, <1>10, <1>11

\* A caller that leaves lets the job of the others go on; only the last one cancels it.
LEMMA PartsServe ==
    ASSUME HydTypes, Served, NEW c \in Caller, Waiting(c), LeavesBehind(c), NEW b \in JobRow,
           Parts(c, b)
    PROVE  Served'
<1> USE DEF Served
<1>1. PICK j \in Job : j = caller[c].job
    BY DEF CallersKnown
<1>2. \A i \in Job \ {j} : job'[i] = job[i]
    BY <1>1 DEF Parts, HydTypes
<1>3. \/ job[j].owner # caller[c].of /\ job'[j] = job[j]
      \/ /\ job[j].owner = caller[c].of /\ Over(j) /\ job'[j].phase = "none"
         /\ job'[j].owner = NoCaller
      \/ /\ job[j].owner = caller[c].of /\ job'[j].phase = job[j].phase
         /\ job'[j].owner = job[j].owner /\ job'[j].subs = job[j].subs \ {caller[c].run}
         /\ job'[j].outcome = job[j].outcome
         /\ job'[j].cancel => job[j].cancel \/ job'[j].subs = {}
    BY <1>1 DEF Parts, HydTypes
<1>4. ~Waiting(c)' /\ caller'[c].phase = "gone" /\ caller'[c].answer = "none"
    BY DEF LeavesBehind, Waiting, Aside
<1>5. ASSUME NEW d \in Caller, d # c
      PROVE  /\ caller'[d].phase = caller[d].phase /\ caller'[d].job = caller[d].job
             /\ caller'[d].of = caller[d].of /\ caller'[d].run = caller[d].run
             /\ caller'[d].late = caller[d].late /\ caller'[d].answer = caller[d].answer
             /\ caller[d].shared => caller'[d].shared
             /\ Waiting(d) /\ caller[d].of = caller[c].of /\ caller[d].run = caller[c].run
                => caller'[d].shared
    <2>1. caller[d] \in CallerRow
        BY DEF HydTypes
    <2>2. CASE Waiting(d) /\ caller[d].of = caller[c].of /\ caller[d].run = caller[c].run
        <3>1. caller'[d] = [caller[d] EXCEPT !.shared = TRUE]
            BY <1>5, <2>2 DEF LeavesBehind, Waiting
        <3> QED BY <2>1, <3>1 DEF CallerRow
    <2>3. CASE ~(Waiting(d) /\ caller[d].of = caller[c].of /\ caller[d].run = caller[c].run)
        <3>1. caller'[d] = caller[d]
            BY <1>5, <2>3 DEF LeavesBehind, Waiting
        <3> QED BY <2>3, <3>1
    <2> QED BY <2>2, <2>3
<1>6. \A d \in Caller \ {c} : Waiting(d)' <=> Waiting(d)
    BY <1>5 DEF Waiting
<1>7. \A d \in Caller : caller[d].phase # "new" => caller'[d].phase # "new"
    BY <1>4, <1>5
<1>8. /\ \A i \in Job : ~Over(i)' => ~Over(i)
      /\ \A i \in Job : job'[i].owner \in Caller => job'[i].owner = job[i].owner
      /\ \A i \in Job : ~Over(i) => ~Over(i)' /\ job'[i].owner = job[i].owner
    BY <1>2, <1>3, HydAssumption DEF Over
<1>9. OwnersKnown'
    BY <1>7, <1>8 DEF OwnersKnown
<1>10. CallersKnown'
    <2>1. ASSUME NEW d \in Caller, ~Waiting(d)'
          PROVE  caller'[d].answer = "none"
        BY <1>4, <1>5, <1>6, <2>1 DEF CallersKnown
    <2>2. ASSUME NEW d \in Caller, Waiting(d)'
          PROVE  /\ caller'[d].job \in Job
                 /\ caller'[d].of \in Caller /\ caller'[caller'[d].of].phase # "new"
        BY <1>4, <1>5, <1>6, <1>7, <2>2 DEF CallersKnown
    <2>3. ASSUME NEW d \in Caller, NEW i \in Job, Waiting(d)', caller'[d].of = job'[i].owner
          PROVE  /\ caller'[d].job = i
                 /\ ~Over(i)' => caller'[d].run \in job'[i].subs \/ caller'[d].shared
                 /\ ~Over(i)' /\ Leaving(i)' => caller'[d].late \/ caller'[d].shared
        <3>1. /\ d # c /\ Waiting(d) /\ caller'[d].of \in Caller /\ caller[d].of = job[i].owner
              /\ caller'[d].of = caller[d].of
            BY <1>4, <1>5, <1>6, <1>8, <2>2, <2>3
        <3>2. /\ caller[d].job = i
              /\ ~Over(i) => caller[d].run \in job[i].subs \/ caller[d].shared
              /\ ~Over(i) /\ Leaving(i) => caller[d].late \/ caller[d].shared
            BY <3>1 DEF CallersKnown
        <3>3. CASE i # j \/ job[j].owner # caller[c].of
            <4>1. job'[i] = job[i]
                BY <1>2, <1>3, <3>3
            <4> QED BY <1>5, <3>1, <3>2, <4>1 DEF Over, Leaving
        <3>4. CASE i = j /\ job[j].owner = caller[c].of
            <4>1. SUFFICES ASSUME ~Over(i)'
                           PROVE  /\ caller'[d].run \in job'[i].subs \/ caller'[d].shared
                                  /\ Leaving(i)' => caller'[d].late \/ caller'[d].shared
                BY <1>5, <3>1, <3>2
            <4>2. /\ job'[j].subs = job[j].subs \ {caller[c].run}
                  /\ job'[j].outcome = job[j].outcome
                  /\ job'[j].cancel => job[j].cancel \/ job'[j].subs = {}
                BY <1>3, <3>4, <4>1 DEF Over
            <4>3. caller'[d].run \in job'[i].subs \/ caller'[d].shared
                BY <1>5, <1>8, <3>1, <3>2, <3>4, <4>1, <4>2
            <4>4. ASSUME Leaving(i)'
                  PROVE  caller'[d].late \/ caller'[d].shared
                <5>1. CASE Leaving(i)
                    BY <1>5, <1>8, <3>1, <3>2, <4>1, <5>1
                <5>2. CASE job'[i].subs = {}
                    BY <4>3, <5>2
                <5> QED BY <3>4, <4>2, <4>4, <5>1, <5>2 DEF Leaving
            <4> QED BY <4>3, <4>4
        <3> QED BY <3>3, <3>4
    <2> QED BY <2>1, <2>2, <2>3 DEF CallersKnown
<1>11. CallersServed'
    <2>1. ASSUME NEW d \in Caller, caller'[d].answer = "cancelled"
          PROVE  caller'[d].late \/ caller'[d].shared
        BY <1>4, <1>5, <2>1 DEF CallersServed, OnlyLeaversCancel
    <2>2. ASSUME NEW d \in Caller, caller'[d].phase = "waiting", caller'[d].answer = "none"
          PROVE  LET i == caller'[d].job
                 IN  job'[i].phase \notin {"none", "done"} /\ job'[i].owner = caller'[d].of
        <3>1. d # c
            BY <1>4, <2>2
        <3>2. PICK i \in Job : i = caller[d].job
            BY <1>5, <2>2, <3>1 DEF CallersKnown, Waiting
        <3>3. ~Over(i) /\ job[i].owner = caller[d].of
            BY <1>5, <2>2, <3>1, <3>2 DEF CallersServed, NobodyForgotten
        <3> QED BY <1>5, <1>8, <3>1, <3>2, <3>3 DEF Over
    <2> QED BY <2>1, <2>2 DEF CallersServed, OnlyLeaversCancel, NobodyForgotten, Over
<1> QED BY <1>9, <1>10, <1>11

\* A restart loses the jobs and with them everyone who waited.
LEMMA RestartServes ==
    ASSUME HydTypes, JobsFit, Served, ServerRestarts
    PROVE  HydTypes' /\ JobsFit' /\ Served'
<1> DEFINE gone == [p \in Platform |-> NotFetching]
<1>1. /\ UNCHANGED <<hydRuns, scope, ledger, sent>>
      /\ job' = [j \in Job |-> NoJob] /\ fetch' = [j \in Job |-> gone]
      /\ caller' = [c \in Caller |-> IF Waiting(c) THEN [Aside EXCEPT !.phase = "gone"]
                                     ELSE caller[c]]
    BY DEF ServerRestarts, Waiting
<1>2. /\ [Aside EXCEPT !.phase = "gone"] \in CallerRow
      /\ [Aside EXCEPT !.phase = "gone"].phase = "gone"
      /\ [Aside EXCEPT !.phase = "gone"].answer = "none"
    <2>1. Aside \in CallerRow /\ Aside.answer = "none"
        BY RowsBegin DEF Aside
    <2> QED BY <2>1 DEF CallerRow
<1>3. hydMishaps' \in 0..HydMishaps
    BY HydAssumption DEF ServerRestarts, HydTypes
<1>4. HydTypes'
    BY <1>1, <1>2, <1>3, RowsBegin DEF HydTypes
<1>5. JobsFit'
    <2>1. TodoFits(NoJob)
        BY RowsBegin DEF TodoFits
    <2>2. ASSUME NEW j \in Job
          PROVE  \A p \in Platform : FetchFits(NoJob, gone[p], p, Platforms[j])
        BY <2>1, RowsBegin, ForgottenFits, IdleFits
    <2>3. \A j \in Job : job'[j] = NoJob /\ fetch'[j] = gone
        BY <1>1
    <2> HIDE DEF gone
    <2> QED BY <2>1, <2>2, <2>3 DEF JobsFit
<1>6. \A c \in Caller : ~Waiting(c)' /\ caller'[c].answer = "none"
    BY <1>1, <1>2 DEF Waiting, Served, CallersKnown
<1>7. \A j \in Job : job'[j].owner \notin Caller /\ Over(j)'
    BY <1>1, RowsBegin, HydAssumption DEF Over
<1>8. Served'
    BY <1>6, <1>7 DEF Served, OwnersKnown, CallersKnown, CallersServed, OnlyLeaversCancel,
       NobodyForgotten, Waiting
<1> QED BY <1>4, <1>5, <1>8

\* Steps of time change a scope and the budget of mishaps, and nothing else.
LEMMA TimePasses ==
    ASSUME HydTypes, JobsFit, Served, NEW p \in Platform, LeaseExpires(p) \/ MembersAge(p)
    PROVE  HydTypes' /\ JobsFit' /\ Served'
<1>1. UNCHANGED <<caller, job, fetch, hydRuns, ledger, sent>>
    BY Zenon DEF LeaseExpires, MembersAge
<1>2. scope' \in [Platform -> ScopeRow]
    <2>1. CASE LeaseExpires(p)
        BY <2>1 DEF LeaseExpires, HydTypes, ScopeRow
    <2>2. CASE MembersAge(p)
        BY <2>2, ZenonT(30) DEF MembersAge, HydTypes, ScopeRow
    <2> QED BY <2>1, <2>2
<1>3. hydMishaps' \in 0..HydMishaps
    BY HydAssumption DEF LeaseExpires, MembersAge, HydTypes
<1> QED BY <1>1, <1>2, <1>3 DEF HydTypes, JobsFit, TodoFits, FetchFits, Served, OwnersKnown,
           CallersKnown, CallersServed, OnlyLeaversCancel, NobodyForgotten, Waiting, Over, Leaving

-----------------------------------------------------------------------------
(***************************************************************************)
(* The ledger.                                                             *)
(***************************************************************************)
\* The row of a request outlives its job, so that whoever comes next finds it.
LEMMA SentOnceStep ==
    ASSUME HydTypes, SentKnown, HydNext
    PROVE  SentKnown'
<1>1. ASSUME NEW j \in Job, NEW p \in Platform, ReserveRequest(j, p)
      PROVE  SentKnown'
    <2>1. /\ ledger' = [ledger EXCEPT ![NextAsk(j, p)] = "reserved"]
          /\ ledger[NextAsk(j, p)] = "free"
          /\ sent' = [sent EXCEPT ![NextAsk(j, p)] = IF @ < 2 THEN @ + 1 ELSE @]
        BY <1>1, Zenon DEF ReserveRequest, Askable
    <2>2. ASSUME NEW q, ledger' = [ledger EXCEPT ![q] = "reserved"], ledger[q] = "free",
                 sent' = [sent EXCEPT ![q] = IF sent[q] < 2 THEN sent[q] + 1 ELSE sent[q]]
          PROVE  SentKnown'
        BY <2>2 DEF HydTypes, SentKnown
    <2> QED BY <2>1, <2>2, Zenon
<1>2. ASSUME NEW p \in Platform, NEW f, NoteRequestFinished(p, f), UNCHANGED sent
      PROVE  SentKnown'
    BY <1>2, FinishedFits DEF SentKnown
<1>3. ASSUME NEW j \in Job, NEW p \in Platform, NotePage(j, p) \/ PersistFails(j, p)
      PROVE  SentKnown'
    <2>1. UNCHANGED sent /\ NoteRequestFinished(p, fetch[j][p])
        BY <1>3, Zenon DEF NotePage, PersistFails
    <2> QED BY <1>2, <2>1
<1>4. CASE UNCHANGED <<ledger, sent>>
    BY <1>4 DEF SentKnown
<1>5. ASSUME NEW j \in Job,
             \/ Tick(j) \/ Raises(j) \/ Inspect(j) \/ CreateHydrationRun(j)
             \/ AcquireScopeLease(j) \/ FetchesDone(j) \/ Settle(j) \/ CancelArrives(j)
             \/ \E c \in Caller, r \in RunKey : Ensure(c, j, r)
             \/ \E p \in Platform : \/ NotLeased(j, p) \/ PolicyStops(j, p) \/ AlreadyAsked(j, p)
                                   \/ \E more \in BOOLEAN : ProviderFails(j, p, more)
             \/ \E p \in Platform, kept \in SUBSET Offer, more \in BOOLEAN :
                    PersistPage(j, p, kept, more)
      PROVE  UNCHANGED <<ledger, sent>>
    BY <1>5, Zenon DEF Tick, Raises, Inspect, CreateHydrationRun, AcquireScopeLease, FetchesDone,
       Settle, CancelArrives, Ensure, NotLeased, PolicyStops, AlreadyAsked, ProviderFails,
       PersistPage
<1>6. (\E c \in Caller : Returns(c) \/ CallerCancelled(c)) \/ ServerRestarts
      \/ (\E p \in Platform : LeaseExpires(p) \/ MembersAge(p))
      => UNCHANGED <<ledger, sent>>
    BY DEF Returns, CallerCancelled, Leave, ServerRestarts, LeaseExpires, MembersAge
<1> QED BY <1>1, <1>3, <1>4, <1>5, <1>6 DEF HydNext, RunJob, Fetch

-----------------------------------------------------------------------------
(***************************************************************************)
(* The invariant.                                                          *)
(***************************************************************************)
LEMMA FetchSteps ==
    ASSUME HydTypes, JobsFit, NEW j \in Job, NEW p \in Platform, Fetch(j, p)
    PROVE  JobSteps(j)
<1>1. ASSUME NEW kept \in SUBSET Offer, NEW more \in BOOLEAN, PersistPage(j, p, kept, more)
      PROVE  JobSteps(j)
    BY <1>1, PersistPageFits
<1>2. ASSUME NEW more \in BOOLEAN, ProviderFails(j, p, more)
      PROVE  JobSteps(j)
    BY <1>2, ProviderFailsFits
<1> QED BY <1>1, <1>2, NotLeasedFits, PolicyStopsFits, AlreadyAskedFits, ReserveFits, NotePageFits
        DEF Fetch

\* So every step of a job keeps the callers served.
LEMMA JobStepsServe ==
    ASSUME HydTypes, Served, NEW j \in Job, JobSteps(j)
    PROVE  HydTypes' /\ JobsFit' /\ Served'
<1>1. CASE GoesOn(j)
    BY <1>1, GoesOnServes DEF JobSteps
<1>2. ASSUME NEW answer \in {"cache", "ok", "partial", "error", "cancelled"},
             TellsCallers(j, answer), answer = "cancelled" => Leaving(j)
      PROVE  Served'
    BY <1>2, AnswersServe
<1> QED BY <1>1, <1>2 DEF JobSteps, JobStep

\* And so does a caller that leaves.
LEMMA LeaveServes ==
    ASSUME HydTypes, JobsFit, Served, NEW c \in Caller, Returns(c) \/ CallerCancelled(c)
    PROVE  HydTypes' /\ JobsFit' /\ Served'
<1>1. Leave(c) /\ hydMishaps' \in 0..HydMishaps
    BY HydAssumption DEF Returns, CallerCancelled, HydTypes
<1>2. Waiting(c)
    BY <1>1 DEF Leave, Waiting
<1>3. caller[c].job \in Job
    BY <1>2 DEF Served, CallersKnown
<1>4. /\ HydTypes' /\ JobsFit' /\ LeavesBehind(c)
      /\ \E b \in JobRow : Parts(c, b)
    BY <1>1, <1>3, LeaveFits
<1> QED BY <1>2, <1>4, PartsServe

\* Every step of the hydration preserves the invariant.
LEMMA HydStep ==
    ASSUME HydInvariant, [HydNext]_hydVars
    PROVE  HydInvariant'
<1> HydTypes /\ JobsFit /\ Served /\ SentKnown
    BY DEF HydInvariant, Served
<1>1. ASSUME HydNext
      PROVE  HydTypes' /\ JobsFit' /\ Served'
    <2>1. ASSUME NEW c \in Caller, NEW j \in Job, NEW r \in RunKey, Ensure(c, j, r)
          PROVE  HydTypes' /\ JobsFit' /\ Served'
        BY <2>1, EnsureFits, JoinsServe
    <2>2. ASSUME NEW c \in Caller, Returns(c) \/ CallerCancelled(c)
          PROVE  HydTypes' /\ JobsFit' /\ Served'
        BY <2>2, LeaveServes
    <2>3. ASSUME NEW j \in Job, RunJob(j) \/ Tick(j) \/ Raises(j)
          PROVE  JobSteps(j)
        BY <2>3, InspectFits, CreateFits, LeaseFits, FetchSteps, DoneFits, SettleFits,
           CancelArrivesFits, TickFits, RaisesFits DEF RunJob
    <2>4. ASSUME NEW j \in Job, NEW p \in Platform, PersistFails(j, p)
          PROVE  JobSteps(j)
        BY <2>4, PersistFailsFits
    <2>5. ASSUME NEW p \in Platform, LeaseExpires(p) \/ MembersAge(p)
          PROVE  HydTypes' /\ JobsFit' /\ Served'
        BY <2>5, TimePasses
    <2>6. CASE ServerRestarts
        BY <2>6, RestartServes
    <2> QED BY <1>1, <2>1, <2>2, <2>3, <2>4, <2>5, <2>6, JobStepsServe DEF HydNext
<1>2. CASE HydNext
    BY <1>1, <1>2, SentOnceStep DEF HydInvariant, Served
<1>3. CASE UNCHANGED hydVars
    BY <1>3 DEF hydVars, HydInvariant, HydTypes, JobsFit, TodoFits, FetchFits, SentKnown,
       OwnersKnown, CallersKnown, CallersServed, OnlyLeaversCancel, NobodyForgotten, Waiting,
       Over, Leaving
<1> QED BY <1>2, <1>3

\* The coordinator, its jobs and the tables of the catalog stay in what HydInvariant says.
THEOREM HydInvariance == HydSpec => []HydInvariant
BY HydStarts, HydStep, PTL DEF HydSpec

\* The state of the coordinator and of the catalog's tables is always well formed; the count
\* of a platform never exceeds the offers there are (stop_policy.py).
THEOREM HydTypeCorrect == HydSpec => []HydTypeOK
<1>1. HydInvariant => HydTypeOK
    <2> SUFFICES ASSUME HydInvariant PROVE HydTypeOK
        OBVIOUS
    <2> USE DEF HydInvariant
    <2>1. ASSUME NEW j \in Job
          PROVE  /\ job[j].phase \in {"none", "inspecting", "creating", "leasing", "fetching",
                                      "settling", "done"}
                 /\ job[j].subs \subseteq RunKey /\ job[j].leased \subseteq Platform
        BY DEF HydTypes, JobRow
    <2>2. ASSUME NEW j \in Job, NEW p \in Platform
          PROVE  /\ job[j].counts[p] \in 0..Cardinality(Offer)
                 /\ fetch[j][p].phase \in {"idle", "asking", "waiting", "noting", "done"}
                 /\ fetch[j][p].page \in 1..LastPage[p] /\ fetch[j][p].seen \subseteq Offer
        <3>1. job[j].counts[p] \in Nat /\ fetch[j][p] \in FetchRow
            BY DEF HydTypes, JobRow
        <3>2. FetchFits(job[j], fetch[j][p], p, Platforms[j])
            BY DEF JobsFit
        <3>3. PICK n \in Nat : n = Cardinality(Offer)
            BY HydAssumption, FS_CardinalityType
        <3> QED BY <3>1, <3>2, <3>3, HydAssumption DEF FetchRow, FetchFits
    <2> QED BY <2>1, <2>2 DEF HydTypeOK, HydTypes, CallerRow, ScopeRow
<1> QED BY <1>1, HydInvariance, PTL

\* No page is paid for twice: the row of a request stays in the ledger, whatever becomes of
\* the job that wrote it, of its lease or of the process (reserve_request).
THEOREM RequestsLeaveOnce == HydSpec => []RequestSentOnce
<1>1. HydInvariant => RequestSentOnce
    BY DEF HydInvariant, SentKnown, RequestSentOnce
<1> QED BY <1>1, HydInvariance, PTL

\* A caller that waits is still owned by a live job, and it is cancelled only if it came too
\* late or shared its key with a call that left (hydration.py, ensure).
THEOREM CallersAreServed == HydSpec => []CallersServed
<1>1. HydInvariant => CallersServed
    BY DEF HydInvariant
<1> QED BY <1>1, HydInvariance, PTL

-----------------------------------------------------------------------------
(***************************************************************************)
(* Sums.  The sum of the values of f on S is the number of pairs of an     *)
(* element and one of its units.                                           *)
(***************************************************************************)
Units(f, S) == UNION {{p} \X (1..f[p]) : p \in S}
SumOf(f, S)   == Cardinality(Units(f, S))

\* What holds of the empty set, and of a set when it holds of the set without some element of
\* it, holds of every finite set.
LEMMA AllFiniteSets ==
    ASSUME NEW S, IsFiniteSet(S), NEW G, {} \in G,
           \A T \in SUBSET S : T = {} \/ \E x \in T : T \ {x} \in G => T \in G
    PROVE  \A T \in SUBSET S : T \in G
<1> SUFFICES ASSUME NEW U \in SUBSET S, U \notin G PROVE FALSE
    OBVIOUS
<1> DEFINE Outside == {T \in SUBSET S : T \notin G}
<1>1. PICK T \in Outside : \A V \in Outside : <<V, T>> \notin StrictSubsetOrdering(S)
    <2>1. IsWellFoundedOn(StrictSubsetOrdering(S), SUBSET S)
        <3> DEFINE all == SUBSET S
        <3>1. FiniteSubsetsOf(S) = all
            BY FS_FiniteSubsetsOfFinite, Zenon
        <3>2. IsWellFoundedOn(StrictSubsetOrdering(S), FiniteSubsetsOf(S))
            BY FS_StrictSubsetOrderingWellFounded, Zenon
        <3> HIDE DEF all
        <3>3. IsWellFoundedOn(StrictSubsetOrdering(S), all)
            BY <3>1, <3>2
        <3> QED BY <3>3 DEF all
    <2>2. Outside \subseteq SUBSET S /\ Outside # {}
        OBVIOUS
    <2> HIDE DEF Outside
    <2> QED BY <2>1, <2>2, WFMin
<1>2. PICK x \in T : T \ {x} \notin G
    <2>1. T \notin G /\ T # {}
        OBVIOUS
    <2>2. PICK x \in T : T \ {x} \in G => T \in G
        BY <2>1
    <2> QED BY <2>1, <2>2
<1>3. T \ {x} \in Outside
    BY <1>2
<1>4. <<T \ {x}, T>> \in StrictSubsetOrdering(S)
    BY DEF StrictSubsetOrdering
<1> QED BY <1>1, <1>3, <1>4

\* The units of one element.
LEMMA UnitsOfOne ==
    ASSUME NEW p, NEW n \in Nat
    PROVE  IsFiniteSet({p} \X (1..n)) /\ Cardinality({p} \X (1..n)) = n
<1> DEFINE A == 1..n
           B == {p} \X (1..n)
           f == [i \in A |-> <<p, i>>]
<1>1. f \in Bijection(A, B)
    <2>1. f \in [A -> B]
        OBVIOUS
    <2>2. \A a, b \in A : f[a] = f[b] => a = b
        OBVIOUS
    <2>3. \A b \in B : \E a \in A : f[a] = b
        OBVIOUS
    <2> QED BY <2>1, <2>2, <2>3, Fun_IsBij
<1>2. IsFiniteSet(A) /\ Cardinality(A) = n
    <2>1. Cardinality(1..n) = IF 1 > n THEN 0 ELSE n - 1 + 1
        BY FS_Interval
    <2> QED BY <2>1, FS_Interval
<1>3. ExistsBijection(A, B)
    BY <1>1 DEF ExistsBijection
<1> QED BY <1>2, <1>3, FS_Bijection

\* A sum is a natural number, and that of the others and one value.
SumFits(f, S) ==
    /\ IsFiniteSet(Units(f, S)) /\ SumOf(f, S) \in Nat
    /\ \A x \in S : SumOf(f, S \ {x}) \in Nat /\ SumOf(f, S) = f[x] + SumOf(f, S \ {x})

\* The units of one element and those of the others.
LEMMA UnitsApart ==
    ASSUME NEW f, NEW S, NEW x \in S, f[x] \in Nat, IsFiniteSet(Units(f, S \ {x}))
    PROVE  /\ IsFiniteSet(Units(f, S))
           /\ SumOf(f, S \ {x}) \in Nat /\ SumOf(f, S) = f[x] + SumOf(f, S \ {x})
<1> DEFINE A == {x} \X (1..f[x])
           B == Units(f, S \ {x})
<1>1. Units(f, S) = A \cup B /\ A \cap B = {}
    BY DEF Units
<1>2. IsFiniteSet(A) /\ Cardinality(A) = f[x]
    BY UnitsOfOne
<1>3. IsFiniteSet(A \cup B) /\ Cardinality(A \cup B) = Cardinality(A) + Cardinality(B) - 0
    <2>1. IsFiniteSet(B) /\ Cardinality(A \cap B) = 0
        BY <1>1, FS_EmptySet
    <2> HIDE DEF A, B
    <2>2. /\ IsFiniteSet(A \cup B)
          /\ Cardinality(A \cup B) = Cardinality(A) + Cardinality(B) - Cardinality(A \cap B)
        BY <1>2, <2>1, FS_Union
    <2> QED BY <2>1, <2>2
<1>4. Cardinality(B) \in Nat
    BY FS_CardinalityType
<1> QED BY <1>1, <1>2, <1>3, <1>4 DEF SumOf

\* Every part of a finite set has such a sum.
LEMMA SumsFit ==
    ASSUME NEW f, NEW S, IsFiniteSet(S), \A p \in S : f[p] \in Nat
    PROVE  \A T \in SUBSET S : SumFits(f, T)
<1> DEFINE G == {T \in SUBSET S : IsFiniteSet(Units(f, T))}
<1>1. {} \in G
    BY FS_EmptySet DEF Units
<1>2. ASSUME NEW T \in SUBSET S, NEW x \in T, T \ {x} \in G
      PROVE  T \in G
    BY <1>2, UnitsApart
<1>3. \A T \in SUBSET S : T \in G
    <2>1. \A T \in SUBSET S : T = {} \/ \E x \in T : T \ {x} \in G => T \in G
        BY <1>2
    <2> HIDE DEF G
    <2> QED BY <1>1, <2>1, AllFiniteSets
<1>4. ASSUME NEW T \in SUBSET S
      PROVE  SumFits(f, T)
    <2>1. IsFiniteSet(Units(f, T)) /\ \A x \in T : IsFiniteSet(Units(f, T \ {x}))
        BY <1>3
    <2>2. SumOf(f, T) \in Nat
        BY <2>1, FS_CardinalityType DEF SumOf
    <2>3. ASSUME NEW x \in T
          PROVE  SumOf(f, T \ {x}) \in Nat /\ SumOf(f, T) = f[x] + SumOf(f, T \ {x})
        <3>1. f[x] \in Nat /\ IsFiniteSet(Units(f, T \ {x}))
            BY <2>1
        <3> HIDE DEF G
        <3> QED BY <3>1, UnitsApart
    <2> QED BY <2>1, <2>2, <2>3 DEF SumFits
<1> QED BY <1>4

\* Whatever adds up value by value is the sum.
AddsUp(f, S, g) ==
    \A T \in SUBSET S : \/ T = {} /\ g[T] = 0
                        \/ \E x \in T : g[T] = f[x] + g[T \ {x}]

\* There is only one way to add up.
LEMMA SumIsUnique ==
    ASSUME NEW f, NEW S, IsFiniteSet(S), \A p \in S : f[p] \in Nat, NEW g, AddsUp(f, S, g)
    PROVE  g[S] = SumOf(f, S)
<1> DEFINE G == {T \in SUBSET S : g[T] = SumOf(f, T)}
<1>1. SumOf(f, {}) = 0
    BY FS_EmptySet DEF SumOf, Units
<1>2. \A T \in SUBSET S : \A x \in T : SumOf(f, T) = f[x] + SumOf(f, T \ {x})
    <2>1. \A T \in SUBSET S : SumFits(f, T)
        BY SumsFit
    <2> QED BY <2>1 DEF SumFits
<1>3. g[{}] = 0
    BY DEF AddsUp
<1>4. ASSUME NEW T \in SUBSET S, T # {}
      PROVE  \E x \in T : T \ {x} \in G => T \in G
    <2>1. PICK x \in T : g[T] = f[x] + g[T \ {x}]
        BY <1>4 DEF AddsUp
    <2> QED BY <1>2, <2>1
<1>5. S \in G
    <2>1. {} \in G
        BY <1>1, <1>3
    <2>2. \A T \in SUBSET S : T = {} \/ \E x \in T : T \ {x} \in G => T \in G
        BY <1>4
    <2> HIDE DEF G
    <2>3. \A T \in SUBSET S : T \in G
        BY <2>1, <2>2, AllFiniteSets
    <2> QED BY <2>3
<1> QED BY <1>5

\* What agrees on S has the same sum there.
LEMMA SumOfSame ==
    ASSUME NEW f, NEW g, NEW S, \A p \in S : f[p] = g[p]
    PROVE  SumOf(f, S) = SumOf(g, S)
<1>1. Units(f, S) = Units(g, S)
    BY DEF Units
<1> QED BY <1>1 DEF SumOf

\* One value changes, and the sum by as much.
LEMMA SumChanges ==
    ASSUME NEW S, IsFiniteSet(S), NEW f, NEW g, \A p \in S : f[p] \in Nat /\ g[p] \in Nat,
           NEW x \in S, \A p \in S : p # x => g[p] = f[p]
    PROVE  /\ SumOf(f, S) \in Nat /\ SumOf(g, S) \in Nat
           /\ SumOf(g, S) = (SumOf(f, S) - f[x]) + g[x]
<1>1. SumFits(f, S) /\ SumFits(g, S)
    BY SumsFit
<1>2. SumOf(f, S \ {x}) = SumOf(g, S \ {x})
    BY SumOfSame
<1>3. PICK n \in Nat : n = SumOf(f, S \ {x})
    BY <1>1 DEF SumFits
<1>4. SumOf(f, S) = f[x] + n /\ SumOf(g, S) = g[x] + n
    BY <1>1, <1>2, <1>3 DEF SumFits
<1>5. f[x] \in Nat /\ g[x] \in Nat
    OBVIOUS
<1> QED BY <1>3, <1>4, <1>5

\* Where f is 0 there are no units.
LEMMA SumOfPart ==
    ASSUME NEW S, NEW T \in SUBSET S, NEW f, \A p \in S \ T : f[p] = 0
    PROVE  SumOf(f, S) = SumOf(f, T)
<1>1. \A p \in S \ T : {p} \X (1..f[p]) = {}
    OBVIOUS
<1>2. Units(f, S) = Units(f, T)
    <2> DEFINE of(p) == {p} \X (1..f[p])
    <2>1. \A p \in S \ T : of(p) = {}
        BY <1>1
    <2> HIDE DEF of
    <2>2. UNION {of(p) : p \in S} = UNION {of(p) : p \in T}
        BY <2>1
    <2> QED BY <2>2 DEF of, Units
<1> QED BY <1>2 DEF SumOf

\* A sum of values of at most m is at most m times their number.
LEMMA SumAtMost ==
    ASSUME NEW S, IsFiniteSet(S), NEW f, NEW m \in Nat, \A p \in S : f[p] \in 0..m
    PROVE  SumOf(f, S) \in Nat /\ SumOf(f, S) <= Cardinality(S) * m
<1> DEFINE G == {T \in SUBSET S : SumOf(f, T) <= Cardinality(T) * m}
<1>1. \A T \in SUBSET S : SumFits(f, T)
    BY SumsFit
<1>2. {} \in G
    <2>1. SumOf(f, {}) = 0 /\ Cardinality({}) = 0
        BY FS_EmptySet DEF SumOf, Units
    <2> QED BY <2>1
<1>3. ASSUME NEW T \in SUBSET S, NEW x \in T, T \ {x} \in G
      PROVE  T \in G
    <2>1. SumOf(f, T) = f[x] + SumOf(f, T \ {x}) /\ SumOf(f, T \ {x}) \in Nat
        BY <1>1 DEF SumFits
    <2>2. /\ Cardinality(T) \in Nat /\ Cardinality(T \ {x}) \in Nat
          /\ Cardinality(T \ {x}) = Cardinality(T) - 1
        BY FS_Subset, FS_RemoveElement, FS_CardinalityType
    <2>3. ASSUME NEW a \in Nat, NEW b \in Nat, b = a - 1
          PROVE  b * m = a * m - m
        BY <2>3
    <2>4. Cardinality(T \ {x}) * m = Cardinality(T) * m - m
        BY <2>2, <2>3
    <2>5. Cardinality(T) * m \in Nat
        BY <2>2
    <2>6. f[x] \in Nat /\ f[x] <= m /\ SumOf(f, T \ {x}) <= Cardinality(T \ {x}) * m
        BY <1>3
    <2>7. SumOf(f, T) <= Cardinality(T) * m
        BY <2>1, <2>4, <2>5, <2>6
    <2> QED BY <2>7
<1>4. \A T \in SUBSET S : T \in G
    <2>1. \A T \in SUBSET S : T = {} \/ \E x \in T : T \ {x} \in G => T \in G
        BY <1>3
    <2> HIDE DEF G
    <2> QED BY <1>2, <2>1, AllFiniteSets
<1> QED BY <1>1, <1>4 DEF SumFits

\* The community modules' sum of the values of f, written out, is this one.
Sums(f, S, g) == g = [s \in SUBSET S |->
                         IF s = {} THEN 0
                         ELSE LET x == CHOOSE x \in s : TRUE IN f[x] + g[s \ {x}]]

\* The sums of the parts of S are such a function.
LEMMA SumsExist ==
    ASSUME NEW S, IsFiniteSet(S), NEW f, \A p \in S : f[p] \in Nat
    PROVE  Sums(f, S, [s \in SUBSET S |-> SumOf(f, s)])
<1> DEFINE h == [s \in SUBSET S |-> SumOf(f, s)]
<1>1. ASSUME NEW s \in SUBSET S, s # {}
      PROVE  h[s] = LET x == CHOOSE x \in s : TRUE IN f[x] + h[s \ {x}]
    <2> DEFINE x == CHOOSE x \in s : TRUE
    <2>1. x \in s
        BY <1>1
    <2> HIDE DEF x
    <2>2. SumFits(f, s)
        BY SumsFit
    <2>3. h[s] = f[x] + h[s \ {x}]
        BY <2>1, <2>2 DEF SumFits
    <2> QED BY <2>3 DEF x
<1>2. h[{}] = 0
    BY FS_EmptySet DEF SumOf, Units
<1> QED BY <1>1, <1>2 DEF Sums

\* And every such function gives the sum.
LEMMA SumsAgree ==
    ASSUME NEW S, IsFiniteSet(S), NEW f, \A p \in S : f[p] \in Nat, NEW g, Sums(f, S, g)
    PROVE  g[S] = SumOf(f, S)
<1>1. AddsUp(f, S, g)
    <2>1. ASSUME NEW T \in SUBSET S
          PROVE  \/ T = {} /\ g[T] = 0
                 \/ \E x \in T : g[T] = f[x] + g[T \ {x}]
        BY DEF Sums
    <2> QED BY <2>1 DEF AddsUp
<1> QED BY <1>1, SumIsUnique

-----------------------------------------------------------------------------
(***************************************************************************)
(* The room of a job: what it has counted and what it has stored.          *)
(***************************************************************************)
\* The pages of a platform that are stored and not yet counted.
Uncounted(F) == [p \in Platform |-> Cardinality(F[p].kept)]

Room(b, F, wanted) == SumOf(b.counts, wanted) + SumOf(Uncounted(F), Platform)
Limit(wanted)      == HardCap + (Cardinality(wanted) - 1) * PageSize

\* A job without a page and without a request under way has whatever its scopes had; from its
\* first request on, it never has more than the limit.
RoomFits(b, F, wanted) ==
    /\ b.phase # "fetching" => b.pages = {}
    /\ \A p \in Platform :
          /\ F[p].phase # "idle" => p \in wanted
          /\ F[p].kept # {} => F[p].phase = "noting"
          /\ Cardinality(F[p].kept) <= PageSize
    /\ \/ b.pages = {} /\ \A p \in Platform : F[p].phase \notin {"waiting", "noting"}
       \/ Room(b, F, wanted) <= Limit(wanted)

RoomKnown == \A j \in Job : RoomFits(job[j], fetch[j], Platforms[j])

\* What the stop policy has counted (CatalogStopPolicy.total) is a sum.
LEMMA TotalIsSum ==
    ASSUME NEW j \in Job, \A p \in Platforms[j] : job[j].counts[p] \in Nat
    PROVE  Total(j) = SumOf(job[j].counts, Platforms[j])
<1> DEFINE f == job[j].counts
           S == Platforms[j]
<1>1. IsFiniteSet(S)
    BY HydAssumption, FS_Subset
<1>2. Total(j) = (CHOOSE g : Sums(f, S, g))[S]
    BY DEF Total, MapThenSumSet, MapThenFoldSet, Sums
<1> HIDE DEF f, S
<1>3. PICK g : g = (CHOOSE k : Sums(f, S, k)) /\ Sums(f, S, g)
    <2>1. \A p \in S : f[p] \in Nat
        BY DEF f, S
    <2>2. Sums(f, S, [s \in SUBSET S |-> SumOf(f, s)])
        BY <1>1, <2>1, SumsExist
    <2> QED BY <2>2
<1>4. g[S] = SumOf(f, S)
    BY <1>1, <1>3, SumsAgree DEF f, S
<1> QED BY <1>2, <1>3, <1>4 DEF f, S

\* And so is what is stored and not yet counted.
LEMMA PendingIsSum ==
    ASSUME NEW j \in Job, \A p \in Platform : Cardinality(fetch[j][p].kept) \in Nat
    PROVE  Pending(j) = SumOf(Uncounted(fetch[j]), Platform)
<1> DEFINE f == Uncounted(fetch[j])
           Written(g) == g = [s \in SUBSET Platform |->
               IF s = {} THEN 0
               ELSE LET x == CHOOSE x \in s : TRUE
                    IN  Cardinality(fetch[j][x].kept) + g[s \ {x}]]
<1>1. Pending(j) = (CHOOSE g : Written(g))[Platform]
    BY DEF Pending, MapThenSumSet, MapThenFoldSet
<1>2. \A g : Written(g) <=> Sums(f, Platform, g)
    BY DEF Sums, Uncounted
<1>3. \A p \in Platform : f[p] \in Nat
    BY DEF Uncounted
<1>4. IsFiniteSet(Platform)
    BY HydAssumption
<1> HIDE DEF f, Written
<1>5. PICK g : g = (CHOOSE k : Written(k)) /\ Written(g)
    <2>1. Sums(f, Platform, [s \in SUBSET Platform |-> SumOf(f, s)])
        BY <1>3, <1>4, SumsExist
    <2>2. Written([s \in SUBSET Platform |-> SumOf(f, s)])
        BY <1>2, <2>1
    <2> QED BY <2>2
<1>6. g[Platform] = SumOf(f, Platform)
    BY <1>2, <1>3, <1>4, <1>5, SumsAgree
<1> QED BY <1>1, <1>5, <1>6 DEF f

\* Numbers of offers and of platforms.
LEMMA RoomTypes ==
    ASSUME HydTypes, NEW j \in Job
    PROVE  /\ IsFiniteSet(Platforms[j]) /\ Platforms[j] \in SUBSET Platform
           /\ IsFiniteSet(Platform)
           /\ \A p \in Platform : job[j].counts[p] \in Nat
           /\ \A p \in Platform : Cardinality(fetch[j][p].kept) \in Nat
<1>1. IsFiniteSet(Platforms[j]) /\ Platforms[j] \in SUBSET Platform /\ IsFiniteSet(Platform)
    BY HydAssumption, FS_Subset
<1>2. job[j].counts \in [Platform -> Nat]
    BY DEF HydTypes, JobRow
<1>3. \A p \in Platform : fetch[j][p].kept \in SUBSET Offer
    BY DEF HydTypes, FetchRow
<1>4. \A p \in Platform : Cardinality(fetch[j][p].kept) \in Nat
    BY <1>3, OffersFit DEF OffersCount
<1> QED BY <1>1, <1>2, <1>4

\* The sums of a job are numbers.
LEMMA RoomIsNumber ==
    ASSUME HydTypes, NEW j \in Job
    PROVE  /\ SumOf(job[j].counts, Platforms[j]) \in Nat
           /\ SumOf(Uncounted(fetch[j]), Platform) \in Nat
           /\ Total(j) = SumOf(job[j].counts, Platforms[j])
           /\ Pending(j) = SumOf(Uncounted(fetch[j]), Platform)
           /\ Cardinality(Platforms[j]) \in Nat \ {0}
<1>1. SumFits(job[j].counts, Platforms[j])
    BY RoomTypes, SumsFit
<1>2. SumFits(Uncounted(fetch[j]), Platform)
    <2>1. \A p \in Platform : Uncounted(fetch[j])[p] \in Nat
        BY RoomTypes DEF Uncounted
    <2> QED BY <2>1, RoomTypes, SumsFit
<1>3. Total(j) = SumOf(job[j].counts, Platforms[j])
    BY RoomTypes, TotalIsSum
<1>4. Pending(j) = SumOf(Uncounted(fetch[j]), Platform)
    BY RoomTypes, PendingIsSum
<1>5. Cardinality(Platforms[j]) \in Nat \ {0}
    BY RoomTypes, HydAssumption, FS_EmptySet, FS_CardinalityType
<1> QED BY <1>1, <1>2, <1>3, <1>4, <1>5 DEF SumFits

\* A step of one job cannot take the room of another.
LEMMA RoomOfOne ==
    ASSUME RoomKnown, NEW j \in Job, HydTypes, HydTypes',
           \A i \in Job : i # j => job'[i] = job[i] /\ fetch'[i] = fetch[i],
           RoomFits(job'[j], fetch'[j], Platforms[j])
    PROVE  RoomKnown'
BY DEF RoomKnown

\* A job that asks for nothing and has no page.
Quiet(b, F, wanted) ==
    /\ b.pages = {}
    /\ \A p \in Platform : /\ F[p].kept = {} /\ F[p].phase \notin {"waiting", "noting"}
                           /\ F[p].phase # "idle" => p \in wanted

LEMMA QuietFits ==
    ASSUME NEW b, NEW F, NEW wanted, Quiet(b, F, wanted)
    PROVE  RoomFits(b, F, wanted)
<1>1. Cardinality({}) = 0 /\ 0 <= PageSize
    BY FS_EmptySet, HydAssumption
<1> QED BY <1>1 DEF Quiet, RoomFits

\* So is every job that is not fetching.
LEMMA QuietWhenIdle ==
    ASSUME HydTypes, JobsFit, RoomKnown, NEW j \in Job, job[j].phase # "fetching"
    PROVE  /\ Quiet(job[j], fetch[j], Platforms[j])
           /\ \A p \in Platform : fetch[j][p].phase = "idle"
BY DEF JobsFit, FetchFits, RoomKnown, RoomFits, Quiet

\* Neither the pages nor the counts change.
LEMMA SameRoom ==
    ASSUME HydTypes, RoomKnown, NEW j \in Job, NEW b, b.counts = job[j].counts,
           b.pages = job[j].pages, b.phase # "fetching" => job[j].phase # "fetching"
    PROVE  RoomFits(b, fetch[j], Platforms[j])
<1>1. RoomFits(job[j], fetch[j], Platforms[j])
    BY DEF RoomKnown
<1> QED BY <1>1 DEF RoomFits, Room

\* A job whose fetches are forgotten is quiet.
LEMMA ForgottenIsQuiet ==
    ASSUME NEW b, b.pages = {}, NEW wanted
    PROVE  RoomFits(b, [p \in Platform |-> NotFetching], wanted)
<1>1. Quiet(b, [p \in Platform |-> NotFetching], wanted)
    BY DEF Quiet, NotFetching
<1> QED BY <1>1, QuietFits

\* What a step of job j leaves of the room, for the job itself.
RoomStep(j) ==
    /\ \A i \in Job : i # j => job'[i] = job[i] /\ fetch'[i] = fetch[i]
    /\ RoomFits(job'[j], fetch'[j], Platforms[j])

\* The task of a job ends, with its fetches forgotten or long over.
LEMMA EndedRoom ==
    ASSUME HydTypes, JobsFit, RoomKnown, NEW j \in Job, NEW answer, Ended(j, answer),
           Forget(j) \/ (UNCHANGED fetch /\ job[j].phase # "fetching")
    PROVE  RoomStep(j)
<1> DEFINE b == [NoJob EXCEPT !.phase = "done", !.owner = job[j].owner, !.subs = job[j].subs]
<1>1. job' = [job EXCEPT ![j] = b] /\ b.pages = {}
    BY DEF Ended, NoJob
<1> HIDE DEF b
<1>2. job'[j] = b /\ \A i \in Job : i # j => job'[i] = job[i]
    BY <1>1 DEF HydTypes
<1>3. CASE Forget(j)
    <2>1. fetch'[j] = [p \in Platform |-> NotFetching]
          /\ \A i \in Job : i # j => fetch'[i] = fetch[i]
        BY <1>3 DEF Forget, HydTypes
    <2> QED BY <1>1, <1>2, <2>1, ForgottenIsQuiet DEF RoomStep
<1>4. CASE UNCHANGED fetch /\ job[j].phase # "fetching"
    <2>1. Quiet(job[j], fetch[j], Platforms[j])
        BY <1>4, QuietWhenIdle
    <2>2. Quiet(b, fetch[j], Platforms[j])
        BY <1>1, <2>1 DEF Quiet
    <2> QED BY <1>2, <1>4, <2>2, QuietFits DEF RoomStep
<1> QED BY <1>3, <1>4

\* The end of a job's fetches.
LEMMA SettlingRoom ==
    ASSUME HydTypes, NEW j \in Job, NEW outcome, NEW todo, Settling(j, outcome, todo)
    PROVE  RoomStep(j)
<1> DEFINE b == [NoJob EXCEPT !.phase = "settling", !.owner = job[j].owner,
                     !.subs = job[j].subs, !.leased = job[j].leased, !.outcome = outcome,
                     !.todo = todo]
<1>1. job' = [job EXCEPT ![j] = b] /\ b.pages = {}
    BY DEF Settling, NoJob
<1> HIDE DEF b
<1>2. job'[j] = b /\ \A i \in Job : i # j => job'[i] = job[i]
    BY <1>1 DEF HydTypes
<1>3. fetch'[j] = [p \in Platform |-> NotFetching]
      /\ \A i \in Job : i # j => fetch'[i] = fetch[i]
    BY DEF Settling, Forget, HydTypes
<1> QED BY <1>1, <1>2, <1>3, ForgottenIsQuiet DEF RoomStep

\* A step that changes neither pages nor counts nor fetches.
LEMMA SameRoomStep ==
    ASSUME HydTypes, RoomKnown, NEW j \in Job, NEW b, job' = [job EXCEPT ![j] = b],
           UNCHANGED fetch, b.counts = job[j].counts, b.pages = job[j].pages,
           b.phase # "fetching" => job[j].phase # "fetching"
    PROVE  RoomStep(j)
<1>1. job'[j] = b /\ \A i \in Job : i # j => job'[i] = job[i]
    BY DEF HydTypes
<1> QED BY <1>1, SameRoom DEF RoomStep

\* Coverage is inspected, the run created, the leases taken: nothing is asked for yet.
LEMMA InspectRoom ==
    ASSUME HydTypes, JobsFit, RoomKnown, NEW j \in Job, Inspect(j)
    PROVE  RoomStep(j)
<1>1. job[j].phase = "inspecting"
    BY DEF Inspect, Live
<1>2. CASE Ended(j, "cache") /\ UNCHANGED fetch
    BY <1>1, <1>2, EndedRoom
<1>3. CASE ~(Ended(j, "cache") /\ UNCHANGED fetch)
    <2> DEFINE counts == [p \in Platform |->
                   IF p \in Platforms[j] THEN Cardinality(scope[p].fresh) ELSE 0]
               b == [job[j] EXCEPT !.phase = "creating", !.counts = counts]
               F == [p \in Platform |-> [NotFetching EXCEPT !.seen = scope[p].fresh]]
    <2>1. job' = [job EXCEPT ![j] = b] /\ fetch' = [fetch EXCEPT ![j] = F]
        BY <1>3 DEF Inspect
    <2>2. job[j].pages = {}
        BY <1>1, QuietWhenIdle DEF Quiet
    <2>3. b.pages = {}
        BY <2>2 DEF HydTypes, JobRow
    <2>4. \A p \in Platform : F[p].kept = {} /\ F[p].phase = "idle"
        BY DEF NotFetching
    <2> HIDE DEF b, F
    <2>5. Quiet(b, F, Platforms[j])
        BY <2>3, <2>4 DEF Quiet
    <2>6. /\ job'[j] = b /\ fetch'[j] = F
          /\ \A i \in Job : i # j => job'[i] = job[i] /\ fetch'[i] = fetch[i]
        BY <2>1 DEF HydTypes
    <2> QED BY <2>5, <2>6, QuietFits DEF RoomStep
<1> QED BY <1>2, <1>3

\* The row of the run is written.
LEMMA CreateRoom ==
    ASSUME HydTypes, RoomKnown, NEW j \in Job, CreateHydrationRun(j)
    PROVE  RoomStep(j)
<1> DEFINE b == [job[j] EXCEPT !.phase = "leasing", !.todo = SetToSeq(Platforms[j])]
<1>1. job[j] \in JobRow /\ job[j].phase = "creating"
    BY DEF HydTypes, CreateHydrationRun, Live
<1>2. b.counts = job[j].counts /\ b.pages = job[j].pages
    BY <1>1 DEF JobRow
<1>3. job' = [job EXCEPT ![j] = b] /\ UNCHANGED fetch
    BY DEF CreateHydrationRun
<1> HIDE DEF b
<1> QED BY <1>1, <1>2, <1>3, SameRoomStep

\* A platform is leased; after the last one the fetches begin.
LEMMA LeaseRoom ==
    ASSUME HydTypes, JobsFit, RoomKnown, NEW j \in Job, AcquireScopeLease(j)
    PROVE  RoomStep(j)
<1> DEFINE p == Head(job[j].todo)
           last == Len(job[j].todo) = 1
           b == [job[j] EXCEPT !.leased = IF LeaseActive(p) THEN @ ELSE @ \cup {p},
                               !.todo = Tail(@), !.phase = IF last THEN "fetching" ELSE @]
           F == [q \in Platform |-> [fetch[j][q] EXCEPT !.phase =
                                              IF q \in Platforms[j] THEN "asking" ELSE @]]
<1>1. job[j] \in JobRow /\ fetch[j] \in [Platform -> FetchRow] /\ job[j].phase = "leasing"
    BY DEF HydTypes, AcquireScopeLease, Live
<1>2. job' = [job EXCEPT ![j] = b]
    BY Zenon DEF AcquireScopeLease
<1>3. b.counts = job[j].counts /\ b.pages = job[j].pages
    BY <1>1 DEF JobRow
<1>4. CASE ~last
    <2>1. UNCHANGED fetch
        BY <1>4, Zenon DEF AcquireScopeLease
    <2> HIDE DEF b
    <2> QED BY <1>1, <1>2, <1>3, <2>1, SameRoomStep
<1>5. CASE last
    <2>1. fetch' = [fetch EXCEPT ![j] = F]
        BY <1>5, Zenon DEF AcquireScopeLease
    <2>2. /\ Quiet(job[j], fetch[j], Platforms[j])
          /\ \A q \in Platform : fetch[j][q].phase = "idle"
        BY <1>1, QuietWhenIdle
    <2>3. \A q \in Platform : /\ F[q].kept = fetch[j][q].kept
                              /\ F[q].phase = IF q \in Platforms[j] THEN "asking" ELSE "idle"
        BY <1>1, <2>2 DEF FetchRow
    <2> HIDE DEF b, F
    <2>4. Quiet(b, F, Platforms[j])
        BY <1>3, <2>2, <2>3 DEF Quiet
    <2>5. /\ job'[j] = b /\ fetch'[j] = F
          /\ \A i \in Job : i # j => job'[i] = job[i] /\ fetch'[i] = fetch[i]
        BY <1>2, <2>1 DEF HydTypes
    <2> QED BY <2>4, <2>5, QuietFits DEF RoomStep
<1> QED BY <1>4, <1>5

\* A fetch counts offers and keeps a page: the room changes by as much.
LEMMA RoomChanges ==
    ASSUME HydTypes, RoomKnown, NEW j \in Job, NEW p \in Platform, fetch[j][p].phase # "idle",
           NEW b \in JobRow, \A q \in Platform \ {p} : b.counts[q] = job[j].counts[q],
           NEW f \in FetchRow
    PROVE  LET F == [fetch[j] EXCEPT ![p] = f]
           IN  /\ Room(job[j], fetch[j], Platforms[j]) \in Nat
               /\ Room(b, F, Platforms[j])
                    = Room(job[j], fetch[j], Platforms[j])
                        + (b.counts[p] - job[j].counts[p])
                        + (Cardinality(f.kept) - Cardinality(fetch[j][p].kept))
<1> DEFINE F == [fetch[j] EXCEPT ![p] = f]
           P == Platforms[j]
           u == Uncounted(fetch[j])
           v == Uncounted(F)
<1>1. fetch[j] \in [Platform -> FetchRow] /\ F \in [Platform -> FetchRow]
    BY DEF HydTypes
<1>2. p \in P
    BY DEF RoomKnown, RoomFits
<1>3. /\ job[j].counts \in [Platform -> Nat] /\ b.counts \in [Platform -> Nat]
    BY DEF HydTypes, JobRow
<1>4. /\ u[p] = Cardinality(fetch[j][p].kept) /\ v[p] = Cardinality(f.kept)
      /\ \A q \in Platform : q # p => v[q] = u[q]
      /\ \A q \in Platform : u[q] \in Nat /\ v[q] \in Nat
    <2>1. \A q \in Platform : u[q] = Cardinality(fetch[j][q].kept)
                              /\ v[q] = Cardinality(F[q].kept)
        BY DEF Uncounted
    <2>2. F[p] = f /\ \A q \in Platform : q # p => F[q] = fetch[j][q]
        BY <1>1
    <2>3. \A q \in Platform : fetch[j][q].kept \in SUBSET Offer /\ F[q].kept \in SUBSET Offer
        BY <1>1 DEF FetchRow
    <2>4. \A q \in Platform : u[q] \in Nat /\ v[q] \in Nat
        BY <2>1, <2>3, OffersFit DEF OffersCount
    <2> HIDE DEF F, u, v
    <2> QED BY <2>1, <2>2, <2>4
<1> DEFINE c == job[j].counts
           d == b.counts
<1>5. /\ SumOf(c, P) \in Nat /\ SumOf(d, P) \in Nat
      /\ SumOf(d, P) = (SumOf(c, P) - c[p]) + d[p]
    <2>1. IsFiniteSet(P) /\ P \in SUBSET Platform
        BY RoomTypes
    <2>2. \A q \in P : c[q] \in Nat /\ d[q] \in Nat
        BY <1>3, <2>1
    <2>3. \A q \in P : q # p => d[q] = c[q]
        BY <2>1
    <2> HIDE DEF P, c, d
    <2> QED BY <1>2, <2>1, <2>2, <2>3, SumChanges
<1>6. /\ SumOf(u, Platform) \in Nat /\ SumOf(v, Platform) \in Nat
      /\ SumOf(v, Platform) = (SumOf(u, Platform) - u[p]) + v[p]
    <2>1. IsFiniteSet(Platform) /\ \A q \in Platform : u[q] \in Nat /\ v[q] \in Nat
        BY <1>4, RoomTypes
    <2>2. \A q \in Platform : q # p => v[q] = u[q]
        BY <1>4
    <2> HIDE DEF u, v
    <2> QED BY <2>1, <2>2, SumChanges
<1>7. u[p] \in Nat /\ v[p] \in Nat /\ job[j].counts[p] \in Nat /\ b.counts[p] \in Nat
    BY <1>3, <1>4
<1>8. Room(job[j], fetch[j], P) = SumOf(job[j].counts, P) + SumOf(u, Platform)
    BY DEF Room
<1>9. Room(b, F, P) = SumOf(b.counts, P) + SumOf(v, Platform)
    BY DEF Room
<1> HIDE DEF F, P, u, v
<1>10. Room(b, F, P) = Room(job[j], fetch[j], P) + (b.counts[p] - job[j].counts[p])
                          + (v[p] - u[p])
    BY <1>5, <1>6, <1>7, <1>8, <1>9
<1> QED BY <1>4, <1>5, <1>6, <1>8, <1>10 DEF F, P

\* What has to be shown of a step of one platform's fetch.
LEMMA FetchRoom ==
    ASSUME HydTypes, RoomKnown, NEW j \in Job, NEW p \in Platform, fetch[j][p].phase # "idle",
           NEW b \in JobRow, NEW f \in FetchRow, b.phase = "fetching",
           job' = [job EXCEPT ![j] = b], fetch' = [fetch EXCEPT ![j][p] = f],
           f.kept # {} => f.phase = "noting", Cardinality(f.kept) <= PageSize,
           \/ /\ b.pages = job[j].pages /\ f.phase \notin {"waiting", "noting"}
              /\ b.pages = {} /\ \A q \in Platform : fetch[j][q].phase \notin {"waiting", "noting"}
           \/ Room(b, [fetch[j] EXCEPT ![p] = f], Platforms[j]) <= Limit(Platforms[j])
    PROVE  RoomStep(j)
<1> DEFINE F == [fetch[j] EXCEPT ![p] = f]
<1>1. fetch[j] \in [Platform -> FetchRow]
    BY DEF HydTypes
<1>2. F[p] = f /\ \A q \in Platform : q # p => F[q] = fetch[j][q]
    BY <1>1
<1>3. /\ job'[j] = b /\ fetch'[j] = F
      /\ \A i \in Job : i # j => job'[i] = job[i] /\ fetch'[i] = fetch[i]
    BY DEF HydTypes
<1>4. RoomFits(job[j], fetch[j], Platforms[j])
    BY DEF RoomKnown
<1> HIDE DEF F
<1>5. \A q \in Platform : /\ F[q].phase # "idle" => q \in Platforms[j]
                          /\ F[q].kept # {} => F[q].phase = "noting"
                          /\ Cardinality(F[q].kept) <= PageSize
    BY <1>2, <1>4 DEF RoomFits
<1>6. \/ b.pages = {} /\ \A q \in Platform : F[q].phase \notin {"waiting", "noting"}
      \/ Room(b, F, Platforms[j]) <= Limit(Platforms[j])
    BY <1>2 DEF F
<1>7. RoomFits(b, F, Platforms[j])
    BY <1>5, <1>6 DEF RoomFits
<1> QED BY <1>3, <1>7 DEF RoomStep

\* A fetch that stops keeps nothing, and its job counts what it counted.
LEMMA StopRoom ==
    ASSUME HydTypes, RoomKnown, NEW j \in Job, NEW p \in Platform, Asking(j, p), Stop(j, p),
           NEW b \in JobRow, job' = [job EXCEPT ![j] = b], b.counts = job[j].counts,
           b.pages = job[j].pages, b.phase = job[j].phase
    PROVE  RoomStep(j)
<1>1. job[j].phase = "fetching" /\ fetch[j][p].phase = "asking"
    BY DEF Asking, Live
<1>2. Fetched \in FetchRow /\ Fetched.phase = "done" /\ Fetched.kept = {}
    BY RowsBegin DEF Fetched, NotFetching
<1>3. /\ RoomFits(job[j], fetch[j], Platforms[j]) /\ fetch[j][p].kept = {}
    BY <1>1 DEF RoomKnown, RoomFits
<1>4. Cardinality({}) = 0 /\ PageSize \in Nat
    BY FS_EmptySet, HydAssumption
<1>5. /\ Room(job[j], fetch[j], Platforms[j]) \in Nat
      /\ Room(b, [fetch[j] EXCEPT ![p] = Fetched], Platforms[j])
            = Room(job[j], fetch[j], Platforms[j])
                + (b.counts[p] - job[j].counts[p])
                + (Cardinality(Fetched.kept) - Cardinality(fetch[j][p].kept))
    BY <1>1, <1>2, RoomChanges
<1>6. b.counts[p] - job[j].counts[p] = 0
    BY DEF JobRow
<1>7. Room(b, [fetch[j] EXCEPT ![p] = Fetched], Platforms[j])
        = Room(job[j], fetch[j], Platforms[j])
    BY <1>2, <1>3, <1>4, <1>5, <1>6
<1>8. fetch' = [fetch EXCEPT ![j][p] = Fetched]
    BY DEF Stop
<1>9. \/ /\ b.pages = job[j].pages /\ Fetched.phase \notin {"waiting", "noting"}
         /\ b.pages = {} /\ \A q \in Platform : fetch[j][q].phase \notin {"waiting", "noting"}
      \/ Room(b, [fetch[j] EXCEPT ![p] = Fetched], Platforms[j]) <= Limit(Platforms[j])
    BY <1>2, <1>3, <1>7 DEF RoomFits
<1>10. Fetched.kept # {} => Fetched.phase = "noting"
    BY <1>2
<1>11. Cardinality(Fetched.kept) <= PageSize
    BY <1>2, <1>4
<1> QED BY <1>1, <1>2, <1>8, <1>9, <1>10, <1>11, FetchRoom

\* The three ways in which a fetch ends before its next request.
LEMMA StopsRoom ==
    ASSUME HydTypes, RoomKnown, NEW j \in Job, NEW p \in Platform,
           NotLeased(j, p) \/ PolicyStops(j, p) \/ AlreadyAsked(j, p)
    PROVE  RoomStep(j)
<1>1. Asking(j, p) /\ Stop(j, p)
    BY Zenon DEF NotLeased, PolicyStops, AlreadyAsked
<1>2. job[j] \in JobRow
    BY DEF HydTypes
<1>3. CASE NotLeased(j, p)
    <2> DEFINE b == [job[j] EXCEPT !.partial = @ \cup {p}, !.exhausted = @ \cup {p}]
    <2>1. b \in JobRow /\ b.counts = job[j].counts /\ b.pages = job[j].pages
          /\ b.phase = job[j].phase
        BY <1>2 DEF JobRow
    <2>2. job' = [job EXCEPT ![j] = b]
        BY <1>2, <1>3 DEF NotLeased, HydTypes, JobRow
    <2> HIDE DEF b
    <2> QED BY <1>1, <2>1, <2>2, StopRoom
<1>4. CASE PolicyStops(j, p)
    <2>1. job' = [job EXCEPT ![j] = job[j]]
        BY <1>4 DEF PolicyStops, HydTypes
    <2> QED BY <1>1, <1>2, <2>1, StopRoom
<1>5. CASE AlreadyAsked(j, p)
    <2> DEFINE b == [job[j] EXCEPT !.exhausted = @ \cup {p}]
    <2>1. b \in JobRow /\ b.counts = job[j].counts /\ b.pages = job[j].pages
          /\ b.phase = job[j].phase
        BY <1>2 DEF JobRow
    <2>2. job' = [job EXCEPT ![j] = b]
        BY <1>2, <1>5 DEF AlreadyAsked, HydTypes, JobRow
    <2> HIDE DEF b
    <2> QED BY <1>1, <2>1, <2>2, StopRoom
<1> QED BY <1>3, <1>4, <1>5

\* A request under way, or a page not yet noted: the job is held to its limit.
LEMMA HeldToLimit ==
    ASSUME HydTypes, RoomKnown, NEW j \in Job, NEW p \in Platform,
           fetch[j][p].phase \in {"waiting", "noting"}
    PROVE  Room(job[j], fetch[j], Platforms[j]) <= Limit(Platforms[j])
BY DEF RoomKnown, RoomFits

\* The limit is a number, and the cap is below it.
LEMMA LimitFits ==
    ASSUME HydTypes, NEW j \in Job
    PROVE  /\ Limit(Platforms[j]) \in Nat /\ HardCap <= Limit(Platforms[j])
           /\ (Cardinality(Platforms[j]) - 1) * PageSize \in Nat
<1>1. PICK n \in Nat : n = Cardinality(Platforms[j]) - 1
    BY RoomIsNumber
<1>2. n * PageSize \in Nat /\ HardCap \in Nat
    BY HydAssumption
<1>3. (Cardinality(Platforms[j]) - 1) * PageSize = n * PageSize
    BY <1>1
<1> QED BY <1>2, <1>3 DEF Limit

\* A request leaves only below the cap; what is stored and not noted adds up to nothing if the
\* job was not held to its limit before.
LEMMA ReserveRoom ==
    ASSUME HydTypes, RoomKnown, NEW j \in Job, NEW p \in Platform, ReserveRequest(j, p),
           HydTypes'
    PROVE  RoomStep(j)
<1> DEFINE f == fetch'[j][p]
           old == Room(job[j], fetch[j], Platforms[j])
<1>1. /\ job[j].phase = "fetching" /\ fetch[j][p].phase = "asking" /\ ~Stops(j)
      /\ UNCHANGED job
    BY Zenon DEF ReserveRequest, Asking, Live
<1>2. /\ fetch' = [fetch EXCEPT ![j][p] = f]
      /\ f.phase = "waiting" /\ f.kept = fetch[j][p].kept
    <2> DEFINE g == [fetch[j][p] EXCEPT !.phase = "waiting", !.query = NextAsk(j, p)[2],
                        !.page = NextAsk(j, p)[3], !.varied = @ \/ Varies(j, p)]
    <2>1. fetch' = [fetch EXCEPT ![j][p] = g]
        BY Zenon DEF ReserveRequest
    <2>2. g.phase = "waiting" /\ g.kept = fetch[j][p].kept
        BY DEF HydTypes, FetchRow
    <2> HIDE DEF g
    <2>3. f = g
        BY <2>1 DEF HydTypes
    <2> QED BY <2>1, <2>2, <2>3
<1>3. f \in FetchRow /\ job[j] \in JobRow
    BY DEF HydTypes
<1>4. fetch[j][p].kept = {}
    BY <1>1 DEF RoomKnown, RoomFits
<1> HIDE DEF f
<1>5. /\ old \in Nat
      /\ Room(job[j], [fetch[j] EXCEPT ![p] = f], Platforms[j])
            = old + (job[j].counts[p] - job[j].counts[p])
                + (Cardinality(f.kept) - Cardinality(fetch[j][p].kept))
    BY <1>1, <1>3, RoomChanges
<1>6. job[j].counts[p] \in Nat /\ Cardinality(fetch[j][p].kept) \in Nat
    BY RoomTypes
<1>7. Room(job[j], [fetch[j] EXCEPT ![p] = f], Platforms[j]) = old
    BY <1>2, <1>5, <1>6
<1>8. old <= Limit(Platforms[j])
    <2>1. CASE \A q \in Platform : fetch[j][q].phase \notin {"waiting", "noting"}
        <3>1. \A q \in Platform : Uncounted(fetch[j])[q] \in 0..0
            <4>1. \A q \in Platform : fetch[j][q].kept = {}
                BY <2>1 DEF RoomKnown, RoomFits
            <4>2. Cardinality({}) = 0
                BY FS_EmptySet
            <4>3. \A q \in Platform : Uncounted(fetch[j])[q] = Cardinality(fetch[j][q].kept)
                BY DEF Uncounted
            <4>4. \A q \in Platform : Uncounted(fetch[j])[q] = 0
                BY <4>1, <4>2, <4>3
            <4>5. 0 \in 0..0
                OBVIOUS
            <4> QED BY <4>4, <4>5, Zenon
        <3>2. SumOf(Uncounted(fetch[j]), Platform) <= Cardinality(Platform) * 0
            BY <3>1, RoomTypes, SumAtMost
        <3>3. Cardinality(Platform) * 0 = 0
            BY RoomTypes, FS_CardinalityType
        <3>4. Total(j) < HardCap
            BY <1>1, RoomIsNumber, HydAssumption DEF Stops
        <3>5. old = Total(j) + SumOf(Uncounted(fetch[j]), Platform)
            BY RoomIsNumber DEF Room
        <3> QED BY <3>2, <3>3, <3>4, <3>5, RoomIsNumber, LimitFits, HydAssumption
    <2>2. CASE \E q \in Platform : fetch[j][q].phase \in {"waiting", "noting"}
        BY <2>2, HeldToLimit
    <2> QED BY <2>1, <2>2
<1>9. /\ f.kept # {} => f.phase = "noting"
      /\ Cardinality(f.kept) <= PageSize
    BY <1>2, <1>4, FS_EmptySet, HydAssumption
<1>10. Room(job[j], [fetch[j] EXCEPT ![p] = f], Platforms[j]) <= Limit(Platforms[j])
    BY <1>7, <1>8
<1>11. job' = [job EXCEPT ![j] = job[j]]
    BY <1>1 DEF HydTypes
<1> HIDE DEF old
<1> QED BY <1>1, <1>2, <1>3, <1>9, <1>10, <1>11, FetchRoom

\* A page is cut to what the cap leaves; the other platforms of the job may each have one page
\* stored and not noted.
LEMMA PersistRoom ==
    ASSUME HydTypes, RoomKnown, NEW j \in Job, NEW p \in Platform, NEW kept \in SUBSET Offer,
           NEW more \in BOOLEAN, PersistPage(j, p, kept, more), HydTypes'
    PROVE  RoomStep(j)
<1> DEFINE f == fetch'[j][p]
           old == Room(job[j], fetch[j], Platforms[j])
           P == Platforms[j]
           u == Uncounted(fetch[j])
<1>1. /\ job[j].phase = "fetching" /\ fetch[j][p].phase = "waiting"
      /\ UNCHANGED job
      /\ Cardinality(kept) <= PageSize /\ Cardinality(kept) <= Remaining(j)
    BY Zenon DEF PersistPage, Live
<1>2. /\ fetch' = [fetch EXCEPT ![j][p] = f]
      /\ f.phase = "noting" /\ f.kept = kept
    <2> DEFINE g == [fetch[j][p] EXCEPT !.phase = "noting", !.kept = kept, !.ok = TRUE,
                                        !.more = more]
    <2>1. fetch' = [fetch EXCEPT ![j][p] = g]
        BY Zenon DEF PersistPage
    <2>2. g.phase = "noting" /\ g.kept = kept
        BY DEF HydTypes, FetchRow
    <2> HIDE DEF g
    <2>3. f = g
        BY <2>1 DEF HydTypes
    <2> QED BY <2>1, <2>2, <2>3
<1>3. f \in FetchRow /\ job[j] \in JobRow
    BY DEF HydTypes
<1>4. fetch[j][p].kept = {} /\ p \in P
    BY <1>1 DEF RoomKnown, RoomFits
<1>5. Cardinality(kept) \in Nat /\ Cardinality({}) = 0
    BY OffersFit, FS_EmptySet DEF OffersCount
<1> HIDE DEF f
<1>6. /\ old \in Nat
      /\ Room(job[j], [fetch[j] EXCEPT ![p] = f], P)
            = old + (job[j].counts[p] - job[j].counts[p])
                + (Cardinality(f.kept) - Cardinality(fetch[j][p].kept))
    BY <1>1, <1>3, RoomChanges
<1>7. Room(job[j], [fetch[j] EXCEPT ![p] = f], P) = old + Cardinality(kept)
    <2>1. job[j].counts[p] \in Nat
        BY RoomTypes
    <2> QED BY <1>2, <1>4, <1>5, <1>6, <2>1
<1>8. old + Cardinality(kept) <= Limit(P)
    <2>1. CASE Total(j) >= HardCap
        <3>1. Cardinality(kept) = 0
            BY <1>1, <1>5, <2>1 DEF Remaining
        <3> QED BY <1>1, <1>6, <3>1, HeldToLimit
    <2>2. CASE ~(Total(j) >= HardCap)
        <3>1. Total(j) + Cardinality(kept) <= HardCap
            BY <1>1, <1>5, <2>2, RoomIsNumber, HydAssumption DEF Remaining
        <3>2. SumOf(u, Platform) = SumOf(u, P \ {p})
            <4>1. ASSUME NEW q \in Platform \ (P \ {p})
                  PROVE  u[q] = 0
                <5>1. fetch[j][q].kept = {}
                    BY <1>4 DEF RoomKnown, RoomFits
                <5> QED BY <1>5, <5>1 DEF Uncounted
            <4>2. P \ {p} \in SUBSET Platform
                BY RoomTypes
            <4> HIDE DEF u, P
            <4> QED BY <4>1, <4>2, SumOfPart
        <3>3. SumOf(u, P \ {p}) <= Cardinality(P \ {p}) * PageSize
            <4>1. IsFiniteSet(P \ {p})
                BY RoomTypes, FS_Subset
            <4>2. \A q \in P \ {p} : u[q] \in 0..PageSize
                BY RoomTypes, HydAssumption DEF RoomKnown, RoomFits, Uncounted
            <4> HIDE DEF u, P
            <4> QED BY <4>1, <4>2, SumAtMost, HydAssumption
        <3>4. Cardinality(P \ {p}) = Cardinality(P) - 1
            BY <1>4, RoomTypes, FS_RemoveElement
        <3>5. old = Total(j) + SumOf(u, Platform)
            BY RoomIsNumber DEF Room
        <3>6. Limit(P) = HardCap + (Cardinality(P) - 1) * PageSize
            BY DEF Limit
        <3>7. SumOf(u, Platform) \in Nat /\ Total(j) \in Nat
            BY RoomIsNumber
        <3>8. PICK m \in Nat : m = (Cardinality(P) - 1) * PageSize
            BY LimitFits
        <3>9. SumOf(u, Platform) <= m
            BY <3>2, <3>3, <3>4, <3>8
        <3>10. old + Cardinality(kept) <= HardCap + m
            BY <1>5, <3>1, <3>5, <3>7, <3>9, HydAssumption
        <3> QED BY <3>6, <3>8, <3>10
    <2> QED BY <2>1, <2>2
<1>9. /\ f.kept # {} => f.phase = "noting"
      /\ Cardinality(f.kept) <= PageSize
    BY <1>1, <1>2
<1>10. Room(job[j], [fetch[j] EXCEPT ![p] = f], P) <= Limit(P)
    BY <1>7, <1>8
<1>11. job' = [job EXCEPT ![j] = job[j]]
    BY <1>1 DEF HydTypes
<1> HIDE DEF old
<1> QED BY <1>1, <1>2, <1>3, <1>9, <1>10, <1>11, FetchRoom

\* A request that failed brings nothing.
LEMMA FailRoom ==
    ASSUME HydTypes, RoomKnown, NEW j \in Job, NEW p \in Platform, NEW more \in BOOLEAN,
           ProviderFails(j, p, more), HydTypes'
    PROVE  RoomStep(j)
<1> DEFINE f == fetch'[j][p]
           old == Room(job[j], fetch[j], Platforms[j])
<1>1. /\ job[j].phase = "fetching" /\ fetch[j][p].phase = "waiting"
      /\ UNCHANGED job
    BY Zenon DEF ProviderFails, Live
<1>2. /\ fetch' = [fetch EXCEPT ![j][p] = f]
      /\ f.phase = "noting" /\ f.kept = {}
    <2> DEFINE g == [fetch[j][p] EXCEPT !.phase = "noting", !.kept = {}, !.ok = FALSE,
                                        !.more = more]
    <2>1. fetch' = [fetch EXCEPT ![j][p] = g]
        BY Zenon DEF ProviderFails
    <2>2. g.phase = "noting" /\ g.kept = {}
        BY DEF HydTypes, FetchRow
    <2> HIDE DEF g
    <2>3. f = g
        BY <2>1 DEF HydTypes
    <2> QED BY <2>1, <2>2, <2>3
<1>3. f \in FetchRow /\ job[j] \in JobRow
    BY DEF HydTypes
<1>4. fetch[j][p].kept = {}
    BY <1>1 DEF RoomKnown, RoomFits
<1>5. Cardinality({}) = 0 /\ job[j].counts[p] \in Nat
    BY RoomTypes, FS_EmptySet
<1> HIDE DEF f
<1>6. /\ old \in Nat
      /\ Room(job[j], [fetch[j] EXCEPT ![p] = f], Platforms[j])
            = old + (job[j].counts[p] - job[j].counts[p])
                + (Cardinality(f.kept) - Cardinality(fetch[j][p].kept))
    BY <1>1, <1>3, RoomChanges
<1>7. Room(job[j], [fetch[j] EXCEPT ![p] = f], Platforms[j]) = old
    BY <1>2, <1>4, <1>5, <1>6
<1>8. old <= Limit(Platforms[j])
    BY <1>1, HeldToLimit
<1>9. /\ f.kept # {} => f.phase = "noting"
      /\ Cardinality(f.kept) <= PageSize
    BY <1>2, <1>5, HydAssumption
<1>10. Room(job[j], [fetch[j] EXCEPT ![p] = f], Platforms[j]) <= Limit(Platforms[j])
    BY <1>7, <1>8
<1>11. job' = [job EXCEPT ![j] = job[j]]
    BY <1>1 DEF HydTypes
<1> HIDE DEF old
<1> QED BY <1>1, <1>2, <1>3, <1>9, <1>10, <1>11, FetchRoom

\* A page that is noted adds no more to the counts than was stored of it.
LEMMA NoteRoom ==
    ASSUME HydTypes, RoomKnown, NEW j \in Job, NEW p \in Platform, NotePage(j, p), HydTypes'
    PROVE  RoomStep(j)
<1> DEFINE page == fetch[j][p]
           b == Observed(job[j], p, page)
           f == fetch'[j][p]
           old == Room(job[j], fetch[j], Platforms[j])
<1>1. /\ job[j].phase = "fetching" /\ page.phase = "noting"
      /\ job' = [job EXCEPT ![j] = b]
    BY Zenon DEF NotePage, Live
<1>2. page \in FetchRow /\ job[j] \in JobRow /\ f \in FetchRow
    BY DEF HydTypes
<1>3. fetch' = [fetch EXCEPT ![j][p] = f] /\ f.kept = {}
    <2> DEFINE low == IF Cardinality(NewOffers(page)) >= LowYield THEN 0
                      ELSE IF page.low < 2 THEN page.low + 1 ELSE 2
               next == [NotFetching EXCEPT !.phase = "asking", !.page = page.page + 1,
                            !.varied = page.varied, !.low = low, !.seen = page.seen \cup page.kept]
               g == IF page.ok /\ page.more THEN next ELSE Fetched
    <2>1. fetch' = [fetch EXCEPT ![j][p] = g]
        BY Zenon DEF NotePage
    <2> HIDE DEF low
    <2>2. g.kept = {}
        BY DEF NotFetching, Fetched
    <2> HIDE DEF g
    <2>3. f = g
        BY <2>1 DEF HydTypes
    <2> QED BY <2>1, <2>2, <2>3
<1>4. /\ b \in JobRow /\ b.phase = "fetching"
      /\ b.counts[p] = job[j].counts[p] + IF page.ok THEN Cardinality(NewOffers(page)) ELSE 0
      /\ \A q \in Platform \ {p} : b.counts[q] = job[j].counts[q]
    BY <1>1, <1>2, ObservedFits
<1>5. /\ Cardinality(NewOffers(page)) \in Nat /\ Cardinality(page.kept) \in Nat
      /\ Cardinality(NewOffers(page)) <= Cardinality(page.kept)
    <2>1. IsFiniteSet(page.kept) /\ NewOffers(page) \subseteq page.kept
        BY <1>2, HydAssumption, FS_Subset DEF FetchRow, NewOffers
    <2> QED BY <2>1, FS_Subset, FS_CardinalityType
<1>6. Cardinality({}) = 0 /\ job[j].counts[p] \in Nat
    BY RoomTypes, FS_EmptySet
<1>7. old <= Limit(Platforms[j]) /\ Limit(Platforms[j]) \in Nat
    BY <1>1, HeldToLimit, LimitFits
<1> HIDE DEF f, b
<1>8. /\ old \in Nat
      /\ Room(b, [fetch[j] EXCEPT ![p] = f], Platforms[j])
            = old + (b.counts[p] - job[j].counts[p])
                + (Cardinality(f.kept) - Cardinality(page.kept))
    BY <1>1, <1>2, <1>4, RoomChanges
<1>9. Room(b, [fetch[j] EXCEPT ![p] = f], Platforms[j]) <= Limit(Platforms[j])
    <2>1. PICK gain \in Nat : gain = b.counts[p] - job[j].counts[p]
                              /\ gain <= Cardinality(page.kept)
        BY <1>4, <1>5, <1>6
    <2> HIDE DEF old, page
    <2> QED BY <1>3, <1>5, <1>6, <1>7, <1>8, <2>1
<1>10. /\ f.kept # {} => f.phase = "noting"
       /\ Cardinality(f.kept) <= PageSize
    BY <1>3, <1>6, HydAssumption
<1> HIDE DEF old
<1> QED BY <1>1, <1>2, <1>3, <1>4, <1>9, <1>10, FetchRoom

\* The end of a job's task, in all its forms.
LEMMA EndsRoom ==
    ASSUME HydTypes, JobsFit, RoomKnown, NEW j \in Job,
           \/ FetchesDone(j) \/ Settle(j) \/ CancelArrives(j) \/ Raises(j)
           \/ \E p \in Platform : PersistFails(j, p)
    PROVE  RoomStep(j)
<1>1. CASE Settle(j)
    <2>1. job[j].phase = "settling" /\ UNCHANGED fetch
        BY <1>1, Zenon DEF Settle, Live
    <2>2. CASE Len(job[j].todo) = 1
        <3>1. Ended(j, job[j].outcome)
            BY <1>1, <2>2, Zenon DEF Settle
        <3> QED BY <2>1, <3>1, EndedRoom
    <2>3. CASE Len(job[j].todo) # 1
        <3> DEFINE todo == Tail(job[j].todo)
                   b == [job[j] EXCEPT !.todo = todo]
        <3>1. job' = [job EXCEPT ![j] = b]
            <4>1. job' = [job EXCEPT ![j].todo = Tail(@)]
                BY <1>1, <2>3, Zenon DEF Settle
            <4> QED BY <4>1 DEF HydTypes
        <3> HIDE DEF todo
        <3>2. b.counts = job[j].counts /\ b.pages = job[j].pages
            BY DEF HydTypes, JobRow
        <3> HIDE DEF b
        <3> QED BY <2>1, <3>1, <3>2, SameRoomStep
    <2> QED BY <2>2, <2>3
<1>2. ASSUME NEW outcome, NEW todo, Settling(j, outcome, todo)
      PROVE  RoomStep(j)
    BY <1>2, SettlingRoom
<1>3. ASSUME NEW answer, Ended(j, answer), Forget(j)
      PROVE  RoomStep(j)
    BY <1>3, EndedRoom
<1>4. CASE FetchesDone(j)
    BY <1>2, <1>4, Zenon DEF FetchesDone
<1>5. CASE CancelArrives(j)
    <2>1. \/ Settling(j, "cancelled", <<"record", "release">>)
          \/ Settling(j, "cancelled", <<"release">>)
          \/ Ended(j, "cancelled") /\ Forget(j)
        BY <1>5 DEF CancelArrives
    <2> QED BY <1>2, <1>3, <2>1
<1>6. CASE Raises(j)
    BY <1>3, <1>6, Zenon DEF Raises
<1>7. ASSUME NEW p \in Platform, PersistFails(j, p)
      PROVE  RoomStep(j)
    BY <1>2, <1>7, Zenon DEF PersistFails
<1> QED BY <1>1, <1>4, <1>5, <1>6, <1>7

\* The clock tells nothing about counts.
LEMMA TickRoom ==
    ASSUME HydTypes, RoomKnown, NEW j \in Job, Tick(j)
    PROVE  RoomStep(j)
<1> DEFINE clock == IF job[j].clock = "early" THEN "soft" ELSE "hard"
           b == [job[j] EXCEPT !.clock = clock]
<1>1. job' = [job EXCEPT ![j] = b] /\ UNCHANGED fetch /\ job[j].phase = "fetching"
    BY DEF Tick, Live, HydTypes
<1> HIDE DEF clock
<1>2. b.counts = job[j].counts /\ b.pages = job[j].pages
    BY DEF HydTypes, JobRow
<1>3. b.phase = "fetching"
    BY <1>1 DEF HydTypes, JobRow
<1> HIDE DEF b
<1> QED BY <1>1, <1>2, <1>3, SameRoomStep

\* A caller that joins adds its key; one that starts a job starts a quiet one.
LEMMA EnsureRoom ==
    ASSUME HydTypes, RoomKnown, NEW c \in Caller, NEW j \in Job, NEW r \in RunKey,
           Ensure(c, j, r)
    PROVE  RoomStep(j)
<1>1. CASE Over(j)
    <2> DEFINE b == [NoJob EXCEPT !.phase = "inspecting", !.owner = c, !.subs = {r}]
    <2>1. /\ job' = [job EXCEPT ![j] = b]
          /\ fetch' = [fetch EXCEPT ![j] = [p \in Platform |-> NotFetching]]
        BY <1>1, Zenon DEF Ensure
    <2>2. b.pages = {}
        BY DEF NoJob
    <2> HIDE DEF b
    <2>3. /\ job'[j] = b /\ fetch'[j] = [p \in Platform |-> NotFetching]
          /\ \A i \in Job : i # j => job'[i] = job[i] /\ fetch'[i] = fetch[i]
        BY <2>1 DEF HydTypes
    <2> QED BY <2>2, <2>3, ForgottenIsQuiet DEF RoomStep
<1>2. CASE ~Over(j)
    <2> DEFINE subs == job[j].subs \cup {r}
               b == [job[j] EXCEPT !.subs = subs]
    <2>1. job' = [job EXCEPT ![j] = [job[j] EXCEPT !.subs = @ \cup {r}]] /\ UNCHANGED fetch
        BY <1>2, Zenon DEF Ensure
    <2>2. job' = [job EXCEPT ![j] = b]
        BY <2>1 DEF HydTypes
    <2> HIDE DEF subs
    <2>3. b.counts = job[j].counts /\ b.pages = job[j].pages /\ b.phase = job[j].phase
        BY DEF HydTypes, JobRow
    <2> HIDE DEF b
    <2> QED BY <2>1, <2>2, <2>3, SameRoomStep
<1> QED BY <1>1, <1>2

\* A caller that leaves takes its key, and the record when the job is over.
LEMMA LeaveRoom ==
    ASSUME HydTypes, JobsFit, RoomKnown, NEW c \in Caller, Leave(c), caller[c].job \in Job
    PROVE  RoomStep(caller[c].job)
<1> DEFINE j == caller[c].job
           subs == job[j].subs \ {caller[c].run}
           cancel == job[j].cancel \/ Abandoned(j, subs)
           b == [job[j] EXCEPT !.subs = subs, !.cancel = cancel]
<1>1. UNCHANGED fetch
    BY Zenon DEF Leave
<1>2. CASE job[j].owner # caller[c].of
    <2>1. job' = job
        BY <1>2, Zenon DEF Leave
    <2>2. job' = [job EXCEPT ![j] = job[j]]
        BY <2>1 DEF HydTypes
    <2> QED BY <1>1, <2>2, SameRoomStep
<1>3. CASE job[j].owner = caller[c].of /\ Over(j) /\ subs = {}
    <2>1. job' = [job EXCEPT ![j] = NoJob]
        BY <1>3, Zenon DEF Leave
    <2>2. Quiet(job[j], fetch[j], Platforms[j])
        BY <1>3, QuietWhenIdle DEF Over
    <2>3. Quiet(NoJob, fetch[j], Platforms[j])
        BY <2>2 DEF Quiet, NoJob
    <2>4. /\ job'[j] = NoJob /\ fetch'[j] = fetch[j]
          /\ \A i \in Job : i # j => job'[i] = job[i] /\ fetch'[i] = fetch[i]
        BY <1>1, <2>1 DEF HydTypes
    <2> QED BY <2>3, <2>4, QuietFits DEF RoomStep
<1>4. CASE job[j].owner = caller[c].of /\ ~(Over(j) /\ subs = {})
    <2>1. job' = [job EXCEPT ![j] = [job[j] EXCEPT !.subs = subs,
                                                   !.cancel = @ \/ Abandoned(j, subs)]]
        BY <1>4, Zenon DEF Leave
    <2>2. job' = [job EXCEPT ![j] = b]
        BY <2>1 DEF HydTypes
    <2> HIDE DEF subs, cancel
    <2>3. b.counts = job[j].counts /\ b.pages = job[j].pages /\ b.phase = job[j].phase
        BY DEF HydTypes, JobRow
    <2> HIDE DEF b
    <2> QED BY <1>1, <2>2, <2>3, SameRoomStep
<1> QED BY <1>2, <1>3, <1>4

\* A platform's fetch keeps to the room of its job.
LEMMA FetchStepsRoom ==
    ASSUME HydTypes, RoomKnown, HydTypes', NEW j \in Job, NEW p \in Platform, Fetch(j, p)
    PROVE  RoomStep(j)
<1>1. ASSUME NEW kept \in SUBSET Offer, NEW more \in BOOLEAN, PersistPage(j, p, kept, more)
      PROVE  RoomStep(j)
    BY <1>1, PersistRoom
<1>2. ASSUME NEW more \in BOOLEAN, ProviderFails(j, p, more)
      PROVE  RoomStep(j)
    BY <1>2, FailRoom
<1> QED BY <1>1, <1>2, StopsRoom, ReserveRoom, NoteRoom DEF Fetch

\* Every step of the hydration keeps every job to its room.
LEMMA RoomKeeps ==
    ASSUME HydTypes, JobsFit, RoomKnown, CallersKnown, HydNext, HydTypes'
    PROVE  RoomKnown'
<1>1. ASSUME NEW j \in Job, RoomStep(j)
      PROVE  RoomKnown'
    BY <1>1, RoomOfOne DEF RoomStep
<1>2. ASSUME NEW c \in Caller, Leave(c)
      PROVE  RoomKnown'
    <2>1. caller[c].job \in Job
        BY <1>2 DEF Leave, CallersKnown, Waiting
    <2> QED BY <1>1, <1>2, <2>1, LeaveRoom
<1>3. ASSUME NEW j \in Job, RunJob(j)
      PROVE  RoomStep(j)
    BY <1>3, InspectRoom, CreateRoom, LeaseRoom, FetchStepsRoom, EndsRoom DEF RunJob
<1>4. ASSUME NEW j \in Job, Tick(j) \/ Raises(j) \/ \E p \in Platform : PersistFails(j, p)
      PROVE  RoomStep(j)
    BY <1>4, TickRoom, EndsRoom
<1>5. ASSUME NEW p \in Platform, LeaseExpires(p) \/ MembersAge(p)
      PROVE  RoomKnown'
    <2>1. UNCHANGED <<job, fetch>>
        BY <1>5 DEF LeaseExpires, MembersAge
    <2> QED BY <2>1 DEF RoomKnown
<1>6. CASE ServerRestarts
    <2>1. ASSUME NEW j \in Job
          PROVE  RoomFits(job'[j], fetch'[j], Platforms[j])
        <3>1. job'[j] = NoJob /\ fetch'[j] = [p \in Platform |-> NotFetching]
            BY <1>6 DEF ServerRestarts
        <3>2. NoJob.pages = {}
            BY DEF NoJob
        <3> QED BY <3>1, <3>2, ForgottenIsQuiet
    <2> QED BY <2>1 DEF RoomKnown
<1>7. ASSUME NEW c \in Caller, NEW j \in Job, NEW r \in RunKey, Ensure(c, j, r)
      PROVE  RoomKnown'
    BY <1>1, <1>7, EnsureRoom
<1> QED BY <1>1, <1>2, <1>3, <1>4, <1>5, <1>6, <1>7 DEF HydNext, Returns, CallerCancelled

\* Without jobs there is nothing to hold to a limit.
LEMMA RoomStarts == HydInit => RoomKnown
<1> SUFFICES ASSUME HydInit, NEW j \in Job PROVE RoomFits(job[j], fetch[j], Platforms[j])
    BY DEF RoomKnown
<1>1. job[j] = NoJob /\ fetch[j] = [p \in Platform |-> NotFetching] /\ NoJob.pages = {}
    BY DEF HydInit, NoJob
<1> QED BY <1>1, ForgottenIsQuiet

\* The hard cap is exceeded by one page of every other platform of the job at most: a request
\* leaves only below the cap, a page is cut to what is left under the policy lock, and what is
\* stored and not yet noted is no more than one page of a platform (hydration.py, fetch).
THEOREM OvershootIsBounded == HydSpec => []OvershootBounded
<1>1. HydInvariant /\ RoomKnown /\ [HydNext]_hydVars => RoomKnown'
    <2> SUFFICES ASSUME HydInvariant, RoomKnown, [HydNext]_hydVars PROVE RoomKnown'
        OBVIOUS
    <2>1. CASE HydNext
        <3>1. HydInvariant'
            BY HydStep
        <3> QED BY <2>1, <3>1, RoomKeeps DEF HydInvariant
    <2>2. CASE UNCHANGED hydVars
        BY <2>2 DEF hydVars, RoomKnown
    <2> QED BY <2>1, <2>2
<1>2. HydInvariant /\ RoomKnown => OvershootBounded
    <2> SUFFICES ASSUME HydInvariant, RoomKnown, NEW j \in Job, job[j].pages # {}
                 PROVE  Total(j) + Pending(j)
                          <= HardCap + (Cardinality(Platforms[j]) - 1) * PageSize
        BY DEF OvershootBounded
    <2>1. Room(job[j], fetch[j], Platforms[j]) <= Limit(Platforms[j])
        BY DEF RoomKnown, RoomFits
    <2>2. HydTypes
        BY DEF HydInvariant
    <2> QED BY <2>1, <2>2, RoomIsNumber DEF Room, Limit
<1> QED BY <1>1, <1>2, RoomStarts, HydInvariance, PTL DEF HydSpec
=============================================================================
