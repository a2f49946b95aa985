---------------------------- MODULE PriceRefresh ----------------------------
(***************************************************************************)
(* The wishlist (WishlistService in app/database/services.py) and the      *)
(* worker that checks the prices of its items every day                    *)
(* (app/products/price_worker.py, schedule.py).                            *)
(*                                                                         *)
(* All items are of one offer, each of another user: what items share is   *)
(* the observations of their offer.  Times are Beijing days; next_check_at *)
(* is the day of the next check, and a claim's ten minutes are a flag.     *)
(***************************************************************************)
EXTENDS Naturals, Sequences, FiniteSets, SequencesExt

CONSTANTS
    Item,          \* wishlist_item ids, one per user
    PriceBatch,    \* items one run claims
    LastDay,       \* bound: days
    MaxCrashes     \* bound: crashes of the worker

ASSUME PriceAssumption ==
    /\ IsFiniteSet(Item) /\ PriceBatch \in Nat \ {0}
    /\ LastDay \in Nat \ {0} /\ MaxCrashes \in Nat

VARIABLES
    wish,          \* wishlist_items
    today,
    fetched,       \* observations of the offer that the worker stored, by day
    hydrated,      \* days on which catalog hydration stored one
    refresher,     \* run_once: the run's start day, the claimed items, the step of the first
    openRuns,      \* price_refresh_runs left with status "running"
    priceCrashes

priceVars == <<wish, today, fetched, hydrated, refresher, openRuns, priceCrashes>>

Day     == 1..LastDay
Waiting == [phase |-> "idle", day |-> 1, rows |-> <<>>]

PriceTypeOK ==
    /\ wish \in [Item -> [status : {"absent", "active", "inactive"},
                          next : 0..(LastDay + 7), leased : BOOLEAN, failures : 0..3]]
    /\ today \in Day /\ fetched \in [Day -> 0..2] /\ hydrated \subseteq Day
    /\ refresher \in [phase : {"idle", "checking", "fetching"}, day : Day, rows : Seq(Item)]
    /\ openRuns \in 0..(MaxCrashes + 1)
    /\ priceCrashes \in 0..MaxCrashes

PriceInit ==
    /\ wish = [i \in Item |-> [status |-> "absent", next |-> 0, leased |-> FALSE,
                               failures |-> 0]]
    /\ today = 1
    /\ fetched = [d \in Day |-> 0]
    /\ hydrated = {}
    /\ refresher = Waiting
    /\ openRuns = 0
    /\ priceCrashes = MaxCrashes

-----------------------------------------------------------------------------
(***************************************************************************)
(* The wishlist.                                                           *)
(***************************************************************************)
\* A new item, or one that becomes active again; its first check is tomorrow's.  A request
\* whose key was used before is answered from the stored row and writes nothing.
AddWish(i) ==
    /\ wish' = [wish EXCEPT ![i] = [@ EXCEPT !.status = "active", !.next = today + 1]]
    /\ UNCHANGED <<today, fetched, hydrated, refresher, openRuns, priceCrashes>>

\* update_item and remove write the status (removed or purchased is inactive here) and leave
\* the schedule alone.
UpdateItem(i, status) ==
    /\ wish[i].status \notin {"absent", status}
    /\ wish' = [wish EXCEPT ![i].status = status]
    /\ UNCHANGED <<today, fetched, hydrated, refresher, openRuns, priceCrashes>>

-----------------------------------------------------------------------------
(***************************************************************************)
(* The rest of the world: midnight, catalog hydration, the claim's end.    *)
(***************************************************************************)
\* At midnight the observations that no run can look at any more are forgotten.
NextDay ==
    /\ today < LastDay
    /\ today' = today + 1
    /\ hydrated' = {d \in hydrated : refresher.phase # "idle" /\ d >= refresher.day}
    /\ fetched' = [d \in Day |-> IF refresher.phase # "idle" /\ d >= refresher.day
                                 THEN fetched[d] ELSE 0]
    /\ UNCHANGED <<wish, refresher, openRuns, priceCrashes>>

Hydrate ==
    /\ today \notin hydrated
    /\ hydrated' = hydrated \cup {today}
    /\ UNCHANGED <<wish, today, fetched, refresher, openRuns, priceCrashes>>

LeaseEnds(i) ==
    /\ wish[i].leased
    /\ wish' = [wish EXCEPT ![i].leased = FALSE]
    /\ UNCHANGED <<today, fetched, hydrated, refresher, openRuns, priceCrashes>>

-----------------------------------------------------------------------------
(***************************************************************************)
(* run_once.                                                               *)
(***************************************************************************)
Due(i) == wish[i].status = "active" /\ ~wish[i].leased /\ wish[i].next <= today

Claimed(i) == [wish[i] EXCEPT !.leased = TRUE, !.next = today]

\* The earliest items come first; items of the same day in any order.
StartRun ==
    /\ refresher.phase = "idle"
    /\ \E rows \in SetToAllKPermutations({i \in Item : Due(i)}) :
        /\ Len(rows) \in 1..PriceBatch
        /\ \A i \in Item, n \in DOMAIN rows :
               Due(i) /\ i \notin {rows[j] : j \in 1..n} => wish[rows[n]].next <= wish[i].next
        /\ Len(rows) = PriceBatch \/ Range(rows) = {i \in Item : Due(i)}
        /\ wish' = [i \in Item |-> IF i \in Range(rows) THEN Claimed(i) ELSE wish[i]]
        /\ refresher' = [phase |-> "checking", day |-> today, rows |-> rows]
    /\ openRuns' = openRuns + 1
    /\ UNCHANGED <<today, fetched, hydrated, priceCrashes>>

\* The next item of the batch; after the last one the run's row is closed.
Advance ==
    /\ refresher' = IF Len(refresher.rows) = 1 THEN Waiting
                    ELSE [refresher EXCEPT !.phase = "checking", !.rows = Tail(@)]
    /\ openRuns' = IF Len(refresher.rows) = 1 THEN openRuns - 1 ELSE openRuns

\* next_daily_refresh: the slot of the next day; a success clears the failures.
Checked(i, day) == [wish EXCEPT ![i] = [@ EXCEPT !.next = day + 1, !.leased = FALSE,
                                                 !.failures = 0]]

\* Faulty variant: observations of the day are not looked for.
ReusableNever == FALSE

\* An observation since the start of the day on which the run began.
Reusable == \E d \in Day : d >= refresher.day /\ (fetched[d] > 0 \/ d \in hydrated)

ReuseTodayObservation ==
    /\ refresher.phase = "checking" /\ Reusable
    /\ wish' = Checked(Head(refresher.rows), refresher.day)
    /\ Advance
    /\ UNCHANGED <<today, fetched, hydrated, priceCrashes>>

AskProvider ==
    /\ refresher.phase = "checking" /\ ~Reusable
    /\ refresher' = [refresher EXCEPT !.phase = "fetching"]
    /\ UNCHANGED <<wish, today, fetched, hydrated, openRuns, priceCrashes>>

\* The snapshot, the observation, the offer and the item are one transaction.
StorePrice ==
    /\ refresher.phase = "fetching"
    /\ fetched' = [fetched EXCEPT ![today] = IF @ < 2 THEN @ + 1 ELSE @]
    /\ wish' = Checked(Head(refresher.rows), today)
    /\ Advance
    /\ UNCHANGED <<today, hydrated, priceCrashes>>

\* min(168, 24 * 2 ** min(failure_count, 3)) hours, counted after the failure.
Backoff(failures) == IF failures >= 3 THEN 7 ELSE 2 ^ failures

\* No provider for the platform, an error of the call, or a negative price.
PriceFails ==
    LET i == Head(refresher.rows)
        n == IF wish[i].failures < 3 THEN wish[i].failures + 1 ELSE 3
    IN  /\ refresher.phase = "fetching"
        /\ wish' = [wish EXCEPT ![i] = [@ EXCEPT !.failures = n, !.leased = FALSE,
                                                 !.next = today + Backoff(n)]]
        /\ Advance
        /\ UNCHANGED <<today, fetched, hydrated, priceCrashes>>

\* A database error outside the item's try ends the process too.
RefresherCrashes ==
    /\ priceCrashes > 0 /\ refresher.phase # "idle"
    /\ priceCrashes' = priceCrashes - 1
    /\ refresher' = Waiting
    /\ UNCHANGED <<wish, today, fetched, hydrated, openRuns>>

Refresh == StartRun \/ ReuseTodayObservation \/ AskProvider \/ StorePrice \/ PriceFails

PriceNext ==
    \/ \E i \in Item : AddWish(i)
    \/ \E i \in Item, s \in {"active", "inactive"} : UpdateItem(i, s)
    \/ NextDay \/ Hydrate \/ (\E i \in Item : LeaseEnds(i))
    \/ Refresh \/ RefresherCrashes

\* The worker polls for ever and time passes.
PriceFairness ==
    /\ WF_priceVars(Refresh)
    /\ \A i \in Item : WF_priceVars(LeaseEnds(i))

PriceSpec == PriceInit /\ [][PriceNext]_priceVars /\ PriceFairness

-----------------------------------------------------------------------------
\* The price of an offer is bought at most once a day, however many users watch it, also
\* by a run that spans midnight or dies half-way ("prefer the observation of the day",
\* docs/project-status.md:963).
BoughtOncePerDay == \A d \in Day : fetched[d] <= 1

\* Every active item that is due is checked, or its failure is recorded, although the
\* worker may die with the item claimed.
DueItemsChecked ==
    \A i \in Item : Due(i) ~> (wish[i].status # "active" \/ wish[i].next > today)
=============================================================================
