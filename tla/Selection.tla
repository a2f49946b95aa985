------------------------------ MODULE Selection -------------------------------
(***************************************************************************)
(* From the offers of the search to the picks of the answer:               *)
(* tools/item_picker.py with products/grouping.py and                      *)
(* recall/transient_hybrid.py.                                             *)
(*                                                                         *)
(* The offers come as the model wrote them down, and the model orders the  *)
(* groups: both may be anything.  Text scores decide the order of the      *)
(* shortlist only, so it is any order; titles, reasons, flags and the      *)
(* statistics of the answer are left out.                                  *)
(***************************************************************************)
EXTENDS Integers, Sequences, FiniteSets, FiniteSetsExt, SequencesExt

CONSTANTS
    ListEntry,        \* the entries an item list may hold: offers, and malformed ones
    Constraint,       \* PickerConstraints
    Identity,         \* intent.product_identity
    MaxEntries,       \* bound: length of the item list
    GroupLimit,       \* settings.candidate_faiss_group_limit
    PickLimit         \* bounded_limit, at most 3

VARIABLES
    request,          \* the arguments of the call
    stage,            \* how far it is
    groups,           \* the groups after the filters
    short,            \* the shortlist
    picks,            \* the answer: groups, the representative of each first
    status

selVars == <<request, stage, groups, short, picks, status>>

PlatformOrder == <<"taobao", "jingdong", "douyin">>

ASSUME SelAssumption ==
    /\ \A e \in ListEntry : e.valid =>
           /\ e.price \in Int /\ e.rank \in Int /\ e.rating \in Int
           /\ e.platform \in Range(PlatformOrder)
    /\ GroupLimit \in Nat /\ PickLimit \in Nat \ {0}

Mode      == {"none", "category_explore", "exact_product", "goal_explore"}
NoRequest == [items |-> <<>>]

SelTypeOK ==
    /\ stage \in {"idle", "filtering", "routing", "selecting", "ranking", "answered"}
    /\ stage # "idle" => /\ Range(request.items) \subseteq ListEntry
                         /\ request.constraint \in Constraint /\ request.mode \in Mode
    /\ \A gs \in {groups, short, picks} : \A i \in DOMAIN gs :
           gs[i].offers # <<>> /\ Range(gs[i].offers) \subseteq ListEntry
    /\ status \in {"none", "ok", "degraded", "insufficient_data"}

SelInit ==
    /\ request = NoRequest /\ stage = "idle" /\ groups = <<>> /\ short = <<>>
    /\ picks = <<>> /\ status = "none"

-----------------------------------------------------------------------------
(***************************************************************************)
(* Orders.  SelectSeq and SortSeq have no definition a proof could use, so *)
(* filters and sorts are written with the positions they keep.             *)
(***************************************************************************)
\* Tuples of numbers of one length, compared from the left.
Before(s, t) == \E i \in DOMAIN s : s[i] < t[i] /\ \A j \in 1..(i - 1) : s[j] = t[j]

\* A set in the order of its keys, which differ: the k-th has k - 1 others before it.
InOrder(S, key) ==
    [k \in 1..Cardinality(S) |->
        CHOOSE x \in S : Cardinality({y \in S : Before(key[y], key[x])}) = k - 1]

Along(s, order) == [k \in DOMAIN order |-> s[order[k]]]

\* The part of a sequence at these positions.
At(s, I) == Along(s, InOrder(I, [i \in I |-> <<i>>]))

-----------------------------------------------------------------------------
(***************************************************************************)
(* Filters.                                                                *)
(***************************************************************************)
\* _parse_picker_items drops what is malformed.
Parsed(items) == At(items, {i \in DOMAIN items : items[i].valid})

\* A required attribute that none of several items carries is no longer required.
Relaxed(items) == Len(items) >= 2 /\ \A e \in Range(items) : e.attribute = "absent"

\* _hard_failure is None.
Passes(e, con, relaxed, linked) ==
    /\ e.price > 0
    /\ linked => e.linked
    /\ e.item \notin con.blockedItems /\ e.platform \notin con.blockedPlatforms
    /\ con.max > 0 => e.price <= con.max
    /\ con.min > 0 => e.price >= con.min
    /\ con.required /\ ~relaxed => e.attribute = "match"
    /\ con.excluded => e.attribute = "match"

\* The first offer under each id; the platform is not part of it.
OfferId(e) == IF e.offer # "none" THEN e.offer ELSE e.item

Admitted(items, con, relaxed, linked) ==
    LET passing == At(items, {i \in DOMAIN items : Passes(items[i], con, relaxed, linked)})
    IN  At(passing, {i \in DOMAIN passing :
                        \A j \in 1..(i - 1) : OfferId(passing[j]) # OfferId(passing[i])})

-----------------------------------------------------------------------------
(***************************************************************************)
(* group_candidates.                                                       *)
(***************************************************************************)
\* _identity: a verified GTIN, else brand, model and variants together, else the product id
\* within its platform.
ProductIdentity(e) ==
    IF e.gtin # "none" /\ e.verified THEN <<"gtin", e.gtin>>
    ELSE IF e.model # "none" /\ e.variant # "none" THEN <<"model", e.model, e.variant>>
    ELSE <<"singleton", e.platform, IF e.product # "none" THEN e.product ELSE e.item>>

Unranked == 1000000000
Rank(e)  == IF e.rank = 0 THEN Unranked ELSE e.rank

BestRank(g) == Min({Rank(e) : e \in Range(g.offers)})

\* The offers at these positions, the cheapest first.
ByPrice(offers, at) ==
    Along(offers, InOrder(at, [i \in at |-> <<offers[i].price, Rank(offers[i]), i>>]))

\* The offers of one identity.
GroupOf(id, offers) ==
    LET at == {i \in DOMAIN offers : ProductIdentity(offers[i]) = id}
    IN  [id |-> id, offers |-> ByPrice(offers, at), order |-> Min(at)]

GroupCandidates(offers) ==
    LET group(i) == GroupOf(ProductIdentity(offers[i]), offers)
        first == {i \in DOMAIN offers : group(i).order = i}
        order == InOrder(first, [i \in first |-> <<BestRank(group(i)), i>>])
    IN  [k \in DOMAIN order |-> group(order[k])]

\* _requested_identity_group: one group of every offer that is the product asked for.
Requested(e, identity) ==
    /\ identity.source # "none" => identity.source \in {e.item, e.product, e.offer}
    /\ identity.words \subseteq e.words

ExactGroup(gs, identity) ==
    LET offers == FlattenSeq([i \in DOMAIN gs |-> gs[i].offers])
        at == {i \in DOMAIN offers : Requested(offers[i], identity)}
    IN  IF at = {} THEN <<>>
        ELSE <<[id |-> <<"exact">>, offers |-> ByPrice(offers, at),
                order |-> Min({gs[i].order : i \in DOMAIN gs})]>>

-----------------------------------------------------------------------------
(***************************************************************************)
(* Shortlist and ranking.                                                  *)
(***************************************************************************)
PlatformOf(g)    == g.offers[1].platform
Bucket(gs, p)    == At(gs, {i \in DOMAIN gs : PlatformOf(gs[i]) = p})
ActiveIn(gs)     == At(PlatformOrder, {k \in DOMAIN PlatformOrder :
                                          Bucket(gs, PlatformOrder[k]) # <<>>})
Prefix(gs, n)    == SubSeq(gs, 1, IF n < Len(gs) THEN n ELSE Len(gs))

\* The groups platform by platform, one of each in every round.
RoundRobin(gs, rounds) ==
    LET turn(r) == FlattenSeq([k \in DOMAIN PlatformOrder |->
                       LET b == Bucket(gs, PlatformOrder[k])
                       IN  IF r <= Len(b) THEN <<b[r]>> ELSE <<>>])
    IN  FlattenSeq([r \in 1..rounds |-> turn(r)])

\* cap_groups_balanced
CapBalanced(gs, limit) == Prefix(RoundRobin(gs, Len(gs)), limit)

\* Faulty variant: the global order alone.
BalancedNever(gs, limit) == Prefix(gs, limit)

\* _balanced: a floor for every platform, then the global order.
Balanced(gs, limit) ==
    LET share == limit \div (2 * Len(ActiveIn(gs)))
        floor == Prefix(RoundRobin(gs, IF share > 1 THEN share ELSE 1), limit)
    IN  Prefix(floor \o At(gs, {i \in DOMAIN gs : gs[i] \notin Range(floor)}), limit)

\* Ratings of 0..1, 0..5 and 0..100 on one scale.
RatingSignal(v) == IF v < 0 \/ v > 100 THEN -1 ELSE IF v <= 1 THEN 100 * v
                   ELSE IF v <= 5 THEN 20 * v ELSE v

\* _group_rank
GroupRank(g) == <<BestRank(g), -Max({RatingSignal(e.rating) : e \in Range(g.offers)}),
                  g.offers[1].price, g.order>>

Ranked(gs) ==
    Along(gs, InOrder(DOMAIN gs, [i \in DOMAIN gs |-> Append(GroupRank(gs[i]), i)]))

\* Faulty variant: unknown ids are dropped, repeated ones are not.
UsableWithRepeats(ids, gs) ==
    LET known == At(ids, {k \in DOMAIN ids : \E g \in Range(gs) : g.id = ids[k]})
    IN  [k \in DOMAIN known |-> CHOOSE g \in Range(gs) : g.id = known[k]]

\* _coerce_decision and _validate_decision: the known ids, each once.
Usable(ids, gs) ==
    LET known == At(ids, {k \in DOMAIN ids : /\ \E g \in Range(gs) : g.id = ids[k]
                                            /\ \A j \in 1..(k - 1) : ids[j] # ids[k]})
    IN  [k \in DOMAIN known |-> CHOOSE g \in Range(gs) : g.id = known[k]]

-----------------------------------------------------------------------------
(***************************************************************************)
(* The tool.                                                               *)
(***************************************************************************)
Ask(items, con, mode, identity) ==
    /\ stage = "idle"
    /\ request' = [items |-> items, constraint |-> con, mode |-> mode, identity |-> identity]
    /\ stage' = "filtering"
    /\ UNCHANGED <<groups, short, picks, status>>

Answer(gs, limit, st) ==
    /\ stage' = "answered"
    /\ picks' = Prefix(gs, limit)
    /\ status' = IF gs = <<>> THEN "insufficient_data" ELSE st

FilterAndGroup ==
    LET items == Parsed(request.items)
    IN  /\ stage = "filtering"
        /\ groups' = GroupCandidates(Admitted(items, request.constraint, Relaxed(items), TRUE))
        /\ stage' = "routing"
        /\ UNCHANGED <<request, short, picks, status>>

\* The compatibility picker: no link is required, no key relaxed, no model asked.
PickLocally ==
    /\ stage = "filtering"
    /\ groups' = CapBalanced(GroupCandidates(Admitted(Parsed(request.items),
                                                      request.constraint, FALSE, FALSE)),
                             GroupLimit)
    /\ Answer(Ranked(groups'), PickLimit, "ok")
    /\ UNCHANGED <<request, short>>

\* Nothing is left, or the goal has to be clarified first.
NothingToPick ==
    /\ stage = "routing"
    /\ groups = <<>> \/ request.mode = "goal_explore"
    /\ Answer(<<>>, 0, "ok")
    /\ UNCHANGED <<request, groups, short>>

PickExact ==
    /\ stage = "routing" /\ groups # <<>> /\ request.mode = "exact_product"
    /\ Answer(ExactGroup(groups, request.identity), 1, "ok")
    /\ UNCHANGED <<request, groups, short>>

\* select_faiss_groups, or select_bm25_groups when it fails: the scores give some order.
SelectByText ==
    /\ stage = "routing" /\ groups # <<>> /\ request.mode = "category_explore"
    /\ \E order \in SetToSeqs(Range(groups)) : short' = Balanced(order, GroupLimit)
    /\ stage' = "ranking"
    /\ UNCHANGED <<request, groups, picks, status>>

\* Without an intent the groups are only capped.
SelectByPlatform ==
    /\ stage = "routing" /\ groups # <<>> /\ request.mode = "none"
    /\ short' = IF Len(groups) > GroupLimit THEN CapBalanced(groups, GroupLimit) ELSE groups
    /\ stage' = "ranking"
    /\ UNCHANGED <<request, groups, picks, status>>

\* The model's order, strict or from the lenient retry; what it left out comes behind.
Rerank(ids) ==
    LET ordered == Usable(ids, short)
        others == Ranked(short)
        rest == At(others, {i \in DOMAIN others : others[i] \notin Range(ordered)})
    IN  /\ stage = "ranking" /\ ordered # <<>>
        /\ Answer(ordered \o rest, PickLimit, "ok")
        /\ UNCHANGED <<request, groups, short>>

\* No model, its failure, the timeout, or no id that can be used.
RankDeterministically ==
    /\ stage = "ranking"
    /\ Answer(Ranked(short), PickLimit, "degraded")
    /\ UNCHANGED <<request, groups, short>>

SelNext ==
    \/ \E n \in 0..MaxEntries : \E items \in [1..n -> ListEntry] :
       \E con \in Constraint, mode \in Mode, identity \in Identity : Ask(items, con, mode, identity)
    \/ FilterAndGroup \/ PickLocally
    \/ NothingToPick \/ PickExact \/ SelectByText \/ SelectByPlatform
    \/ \E n \in 1..3 : \E ids \in [1..n -> {g.id : g \in Range(short)} \cup {<<"invented">>}] :
           Rerank(ids)
    \/ RankDeterministically

SelSpec == SelInit /\ [][SelNext]_selVars

-----------------------------------------------------------------------------
\* Whatever list the model hands in and whatever order it answers with, the answer holds no
\* product and no offer twice, only offers it was given, and none that breaks a constraint; a
\* required attribute is given up only when not one of the offers names it (_hard_failure,
\* the relaxation, _validate_decision).
PicksAreSound ==
    LET offers == FlattenSeq([i \in DOMAIN picks |-> picks[i].offers])
        con == request.constraint
    IN  stage = "answered" =>
            /\ Len(picks) <= PickLimit
            /\ IsInjective([i \in DOMAIN picks |-> picks[i].id])
            /\ IsInjective([i \in DOMAIN offers |-> OfferId(offers[i])])
            /\ \A e \in Range(offers) :
                /\ e \in Range(request.items) /\ e.valid /\ e.price > 0
                /\ e.platform \notin con.blockedPlatforms /\ e.item \notin con.blockedItems
                /\ con.max > 0 => e.price <= con.max
                /\ con.required /\ e.attribute # "match" =>
                       \A d \in Range(Parsed(request.items)) : d.attribute = "absent"

\* A platform that has a candidate keeps one in the shortlist, however its groups score, as
\* long as the shortlist has room for every platform (_balanced, cap_groups_balanced).
PlatformsKept ==
    stage = "ranking" /\ Len(ActiveIn(groups)) <= GroupLimit =>
        ActiveIn(short) = ActiveIn(groups)
=============================================================================
