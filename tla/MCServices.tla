------------------------------ MODULE MCServices -------------------------------
(***************************************************************************)
(* The parts of the program that answer a request or run from the command  *)
(* line, for TLC.  They share no state here, so a behaviour of this module *)
(* is a behaviour of one of them, chosen in the initial state, with the    *)
(* others at rest; the properties are all about states, and a state of     *)
(* their interleaving is a state of each.                                  *)
(***************************************************************************)
EXTENDS CatalogHydration, AgentLoop, LegacyStore, Accounts, DatasetCollector, Selection, TLC

CONSTANTS p1, p2, j1, j2

VARIABLE part

Init ==
    /\ part \in {"catalog", "agent", "legacy", "accounts", "collector", "selection"}
    /\ HydInit /\ AgentInit /\ LegacyInit /\ AccInit /\ ColInit /\ SelInit

CatalogStep ==
    /\ part = "catalog" /\ HydNext
    /\ UNCHANGED <<part, agentVars, legacyVars, accVars, colVars, selVars>>

AgentStep ==
    /\ part = "agent" /\ AgentNext
    /\ UNCHANGED <<part, hydVars, legacyVars, accVars, colVars, selVars>>

LegacyStep ==
    /\ part = "legacy" /\ LegacyNext
    /\ UNCHANGED <<part, hydVars, agentVars, accVars, colVars, selVars>>

AccountStep ==
    /\ part = "accounts" /\ AccNext
    /\ UNCHANGED <<part, hydVars, agentVars, legacyVars, colVars, selVars>>

CollectorStep ==
    /\ part = "collector" /\ ColNext
    /\ UNCHANGED <<part, hydVars, agentVars, legacyVars, accVars, selVars>>

SelectionStep ==
    /\ part = "selection" /\ SelNext
    /\ UNCHANGED <<part, hydVars, agentVars, legacyVars, accVars, colVars>>

Next == \/ CatalogStep \/ AgentStep \/ LegacyStep
        \/ AccountStep \/ CollectorStep \/ SelectionStep

vars == <<part, hydVars, agentVars, legacyVars, accVars, colVars, selVars>>
Spec == Init /\ [][Next]_vars

-----------------------------------------------------------------------------
(***************************************************************************)
(* Instances.                                                              *)
(***************************************************************************)
\* The catalog: one job needs both platforms, the other one of them, which has three pages.
PlatformsOfJobs == (j1 :> {p1, p2}) @@ (j2 :> {p1})
PagesOfPlatforms == (p1 :> 3) @@ (p2 :> 1)

\* The collection: pages with duplicates, accessories, prices of zero, aliases, and an array
\* of another shape.
Shop == <<"jd", "douyin">>
Found(name, ids, title, prices) ==
    [name |-> name, base |-> TRUE, ids |-> ids, titles |-> <<title>>, prices |-> prices]
Headphone(name) == Found(name, <<"set", "absent">>, "headphone", <<"positive">>)
Listed(p, k, n) ==
    LET accessory == Found("z", <<"set">>, "accessory", <<"positive">>)
        priceless == Found("y", <<"set">>, "headphone", <<"zero", "absent">>)
    IN  CASE k = 1 /\ n = 1 -> <<Headphone("a"), accessory>>
          [] k = 2 /\ n = 1 -> IF p = "jd" THEN <<Headphone("a"), priceless>> ELSE <<priceless>>
          [] k = 2 /\ n = 2 -> <<Headphone("c")>>
          [] OTHER          -> <<>>
Another == [Found("b", <<"empty", "set">>, "headphone", <<"zero", "positive">>)
               EXCEPT !.base = FALSE]
ShopPages == [q \in Range(Shop) \X (1..2) \X (1..3) |->
    [listed |-> Listed(q[1], q[2], q[3]),
     found  |-> IF q = <<"douyin", 1, 2>> THEN <<Another>> ELSE <<>>,
     pages  |-> IF q[1] = "jd" THEN 2 ELSE 0]]

\* The selection: offers of one product on two platforms, one id on two platforms, a verified
\* GTIN, an offer without a link and a malformed one.
Offered(item, platform, price) ==
    [item |-> item, platform |-> platform, price |-> price, valid |-> TRUE, linked |-> TRUE,
     offer |-> "none", product |-> "none", gtin |-> "none", verified |-> FALSE,
     model |-> "none", variant |-> "none", attribute |-> "absent", rank |-> 0, rating |-> -1,
     words |-> {}]
Entries ==
    {Offered("a", "jingdong", 1),
     [Offered("b", "jingdong", 2) EXCEPT !.model = "m", !.variant = "v", !.rank = 1,
                                         !.rating = 4, !.words = {"m"}],
     [Offered("c", "taobao", 1) EXCEPT !.model = "m", !.variant = "v",
                                       !.attribute = "match", !.words = {"m"}],
     [Offered("a", "douyin", 1) EXCEPT !.attribute = "other", !.rank = 2],
     [Offered("d", "taobao", 2) EXCEPT !.gtin = "g", !.verified = TRUE],
     [Offered("f", "douyin", 2) EXCEPT !.linked = FALSE],
     [Offered("e", "taobao", 2) EXCEPT !.valid = FALSE]}
Unconstrained == [max |-> 0, min |-> 0, required |-> FALSE, excluded |-> FALSE,
                  blockedItems |-> {}, blockedPlatforms |-> {}]
Constraints == {Unconstrained, [Unconstrained EXCEPT !.required = TRUE],
                [Unconstrained EXCEPT !.max = 1, !.blockedPlatforms = {"douyin"}]}
Identities == {[source |-> "none", words |-> {"m"}]}

\* The configuration names the values of several parts alike, so that one group serves all.
Symmetric == UNION {Permutations(S) : S \in {Caller, RunKey, Offer}}

-----------------------------------------------------------------------------
\* The types of the parts' states.
TypeOK == HydTypeOK /\ AgentTypeOK /\ LegacyTypeOK /\ AccTypeOK /\ ColTypeOK /\ SelTypeOK

\* Nothing is bought twice, whoever dies or loses a lease while it is being bought: no page of
\* a provider is asked for by two hydrations of one day, and the collector sends no request a
\* second time and keeps within its caps (reserve_request, RequestLedger.reserve).
PaidOnce == RequestSentOnce /\ PaidOnceWithinCaps
===============================================================================
