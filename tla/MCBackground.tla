----------------------------- MODULE MCBackground -----------------------------
(***************************************************************************)
(* The background workers of the deployment, for TLC.  They share no row,  *)
(* so a behaviour of this module is a behaviour of one of them, chosen in  *)
(* the initial state, with the others at rest; a behaviour of all of them  *)
(* is an interleaving that none of the properties can tell apart.          *)
(***************************************************************************)
EXTENDS Consolidation, MemoryOutbox, PriceRefresh

VARIABLE part

vars      == <<part, conVars, memVars, priceVars>>

Init ==
    /\ part \in {"consolidation", "outbox", "prices"}
    /\ ConInit /\ MemInit /\ PriceInit

Consolidating == /\ part = "consolidation" /\ ConNext
                 /\ UNCHANGED <<part, memVars, priceVars>>
Publishing    == part = "outbox" /\ MemNext /\ UNCHANGED <<part, conVars, priceVars>>
Watching      == part = "prices" /\ PriceNext /\ UNCHANGED <<part, conVars, memVars>>

Next == Consolidating \/ Publishing \/ Watching

Spec == /\ Init /\ [][Next]_vars
        /\ ConFairness /\ MemFairness /\ PriceFairness

-----------------------------------------------------------------------------
\* The types of the three workers' rows and of their local states.
TypeOK == ConTypeOK /\ MemTypeOK /\ PriceTypeOK

\* Work that is due gets done: finished runs are consolidated or their window is
\* dead-lettered, events are published or dead-lettered, prices that are due are looked at.
WorkSettles == RunsConsolidated /\ EventsSettle /\ DueItemsChecked
===============================================================================
