---------------------------- MODULE RunContract -----------------------------
(***************************************************************************)
(* What the task API promises about threads and runs, with no process, no  *)
(* lock and no event in sight (docs/frontend-task-api-contract.md,         *)
(* docs/session-archive-task-ui-implementation-plan.md section 2): a user  *)
(* has one active thread, a thread has one open run, a run is closed once  *)
(* and for good, and a thread is retired only while no run of it is open.  *)
(***************************************************************************)
CONSTANTS Thread, Run, NoThread

VARIABLES
    life,   \* thread -> "absent", "active", "archived" or "deleted"
    phase,  \* run -> "none", "open" or "closed"
    home    \* run -> its thread, NoThread before it is opened

contract == <<life, phase, home>>

OpenRuns(t) == {r \in Run : home[r] = t /\ phase[r] = "open"}

ContractInit ==
    /\ life \in [Thread -> {"absent", "active"}]
    /\ \A t, u \in Thread : life[t] = "active" /\ life[u] = "active" => t = u
    /\ phase = [r \in Run |-> "none"]
    /\ home = [r \in Run |-> NoThread]

\* A run opens in the active thread, after every earlier run of it has closed.
Open(r, t) ==
    /\ life[t] = "active"
    /\ phase[r] = "none"
    /\ OpenRuns(t) = {}
    /\ phase' = [phase EXCEPT ![r] = "open"]
    /\ home' = [home EXCEPT ![r] = t]
    /\ UNCHANGED life

Shut(r) ==
    /\ phase[r] = "open"
    /\ phase' = [phase EXCEPT ![r] = "closed"]
    /\ UNCHANGED <<life, home>>

\* An active thread is kept when it has runs, dropped when it is empty.
Retire(t) == IF \E r \in Run : home[r] = t THEN "archived" ELSE "deleted"

\* A new thread replaces the active one, if there is one, in one step.
Replace(new) ==
    /\ life[new] = "absent"
    /\ \A t \in Thread : life[t] = "active" => OpenRuns(t) = {}
    /\ life' = [t \in Thread |-> IF t = new THEN "active"
                                 ELSE IF life[t] = "active" THEN Retire(t) ELSE life[t]]
    /\ UNCHANGED <<phase, home>>

\* A restart closes what was open and retires the active thread.
Interrupt ==
    /\ phase' = [r \in Run |-> IF phase[r] = "open" THEN "closed" ELSE phase[r]]
    /\ life' = [t \in Thread |-> IF life[t] = "active" THEN Retire(t) ELSE life[t]]
    /\ UNCHANGED home

ContractNext ==
    \/ \E r \in Run, t \in Thread : Open(r, t)
    \/ \E r \in Run : Shut(r)
    \/ \E t \in Thread : Replace(t)
    \/ Interrupt

Contract == ContractInit /\ [][ContractNext]_contract
=============================================================================
