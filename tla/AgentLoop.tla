------------------------------ MODULE AgentLoop ------------------------------
(***************************************************************************)
(* The phase graph of the agent (app/agent/main_agent.py) over the         *)
(* messages of one thread, with the guards around every tool call, the     *)
(* loop detection, the repair of interrupted tool groups and the cache     *)
(* breakpoint (app/agent/middleware.py).                                   *)
(*                                                                         *)
(* The model and the tools answer anything their contracts allow.  A tool  *)
(* result is abstracted to what the graph reads of it; a call's arguments  *)
(* to whether they are the bare ones or others, which for a search are the *)
(* ones that carry an intent of the model's own.  An assistant message     *)
(* with tool calls and the tool messages behind it are one group.          *)
(***************************************************************************)
EXTENDS Naturals, Sequences, FiniteSets, SequencesExt

CONSTANTS
    Budget,          \* max(8, 2 * settings.loop_repeat_threshold)
    GuardLimit,      \* iterations after which chat_fallback may skip the search (12)
    LoopWindow, LoopThreshold,
    KeepRecent,      \* settings.compression_keep_recent
    ProviderOn,      \* settings.product_provider # "none"
    MaxTurns,        \* bound: runs of the thread
    MaxHistory,      \* bound: messages of a thread that is used again
    Disturbances     \* bound: interrupted runs, context compressions

ASSUME AgentAssumption ==
    /\ Budget \in Nat \ {0} /\ GuardLimit \in Nat
    /\ MaxTurns \in Nat /\ Disturbances \in Nat

VARIABLES
    msgs,            \* the messages channel of the checkpoint
    node,            \* the node that is executing, "idle" between runs
    depth,           \* fork depth of the thread: 0, 1, or 2 while no run has started
    phase, iteration, decision, looping, ended, intent, autoSearch,   \* other channels
    turn, steps, disturbances

agentVars == <<msgs, node, depth, phase, iteration, decision, looping, ended, intent,
               autoSearch, turn, steps, disturbances>>

ThinkTools    == {"planner", "chat_fallback", "web_search", "item_search", "dispatch_tool"}
ReflectTools  == {"price_compare", "item_picker", "shopping_summary", "chat_fallback"}
TerminalTools == {"shopping_summary", "chat_fallback"}
SearchTools   == {"item_search", "dispatch_tool"}
Intent        == {"none", "executable", "clarify", "goal"}

Call(tool, arg) == [tool |-> tool, arg |-> arg]
Entry(kind)     == [kind |-> kind, calls |-> <<>>, results |-> <<>>]
Decided(calls)  == IF calls = <<>> THEN Entry("text")
                   ELSE [kind |-> "group", calls |-> calls, results |-> <<>>]

\* _repair: a goal always has to be clarified first, whatever the model says of it.
Understanding(mode, vague) ==
    CASE mode = "goal_explore" -> "goal"
      [] mode # "goal_explore" /\ vague  -> "clarify"
      [] mode # "goal_explore" /\ ~vague -> "executable"

\* planner: no intent or one that stays invalid, or the intent as it was repaired.
Planned == {"invalid"} \cup {Understanding(mode, vague) :
               mode \in {"category_explore", "exact_product", "goal_explore"}, vague \in BOOLEAN}

\* shopping_summary: "incomplete" is every status but complete, a missing link, a missing
\* model, a timeout and an invalid answer of the model among them.
Summarised == {"complete", "incomplete"}

\* What a tool that is let through may answer.
Answers(tool) ==
    CASE tool = "planner"          -> Planned
      [] tool \in SearchTools      -> {"found", "empty"}
      [] tool = "item_picker"      -> {"picked", "unlinked", "nothing"}
      [] tool = "shopping_summary" -> Summarised
      [] OTHER                     -> {"answered"}

Rejections == {"needs_planning", "needs_clarification", "search_required", "parent_only",
               "phase_rejected"}

AgentTypeOK ==
    /\ \A i \in DOMAIN msgs :
        /\ msgs[i].kind \in {"human", "text", "summary", "group"}
        /\ \A k \in DOMAIN msgs[i].calls : msgs[i].calls[k].tool \in ThinkTools \cup ReflectTools
        /\ \A k \in DOMAIN msgs[i].results :
               msgs[i].results[k] \in Answers(msgs[i].calls[k].tool) \cup Rejections
                                          \cup {"interrupted"}
    /\ node \in {"idle", "prepare", "think", "act", "observe", "compress", "reflect"}
    /\ depth \in 0..2 /\ phase \in {"think", "act", "reflect", "done"}
    /\ decision \in {"think", "reflect"} /\ looping \in BOOLEAN /\ ended \in BOOLEAN
    /\ intent \in Intent /\ autoSearch \in 0..MaxTurns
    /\ turn \in 0..MaxTurns /\ disturbances \in 0..Disturbances

AgentInit ==
    /\ msgs = <<>> /\ node = "idle" /\ depth = 2
    /\ phase = "think" /\ iteration = 0 /\ decision = "think" /\ looping = FALSE
    /\ ended = FALSE /\ intent = "none" /\ autoSearch = 0
    /\ turn = 0 /\ steps = 0 /\ disturbances = Disturbances

-----------------------------------------------------------------------------
(***************************************************************************)
(* What the nodes read from the messages.                                  *)
(***************************************************************************)
Open(e) == Len(e.results) < Len(e.calls)

\* Faulty variant: only a group that lost some of its results is repaired.
RepairedIfPartial(ms) ==
    [i \in DOMAIN ms |->
        [ms[i] EXCEPT !.results = [k \in (IF @ = <<>> THEN {} ELSE DOMAIN ms[i].calls) |->
                                      IF k \in DOMAIN @ THEN @[k] ELSE "interrupted"]]]

\* repair_incomplete_tool_groups
Repaired(ms) ==
    [i \in DOMAIN ms |->
        [ms[i] EXCEPT !.results = [k \in DOMAIN ms[i].calls |->
                                      IF k \in DOMAIN @ THEN @[k] ELSE "interrupted"]]]

\* tool_records: every tool message with its call, in order.
Records(ms) ==
    FlattenSeq([i \in DOMAIN ms |-> [k \in DOMAIN ms[i].results |->
        [tool |-> ms[i].calls[k].tool, arg |-> ms[i].calls[k].arg,
         result |-> ms[i].results[k]]]])

\* The messages of this turn; all of them when the question was compressed away.
CurrentTurn(ms) == SubSeq(ms, SelectLastInSeq(ms, LAMBDA e : e.kind = "human") + 1, Len(ms))

\* The latest result of one of the tools, or "none".
Latest(ms, tools) ==
    LET rs == Records(ms)
        i == SelectLastInSeq(rs, LAMBDA r : r.tool \in tools)
    IN  IF i = 0 THEN "none" ELSE rs[i].result

SearchRan == Latest(msgs, SearchTools) # "none"

\* loop_detected: the same call with the same result often enough among the recent ones.
LoopDetected(ms) ==
    LET rs == Records(ms)
        first == IF Len(rs) > LoopWindow THEN Len(rs) - LoopWindow + 1 ELSE 1
    IN  \E i \in first..Len(rs) :
            Cardinality({j \in first..Len(rs) : rs[j] = rs[i]}) >= LoopThreshold

-----------------------------------------------------------------------------
(***************************************************************************)
(* Runs.                                                                   *)
(***************************************************************************)
\* _initial_state over the checkpoint of the thread: auto_search is not among its keys.
\* A fork has a thread of its own and the intent its parent passes on.
StartRun(d, inherited) ==
    /\ node = "idle" /\ turn < MaxTurns /\ Len(msgs) <= MaxHistory
    /\ IF turn = 0 THEN d \in {0, 1} ELSE d = 0 /\ depth = 0
    /\ inherited = "none" \/ d = 1
    /\ depth' = d /\ turn' = turn + 1
    /\ msgs' = Append(msgs, Entry("human"))
    /\ node' = "prepare" /\ phase' = "think" /\ iteration' = 0 /\ decision' = "think"
    /\ looping' = FALSE /\ ended' = FALSE /\ intent' = inherited /\ steps' = 0
    /\ UNCHANGED <<autoSearch, disturbances>>

\* Cancellation or the run's timeout: what the last complete node left stays.
Interrupt ==
    /\ node # "idle" /\ disturbances > 0
    /\ disturbances' = disturbances - 1
    /\ node' = "idle"
    /\ UNCHANGED <<msgs, depth, phase, iteration, decision, looping, ended, intent,
                   autoSearch, turn, steps>>

-----------------------------------------------------------------------------
(***************************************************************************)
(* The nodes.                                                              *)
(***************************************************************************)
\* A node that has finished hands over; "done" ends the run.
Goes(to) == node' = (IF to = "done" THEN "idle" ELSE to) /\ steps' = steps + 1

Prepare ==
    /\ node = "prepare"
    /\ msgs' = Repaired(msgs)
    /\ Goes("think")
    /\ UNCHANGED <<depth, phase, iteration, decision, looping, ended, intent, autoSearch,
                   turn, disturbances>>

\* The model's answer in one phase, calls of other phases already removed.
Decisions(tools) == {<<>>} \cup {<<Call(t, "bare")>> : t \in tools}
                          \cup {<<Call(t, "own")>> : t \in tools \cap SearchTools}

Think(calls) ==
    /\ node = "think"
    /\ iteration' = iteration + 1
    /\ msgs' = Append(msgs, Decided(calls))
    /\ decision' = "think"
    /\ phase' = IF calls = <<>> THEN "reflect" ELSE "act"
    /\ Goes(phase')
    /\ UNCHANGED <<depth, looping, ended, intent, autoSearch, turn, disturbances>>

\* Faulty variant: the guard of chat_fallback has no end.
MustSearchAlways ==
    ~SearchRan /\ Latest(msgs, {"planner"}) \in {"executable", "clarify"}

\* The guards of guarded_tool_call, in its order.
MustSearchFirst ==
    /\ ~SearchRan /\ Latest(msgs, {"planner"}) \in {"executable", "clarify"}
    /\ ~looping /\ iteration < GuardLimit

Unplanned(c)   == c.tool \in SearchTools /\ intent = "none" /\ c.arg = "bare"
Unclarified(c) == c.tool = "dispatch_tool" /\ intent = "goal" /\ c.arg = "bare"
PicksFirst(c)  == c.tool = "item_picker" /\ depth = 0 /\ ~SearchRan
InFork(c)      == c.tool = "item_picker" /\ depth = 1
OutOfPhase(c)  == c.tool \notin (IF decision = "think" THEN ThinkTools ELSE ReflectTools)

Rejection(c) ==
    CASE Unplanned(c)   -> "needs_planning"
      [] Unclarified(c) -> "needs_clarification"
      [] c.tool = "chat_fallback" /\ MustSearchFirst -> "search_required"
      [] PicksFirst(c)  -> "search_required"
      [] InFork(c)      -> "parent_only"
      [] OTHER -> IF OutOfPhase(c) THEN "phase_rejected" ELSE "none"

\* item_search: an intent that needs clarification is not searched for.
Searched(c) == IF c.arg = "bare" /\ intent \in {"clarify", "goal"} THEN {"empty"}
               ELSE Answers("item_search")

\* dispatch: a child's timeout or error finds nothing, and a fork may not fork.
Dispatched == IF depth = 1 THEN {"empty"} ELSE Answers("dispatch_tool")

\* The model's own arguments of a dispatch may be a goal, which is refused too.
Outcomes(c) ==
    CASE Rejection(c) # "none" -> {Rejection(c)}
      [] Rejection(c) = "none" /\ c.tool = "item_search" -> Searched(c)
      [] Rejection(c) = "none" /\ c.tool = "dispatch_tool" ->
             Dispatched \cup (IF c.arg = "own" THEN {"needs_clarification"} ELSE {})
      [] OTHER -> Answers(c.tool)

\* The tool node: the results of all calls of the group reach the checkpoint together.
Act(results) ==
    LET e == Last(msgs)
    IN  /\ node = "act"
        /\ DOMAIN results = DOMAIN e.calls
        /\ \A k \in DOMAIN results : results[k] \in Outcomes(e.calls[k])
        /\ msgs' = [msgs EXCEPT ![Len(msgs)].results = results]
        /\ Goes("observe")
        /\ UNCHANGED <<depth, phase, iteration, decision, looping, ended, intent, autoSearch,
                       turn, disturbances>>

Terminal(e) ==
    \E k \in DOMAIN e.results :
        \/ e.calls[k].tool = "chat_fallback" /\ e.results[k] = "answered"
        \/ e.calls[k].tool = "shopping_summary" /\ e.results[k] = "complete"

\* The intent of a planner call of the last group, if it has one.
Understood(e) ==
    LET planned == {k \in DOMAIN e.results : e.calls[k].tool = "planner"
                                             /\ e.results[k] \in Intent}
    IN  IF planned = {} THEN intent ELSE e.results[CHOOSE k \in planned : TRUE]

Observe ==
    /\ node = "observe"
    /\ looping' = LoopDetected(msgs)
    /\ intent' = Understood(Last(msgs))
    /\ ended' = Terminal(Last(msgs))
    /\ phase' = IF ended' THEN "done" ELSE "reflect"
    /\ autoSearch' = IF depth = 0 /\ phase' = "reflect" /\ intent' = "executable"
                        /\ ~SearchRan /\ ProviderOn
                     THEN turn ELSE 0
    /\ msgs' = Repaired(msgs)
    /\ Goes("compress")
    /\ UNCHANGED <<depth, iteration, decision, turn, disturbances>>

\* cache_breakpoint_update: over the token limit everything before the recent groups
\* becomes one summary message.
Groups(ms) == {i \in DOMAIN ms : ms[i].kind = "group"}

\* _safe_boundary: where the recent groups begin, if others are before them.
Boundary(ms) ==
    {i \in Groups(ms) : Cardinality({j \in Groups(ms) : j >= i}) = KeepRecent}

Compressed(ms) ==
    IF Cardinality(Groups(ms)) <= KeepRecent \/ Boundary(ms) \ {1} = {} THEN ms
    ELSE <<Entry("summary")>> \o SubSeq(ms, CHOOSE i \in Boundary(ms) : TRUE, Len(ms))

Compress(over) ==
    /\ node = "compress"
    /\ over => disturbances > 0 /\ Compressed(msgs) # msgs
    /\ disturbances' = IF over THEN disturbances - 1 ELSE disturbances
    /\ msgs' = IF over THEN Compressed(msgs) ELSE msgs
    /\ Goes(phase)
    /\ UNCHANGED <<depth, phase, iteration, decision, looping, ended, intent, autoSearch, turn>>

\* _deterministic_summary_fallback: a failed summary, or picks nobody can verify.
SummaryFallback ==
    LET ms == CurrentTurn(msgs)
        summary == Latest(ms, {"shopping_summary"})
        picker == Latest(ms, {"item_picker"})
    IN  IF summary # "none" THEN summary # "complete" ELSE picker \notin {"none", "picked"}

\* _forced_termination_response: the next step the facts of the turn allow.  An empty answer
\* replaces an earlier one of the same platform only.
Forced ==
    LET ms == CurrentTurn(msgs)
        picker == Latest(ms, {"item_picker"})
        found == \E r \in Range(Records(ms)) : r.tool \in SearchTools /\ r.result = "found"
    IN  IF picker \in {"picked", "unlinked"} THEN {"shopping_summary"}
        ELSE IF picker # "none" \/ ~found THEN {"chat_fallback"}
        ELSE {"item_picker"} \cup (IF Latest(ms, SearchTools) = "found" THEN {}
                                   ELSE {"chat_fallback"})

MustTerminate == looping \/ iteration + 1 >= Budget

Reflected(calls, next) ==
    /\ iteration' = iteration + 1
    /\ msgs' = Append(msgs, Decided(calls))
    /\ phase' = next
    /\ Goes(next)
    /\ UNCHANGED <<depth, looping, ended, intent, turn, disturbances>>

\* The search the model should have asked for.
AutoSearch ==
    /\ node = "reflect" /\ autoSearch # 0 /\ ~MustTerminate /\ depth = 0
    /\ Reflected(<<Call("item_search", "own")>>, "act")
    /\ decision' = "think" /\ autoSearch' = 0

Reflecting == node = "reflect" /\ ~(autoSearch # 0 /\ ~MustTerminate /\ depth = 0)

Forces == SummaryFallback \/ (MustTerminate /\ depth = 0)

ReflectForced ==
    /\ Reflecting /\ Forces
    /\ \E tool \in (IF SummaryFallback THEN {"chat_fallback"} ELSE Forced) :
           Reflected(<<Call(tool, "bare")>>, "act")
    /\ decision' = "reflect" /\ UNCHANGED autoSearch

\* The model decides.  Without a call a fork and an exhausted run end, others think again.
ReflectFreely(calls, next) ==
    /\ Reflecting /\ ~Forces
    /\ calls # <<>> /\ MustTerminate => calls[1].tool \in TerminalTools
    /\ IF calls # <<>> THEN next = "act"
       ELSE IF MustTerminate THEN next = "done"
       ELSE next = "think" \/ (depth = 1 /\ next = "done")
    /\ Reflected(calls, next)
    /\ decision' = "reflect" /\ UNCHANGED autoSearch

AgentNext ==
    \/ \E d \in {0, 1}, i \in Intent : StartRun(d, i)
    \/ Interrupt
    \/ Prepare
    \/ \E calls \in Decisions(ThinkTools) : Think(calls)
    \/ node = "act" /\ \E results \in [DOMAIN Last(msgs).calls ->
                              UNION {Outcomes(c) : c \in Range(Last(msgs).calls)}] : Act(results)
    \/ Observe
    \/ \E over \in BOOLEAN : Compress(over)
    \/ AutoSearch \/ ReflectForced
    \/ \E calls \in Decisions(ReflectTools), next \in {"act", "think", "done"} :
           ReflectFreely(calls, next)

AgentSpec == AgentInit /\ [][AgentNext]_agentVars

-----------------------------------------------------------------------------
\* Whenever the model is asked, every tool call in its messages has its result: the API
\* refuses anything else, and one interrupted run would break every later run of the thread
\* (repair_incomplete_tool_groups, _safe_boundary).
ToolGroupsClosed ==
    node \in {"think", "reflect"} => \A i \in DOMAIN msgs : ~Open(msgs[i])

\* A run comes to its end: at most four supersteps for each decision, and no decision after
\* the guard of chat_fallback has lifted and the forced picker, summary and fallback are done.
\* The last think may come when the budget is spent, and a fork may still choose a summary of
\* its own when the guard lifts.
StepsBounded ==
    LET forced == Budget + (IF depth = 0 THEN 3 ELSE 2)
        lifted == GuardLimit + (IF depth = 0 THEN 0 ELSE 1)
    IN  steps <= 1 + 4 * (IF lifted > forced THEN lifted ELSE forced)
=============================================================================
