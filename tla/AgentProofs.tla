------------------------------ MODULE AgentProofs ------------------------------
(***************************************************************************)
(* Proofs about the agent loop, for any tools' answers, disturbances and   *)
(* turns.                                                                  *)
(*                                                                         *)
(* A group of tool calls lacks results only while its tools run or behind  *)
(* an interrupted run, whose next one repairs it (GroupsFit).              *)
(*                                                                         *)
(* A run ends because a decision behind its budget is a forced one, and    *)
(* the picker, the summary and the fallback can only follow each other in  *)
(* this order (Spent).  What the graph reads of the messages is a fold     *)
(* over all results of the turn; LatestIs and TurnLatest say which message *)
(* it comes from.                                                          *)
(***************************************************************************)
EXTENDS AgentLoop, FiniteSetTheorems, SequenceTheorems, WellFoundedInduction, TLAPS

-----------------------------------------------------------------------------
(***************************************************************************)
(* The agent loop.                                                         *)
(***************************************************************************)
AgentTool == ThinkTools \cup ReflectTools

ToolCall == [tool : AgentTool, arg : {"bare", "own"}]

ToolAnswer == UNION {Answers(tool) : tool \in AgentTool}

ToolResult == ToolAnswer \cup Rejections \cup {"interrupted"}

AgentEntry == [kind : {"human", "text", "summary", "group"}, calls : Seq(ToolCall),
               results : Seq(ToolResult)]

\* Every result answers a call of its group, with what its tool may answer.
ResultsAnswer(e) ==
    \A k \in DOMAIN e.results :
        /\ k \in DOMAIN e.calls
        /\ e.results[k] \in Answers(e.calls[k].tool) \cup Rejections \cup {"interrupted"}

Messages(ms) == ms \in Seq(AgentEntry) /\ \A i \in 1..Len(ms) : ResultsAnswer(ms[i])

AllClosed(ms) == \A i \in 1..Len(ms) : ~Open(ms[i])

\* A group is open behind an interrupted run, and while its tools run, when it is the last.
GroupsFit ==
    /\ node \in {"think", "observe", "compress", "reflect"} => AllClosed(msgs)
    /\ node = "act" => msgs # <<>> /\ \A i \in 1..(Len(msgs) - 1) : ~Open(msgs[i])
    /\ node = "compress" => phase \in {"reflect", "done"}

AgentInvariant == AgentTypeOK /\ Messages(msgs) /\ GroupsFit

\* The results are what the tools answer, the rejections and what a repair adds.
LEMMA ResultsOf ==
    /\ \A tool \in AgentTool : Answers(tool) \subseteq ToolResult
    /\ Rejections \subseteq ToolResult /\ "interrupted" \in ToolResult
<1>1. ASSUME NEW tool \in AgentTool, NEW x \in Answers(tool)
      PROVE  x \in ToolResult
    <2>1. x \in ToolAnswer
        BY <1>1, Zenon DEF ToolAnswer
    <2> QED BY <2>1 DEF ToolResult
<1> QED BY <1>1 DEF ToolResult

\* What is appended to messages that fit, and fits itself, leaves them fitting.
LEMMA EntryAdded ==
    ASSUME NEW ms, Messages(ms), NEW e \in AgentEntry, ResultsAnswer(e)
    PROVE  /\ Messages(Append(ms, e))
           /\ Len(Append(ms, e)) = Len(ms) + 1 /\ Len(ms) \in Nat
           /\ \A i \in 1..Len(ms) : Append(ms, e)[i] = ms[i]
           /\ Append(ms, e)[Len(ms) + 1] = e
           /\ AllClosed(ms) /\ ~Open(e) => AllClosed(Append(ms, e))
<1>1. /\ Append(ms, e) \in Seq(AgentEntry) /\ Len(Append(ms, e)) = Len(ms) + 1
      /\ \A i \in 1..Len(ms) : Append(ms, e)[i] = ms[i]
      /\ Append(ms, e)[Len(ms) + 1] = e
      /\ Len(ms) \in Nat
    BY AppendProperties, LenProperties DEF Messages
<1>2. \A i \in 1..(Len(ms) + 1) : i \in 1..Len(ms) \/ i = Len(ms) + 1
    BY <1>1
<1>3. Messages(Append(ms, e))
    BY <1>1, <1>2 DEF Messages
<1>4. AllClosed(ms) /\ ~Open(e) => AllClosed(Append(ms, e))
    BY <1>1, <1>2 DEF AllClosed
<1> QED BY <1>1, <1>3, <1>4

\* What the nodes append fits.
LEMMA EntriesFit ==
    /\ \A kind \in {"human", "text", "summary"} :
           Entry(kind) \in AgentEntry /\ ResultsAnswer(Entry(kind)) /\ ~Open(Entry(kind))
    /\ \A asked \in Seq(ToolCall) :
           /\ Decided(asked) \in AgentEntry /\ ResultsAnswer(Decided(asked))
           /\ asked = <<>> => ~Open(Decided(asked))
<1>1. <<>> \in Seq(ToolCall) /\ <<>> \in Seq(ToolResult) /\ DOMAIN <<>> = {} /\ Len(<<>>) = 0
    BY EmptySeq
<1>2. ASSUME NEW kind \in {"human", "text", "summary"}
      PROVE  Entry(kind) \in AgentEntry /\ ResultsAnswer(Entry(kind)) /\ ~Open(Entry(kind))
    BY <1>1 DEF Entry, AgentEntry, ResultsAnswer, Open
<1>3. ASSUME NEW asked \in Seq(ToolCall)
      PROVE  /\ Decided(asked) \in AgentEntry /\ ResultsAnswer(Decided(asked))
             /\ asked = <<>> => ~Open(Decided(asked))
    <2>1. CASE asked = <<>>
        BY <1>2, <2>1 DEF Decided
    <2>2. CASE asked # <<>>
        BY <1>1, <2>2 DEF Decided, AgentEntry, ResultsAnswer
    <2> QED BY <2>1, <2>2
<1> QED BY <1>2, <1>3

\* What the model answers is calls.
LEMMA DecisionsFit ==
    \A tools \in SUBSET AgentTool : Decisions(tools) \subseteq Seq(ToolCall)
<1> SUFFICES ASSUME NEW tools \in SUBSET AgentTool, NEW d \in Decisions(tools)
             PROVE  d \in Seq(ToolCall)
    OBVIOUS
<1>1. ASSUME NEW t \in AgentTool, NEW a \in {"bare", "own"}
      PROVE  <<Call(t, a)>> \in Seq(ToolCall)
    BY DEF Call, ToolCall
<1>2. CASE d = <<>>
    BY <1>2, EmptySeq
<1>3. CASE d \in {<<Call(t, "bare")>> : t \in tools}
    <2>1. PICK t \in tools : d = <<Call(t, "bare")>>
        BY <1>3
    <2> QED BY <1>1, <2>1
<1>4. CASE d \in {<<Call(t, "own")>> : t \in tools \cap SearchTools}
    <2>1. PICK t \in tools : d = <<Call(t, "own")>>
        BY <1>4
    <2> QED BY <1>1, <2>1
<1> QED BY <1>2, <1>3, <1>4 DEF Decisions

\* A group that lost its results is complete again, and nothing else changes.
LEMMA RepairCloses ==
    ASSUME NEW ms, Messages(ms)
    PROVE  Messages(Repaired(ms)) /\ AllClosed(Repaired(ms))
<1>1. ms \in Seq(AgentEntry) /\ DOMAIN ms = 1..Len(ms) /\ Len(ms) \in Nat
    BY LenProperties DEF Messages
<1>2. ASSUME NEW i \in 1..Len(ms)
      PROVE  /\ Repaired(ms)[i] \in AgentEntry /\ ResultsAnswer(Repaired(ms)[i])
             /\ ~Open(Repaired(ms)[i])
    <2> DEFINE e == ms[i]
               n == Len(e.calls)
               results == [k \in 1..n |-> IF k \in DOMAIN e.results THEN e.results[k]
                                          ELSE "interrupted"]
    <2>1. e \in AgentEntry /\ ResultsAnswer(e)
        BY <1>1 DEF Messages
    <2>2. e.calls \in Seq(ToolCall) /\ e.results \in Seq(ToolResult)
        BY <2>1 DEF AgentEntry
    <2>3. DOMAIN e.calls = 1..n /\ n \in Nat
        BY <2>2, LenProperties
    <2>4. Repaired(ms)[i] = [e EXCEPT !.results = results]
        BY <1>1, <2>3 DEF Repaired
    <2>5. \A k \in DOMAIN e.results : e.results[k] \in ToolResult
        BY <2>2, ElementOfSeq, LenProperties
    <2>6. "interrupted" \in ToolResult
        BY ResultsOf
    <2>7. results \in Seq(ToolResult) /\ Len(results) = n /\ DOMAIN results = 1..n
        BY <2>3, <2>5, <2>6
    <2>8. [e EXCEPT !.results = results] \in AgentEntry
        BY <2>1, <2>7 DEF AgentEntry
    <2>9. /\ [e EXCEPT !.results = results].results = results
          /\ [e EXCEPT !.results = results].calls = e.calls
        BY <2>1 DEF AgentEntry
    <2>10. ~Open([e EXCEPT !.results = results])
        BY <2>3, <2>7, <2>9 DEF Open
    <2>11. ResultsAnswer([e EXCEPT !.results = results])
        BY <2>1, <2>3, <2>7, <2>9 DEF ResultsAnswer
    <2> QED BY <2>4, <2>8, <2>10, <2>11
<1>3. Repaired(ms) = [i \in 1..Len(ms) |-> Repaired(ms)[i]]
    BY <1>1 DEF Repaired
<1>4. Repaired(ms) \in Seq(AgentEntry) /\ Len(Repaired(ms)) = Len(ms)
    BY <1>1, <1>2, <1>3
<1> QED BY <1>2, <1>4 DEF Messages, AllClosed

\* The cache breakpoint cuts between groups.
LEMMA CompressionKeeps ==
    ASSUME NEW ms, Messages(ms), AllClosed(ms)
    PROVE  Messages(Compressed(ms)) /\ AllClosed(Compressed(ms))
<1>1. ms \in Seq(AgentEntry) /\ DOMAIN ms = 1..Len(ms) /\ Len(ms) \in Nat
    BY LenProperties DEF Messages
<1>2. CASE Compressed(ms) = ms
    BY <1>2
<1>3. CASE Boundary(ms) # {}
            /\ Compressed(ms) = <<Entry("summary")>>
                                  \o SubSeq(ms, CHOOSE i \in Boundary(ms) : TRUE, Len(ms))
    <2>1. PICK i \in Boundary(ms) :
              Compressed(ms) = <<Entry("summary")>> \o SubSeq(ms, i, Len(ms))
        BY <1>3
    <2>2. i \in 1..Len(ms)
        BY <1>1 DEF Boundary, Groups
    <2> DEFINE rest == SubSeq(ms, i, Len(ms))
               n == Len(ms) - i + 1
    <2>3. /\ rest \in Seq(AgentEntry) /\ Len(rest) = n
          /\ \A j \in 1..n : rest[j] = ms[i + j - 1]
        BY <1>1, <2>2, SubSeqProperties
    <2> HIDE DEF rest
    <2>4. \A j \in 1..n : ResultsAnswer(rest[j]) /\ ~Open(rest[j])
        <3>1. \A j \in 1..n : i + j - 1 \in 1..Len(ms)
            BY <1>1, <2>2
        <3>2. \A j \in 1..Len(ms) : ResultsAnswer(ms[j]) /\ ~Open(ms[j])
            BY DEF Messages, AllClosed
        <3> QED BY <2>3, <3>1, <3>2
    <2>5. Entry("summary") \in AgentEntry /\ ResultsAnswer(Entry("summary"))
              /\ ~Open(Entry("summary"))
        BY EntriesFit
    <2>6. /\ <<Entry("summary")>> \in Seq(AgentEntry) /\ Len(<<Entry("summary")>>) = 1
          /\ <<Entry("summary")>>[1] = Entry("summary")
        BY <2>5
    <2> DEFINE all == <<Entry("summary")>> \o rest
    <2>7. /\ all \in Seq(AgentEntry) /\ Len(all) = 1 + n
          /\ \A j \in 1..(1 + n) : all[j] = IF j <= 1 THEN Entry("summary") ELSE rest[j - 1]
        BY <2>3, <2>6, ConcatProperties
    <2> HIDE DEF all
    <2>8. \A j \in 1..(1 + n) : ResultsAnswer(all[j]) /\ ~Open(all[j])
        BY <1>1, <2>2, <2>4, <2>5, <2>7
    <2>9. Compressed(ms) = all
        BY <2>1 DEF all, rest
    <2> QED BY <2>7, <2>8, <2>9 DEF Messages, AllClosed
<1> QED BY <1>2, <1>3 DEF Compressed

\* Whatever the guards make of a call, its result is one that its tool may give.
LEMMA OutcomesFit ==
    ASSUME NEW c \in ToolCall, NEW x \in Outcomes(c)
    PROVE  x \in Answers(c.tool) \cup Rejections /\ x \in ToolResult
<1>1. Rejection(c) \in Rejections \cup {"none"}
    BY DEF Rejection, Rejections
<1>2. "needs_clarification" \in Rejections
    BY DEF Rejections
<1>3. c.tool \in AgentTool
    BY DEF ToolCall
<1>4. Searched(c) \subseteq Answers("item_search")
    BY DEF Searched, Answers, SearchTools
<1>5. Dispatched \subseteq Answers("dispatch_tool")
    BY DEF Dispatched, Answers, SearchTools
<1>6. x \in Answers(c.tool) \cup Rejections
    <2>1. CASE Rejection(c) # "none"
        BY <1>1, <2>1 DEF Outcomes
    <2>2. CASE Rejection(c) = "none" /\ c.tool = "item_search"
        BY <1>4, <2>2 DEF Outcomes
    <2>3. CASE Rejection(c) = "none" /\ c.tool = "dispatch_tool"
        BY <1>2, <1>5, <2>3 DEF Outcomes
    <2>4. CASE Rejection(c) = "none" /\ c.tool # "item_search" /\ c.tool # "dispatch_tool"
        BY <2>4 DEF Outcomes
    <2> QED BY <2>1, <2>2, <2>3, <2>4
<1>7. Answers(c.tool) \subseteq ToolResult /\ Rejections \subseteq ToolResult
    BY <1>3, ResultsOf
<1> QED BY <1>6, <1>7

-----------------------------------------------------------------------------
\* The types of the messages follow from Messages.
AgentScalars ==
    /\ node \in {"idle", "prepare", "think", "act", "observe", "compress", "reflect"}
    /\ depth \in 0..2 /\ phase \in {"think", "act", "reflect", "done"}
    /\ decision \in {"think", "reflect"} /\ looping \in BOOLEAN /\ ended \in BOOLEAN
    /\ intent \in Intent /\ autoSearch \in 0..MaxTurns
    /\ turn \in 0..MaxTurns /\ disturbances \in 0..Disturbances

\* AgentTypeOK is the types of the messages and those of the other channels.
LEMMA AgentTyped ==
    /\ AgentTypeOK => AgentScalars
    /\ AgentScalars /\ Messages(msgs) => AgentTypeOK
<1>1. AgentTypeOK => AgentScalars
    BY DEF AgentTypeOK, AgentScalars
<1>2. ASSUME AgentScalars, Messages(msgs)
      PROVE  AgentTypeOK
    <2>1. msgs \in Seq(AgentEntry) /\ DOMAIN msgs = 1..Len(msgs)
        BY <1>2, LenProperties DEF Messages
    <2>2. ASSUME NEW i \in DOMAIN msgs
          PROVE  /\ msgs[i].kind \in {"human", "text", "summary", "group"}
                 /\ \A k \in DOMAIN msgs[i].calls :
                        msgs[i].calls[k].tool \in ThinkTools \cup ReflectTools
                 /\ \A k \in DOMAIN msgs[i].results :
                        msgs[i].results[k] \in Answers(msgs[i].calls[k].tool) \cup Rejections
                                                  \cup {"interrupted"}
        <3>1. msgs[i] \in AgentEntry /\ ResultsAnswer(msgs[i])
            BY <1>2, <2>1 DEF Messages
        <3>2. msgs[i].calls \in Seq(ToolCall)
            BY <3>1 DEF AgentEntry
        <3>3. \A k \in DOMAIN msgs[i].calls : msgs[i].calls[k] \in ToolCall
            BY <3>2, ElementOfSeq, LenProperties
        <3> QED BY <3>1, <3>3 DEF AgentEntry, ResultsAnswer, ToolCall, AgentTool
    <2> QED BY <1>2, <2>2 DEF AgentTypeOK, AgentScalars
<1> QED BY <1>1, <1>2

\* The same of the next state.
LEMMA AgentTypedNext == AgentScalars' /\ Messages(msgs)' => AgentTypeOK'
BY AgentTyped, PTL

\* The thread is new.
LEMMA AgentStarts == AgentInit => AgentInvariant
<1> SUFFICES ASSUME AgentInit PROVE AgentInvariant
    OBVIOUS
<1>1. msgs \in Seq(AgentEntry) /\ Len(msgs) = 0
    BY EmptySeq DEF AgentInit
<1>2. Messages(msgs) /\ GroupsFit
    BY <1>1 DEF AgentInit, Messages, GroupsFit
<1>3. looping \in BOOLEAN /\ ended \in BOOLEAN
    BY Zenon DEF AgentInit
<1>4. AgentScalars
    BY <1>3, AgentAssumption DEF AgentInit, AgentScalars, Intent
<1> QED BY <1>2, <1>4, AgentTyped DEF AgentInvariant

\* A decision is appended, and the node of its calls is next.
LEMMA DecisionKeeps ==
    ASSUME AgentInvariant, AllClosed(msgs), NEW asked \in Seq(ToolCall),
           msgs' = Append(msgs, Decided(asked)),
           asked # <<>> => node' = "act", asked = <<>> => node' # "act", node' # "compress"
    PROVE  Messages(msgs)' /\ GroupsFit'
<1>1. Decided(asked) \in AgentEntry /\ ResultsAnswer(Decided(asked))
          /\ (asked = <<>> => ~Open(Decided(asked)))
    BY EntriesFit
<1>2. Messages(msgs)
    BY DEF AgentInvariant
<1>3. /\ Messages(msgs') /\ Len(msgs') = Len(msgs) + 1 /\ Len(msgs) \in Nat
      /\ \A i \in 1..Len(msgs) : msgs'[i] = msgs[i]
      /\ ~Open(Decided(asked)) => AllClosed(msgs')
    BY <1>1, <1>2, EntryAdded
<1>4. CASE asked = <<>>
    BY <1>1, <1>3, <1>4 DEF GroupsFit
<1>5. CASE asked # <<>>
    <2>1. node' = "act"
        BY <1>5
    <2>2. msgs' # <<>>
        BY <1>3, EmptySeq
    <2>3. \A i \in 1..(Len(msgs') - 1) : ~Open(msgs'[i])
        BY <1>3 DEF AllClosed
    <2> QED BY <1>3, <2>1, <2>2, <2>3 DEF GroupsFit
<1> QED BY <1>4, <1>5

\* A run appends its question to whatever an earlier one left.
LEMMA AgentRunStarts ==
    ASSUME AgentInvariant, NEW d \in {0, 1}, NEW i \in Intent, StartRun(d, i)
    PROVE  AgentInvariant'
<1>1. Messages(msgs) /\ AgentScalars
    BY AgentTyped DEF AgentInvariant
<1>2. Messages(msgs')
    BY <1>1, EntryAdded, EntriesFit DEF StartRun
<1>3. AgentScalars'
    <2>1. looping' \in BOOLEAN /\ ended' \in BOOLEAN
        BY Zenon DEF StartRun
    <2> QED BY <1>1, <2>1, AgentAssumption DEF StartRun, AgentScalars
<1>4. GroupsFit'
    BY DEF StartRun, GroupsFit
<1> QED BY <1>2, <1>3, <1>4, AgentTypedNext DEF AgentInvariant

\* An interrupted run may leave its last group open.
LEMMA InterruptKeeps ==
    ASSUME AgentInvariant, Interrupt
    PROVE  AgentInvariant'
<1>1. Messages(msgs) /\ AgentScalars
    BY AgentTyped DEF AgentInvariant
<1>2. Messages(msgs')
    BY <1>1 DEF Interrupt
<1>3. AgentScalars'
    BY <1>1, AgentAssumption DEF Interrupt, AgentScalars
<1>4. GroupsFit'
    BY DEF Interrupt, GroupsFit
<1> QED BY <1>2, <1>3, <1>4, AgentTypedNext DEF AgentInvariant

\* The first node closes it.
LEMMA PrepareKeeps ==
    ASSUME AgentInvariant, Prepare
    PROVE  AgentInvariant'
<1>1. Messages(msgs) /\ AgentScalars
    BY AgentTyped DEF AgentInvariant
<1>2. Messages(msgs') /\ AllClosed(msgs')
    BY <1>1, RepairCloses DEF Prepare
<1>3. AgentScalars' /\ node' = "think"
    BY <1>1 DEF Prepare, AgentScalars, Goes
<1>4. GroupsFit'
    BY <1>2, <1>3 DEF GroupsFit
<1> QED BY <1>2, <1>3, <1>4, AgentTypedNext DEF AgentInvariant

\* A decision of the first phase is the only open group.
LEMMA ThinkKeeps ==
    ASSUME AgentInvariant, NEW asked \in Decisions(ThinkTools), Think(asked)
    PROVE  AgentInvariant'
<1>1. Messages(msgs) /\ AgentScalars /\ AllClosed(msgs)
    BY AgentTyped DEF AgentInvariant, GroupsFit, Think
<1>2. asked \in Seq(ToolCall)
    BY DecisionsFit DEF AgentTool
<1>3. /\ msgs' = Append(msgs, Decided(asked))
      /\ asked # <<>> => node' = "act" /\ phase' = "act"
      /\ asked = <<>> => node' = "reflect" /\ phase' = "reflect"
    BY DEF Think, Goes
<1>4. Messages(msgs)' /\ GroupsFit'
    BY <1>1, <1>2, <1>3, DecisionKeeps
<1>5. AgentScalars'
    BY <1>1, <1>3 DEF Think, AgentScalars
<1> QED BY <1>4, <1>5, AgentTypedNext DEF AgentInvariant

\* The tool node closes the group it was given.
LEMMA ActKeeps ==
    ASSUME AgentInvariant, node = "act",
           NEW results \in [DOMAIN Last(msgs).calls ->
                                UNION {Outcomes(c) : c \in Range(Last(msgs).calls)}],
           Act(results)
    PROVE  AgentInvariant'
<1> DEFINE n == Len(msgs)
           e == Last(msgs)
           m == Len(e.calls)
           f == [e EXCEPT !.results = results]
<1>1. /\ Messages(msgs) /\ AgentScalars /\ msgs # <<>>
      /\ \A i \in 1..(n - 1) : ~Open(msgs[i])
    BY AgentTyped DEF AgentInvariant, GroupsFit
<1>2. msgs \in Seq(AgentEntry) /\ DOMAIN msgs = 1..n /\ n \in Nat /\ n # 0 /\ e = msgs[n]
    BY <1>1, LenProperties, EmptySeq DEF Messages, Last
<1>3. e \in AgentEntry
    BY <1>2
<1>4. e.calls \in Seq(ToolCall) /\ DOMAIN e.calls = 1..m /\ m \in Nat
    BY <1>3, LenProperties DEF AgentEntry
<1>5. \A k \in 1..m : results[k] \in Outcomes(e.calls[k]) /\ e.calls[k] \in ToolCall
    BY <1>4 DEF Act
<1>6. \A k \in 1..m : /\ results[k] \in Answers(e.calls[k].tool) \cup Rejections
                      /\ results[k] \in ToolResult
    BY <1>5, OutcomesFit
<1>7. results \in Seq(ToolResult) /\ Len(results) = m /\ DOMAIN results = 1..m
    BY <1>4, <1>6
<1>8. f \in AgentEntry /\ f.results = results /\ f.calls = e.calls
    BY <1>3, <1>7 DEF AgentEntry
<1>9. ~Open(f) /\ ResultsAnswer(f)
    BY <1>4, <1>6, <1>7, <1>8 DEF Open, ResultsAnswer
<1>10. msgs' = [msgs EXCEPT ![n] = f]
    BY <1>2 DEF Act
<1> HIDE DEF f, e, m
<1>11. msgs' \in Seq(AgentEntry) /\ Len(msgs') = n /\ msgs'[n] = f
       /\ \A i \in 1..(n - 1) : msgs'[i] = msgs[i]
    BY <1>2, <1>8, <1>10
<1>12. \A i \in 1..n : i \in 1..(n - 1) \/ i = n
    BY n \in Nat
<1>13. Messages(msgs') /\ AllClosed(msgs')
    BY <1>1, <1>9, <1>11, <1>12 DEF Messages, AllClosed
<1>14. AgentScalars' /\ node' = "observe"
    BY <1>1 DEF Act, AgentScalars, Goes
<1>15. GroupsFit'
    BY <1>13, <1>14 DEF GroupsFit
<1> QED BY <1>13, <1>14, <1>15, AgentTypedNext DEF AgentInvariant

\* After the tools nothing is open.
LEMMA ObserveKeeps ==
    ASSUME AgentInvariant, Observe
    PROVE  AgentInvariant'
<1>1. Messages(msgs) /\ AgentScalars
    BY AgentTyped DEF AgentInvariant
<1>2. Messages(msgs') /\ AllClosed(msgs')
    BY <1>1, RepairCloses DEF Observe
<1>3. looping' \in BOOLEAN /\ ended' \in BOOLEAN
    BY Zenon DEF Observe, LoopDetected, Terminal
<1>4. intent' \in Intent
    <2> DEFINE e == Last(msgs)
               planned == {k \in DOMAIN e.results : e.calls[k].tool = "planner"
                                                        /\ e.results[k] \in Intent}
    <2>1. Understood(e) = IF planned = {} THEN intent ELSE e.results[CHOOSE k \in planned : TRUE]
        BY DEF Understood
    <2>2. Understood(e) \in Intent
        BY <1>1, <2>1 DEF AgentScalars
    <2> QED BY <2>2 DEF Observe
<1>5. phase' \in {"reflect", "done"} /\ autoSearch' \in 0..MaxTurns /\ node' = "compress"
    BY <1>1, AgentAssumption DEF Observe, AgentScalars, Goes
<1>6. AgentScalars'
    BY <1>1, <1>3, <1>4, <1>5 DEF Observe, AgentScalars
<1>7. GroupsFit'
    BY <1>2, <1>5 DEF GroupsFit
<1> QED BY <1>2, <1>6, <1>7, AgentTypedNext DEF AgentInvariant

\* Compression leaves nothing open, and the run goes on or ends.
LEMMA CompressKeeps ==
    ASSUME AgentInvariant, NEW over \in BOOLEAN, Compress(over)
    PROVE  AgentInvariant'
<1>1. Messages(msgs) /\ AgentScalars /\ AllClosed(msgs) /\ phase \in {"reflect", "done"}
    BY AgentTyped DEF AgentInvariant, GroupsFit, Compress
<1>2. Messages(msgs') /\ AllClosed(msgs')
    BY <1>1, CompressionKeeps DEF Compress
<1>3. AgentScalars' /\ node' \in {"reflect", "idle"}
    BY <1>1, AgentAssumption DEF Compress, AgentScalars, Goes
<1>4. GroupsFit'
    BY <1>2, <1>3 DEF GroupsFit
<1> QED BY <1>2, <1>3, <1>4, AgentTypedNext DEF AgentInvariant

\* A search the graph adds is the only open group.
LEMMA AutoSearchKeeps ==
    ASSUME AgentInvariant, AutoSearch
    PROVE  AgentInvariant'
<1>1. Messages(msgs) /\ AgentScalars /\ AllClosed(msgs)
    BY AgentTyped DEF AgentInvariant, GroupsFit, AutoSearch
<1> DEFINE asked == <<Call("item_search", "own")>>
<1>2. asked \in Seq(ToolCall) /\ asked # <<>>
    BY DEF Call, ToolCall, AgentTool, ThinkTools
<1> HIDE DEF asked
<1>3. msgs' = Append(msgs, Decided(asked)) /\ node' = "act"
    BY DEF AutoSearch, Reflected, Goes, asked
<1>4. Messages(msgs)' /\ GroupsFit'
    BY <1>1, <1>2, <1>3, DecisionKeeps
<1>5. AgentScalars'
    BY <1>1, <1>3, AgentAssumption DEF AutoSearch, Reflected, AgentScalars
<1> QED BY <1>4, <1>5, AgentTypedNext DEF AgentInvariant

\* A step the graph forces is the only open group.
LEMMA ForcedKeeps ==
    ASSUME AgentInvariant, ReflectForced
    PROVE  AgentInvariant'
<1>1. Messages(msgs) /\ AgentScalars /\ AllClosed(msgs)
    BY AgentTyped DEF AgentInvariant, GroupsFit, ReflectForced, Reflecting
<1>2. PICK tool \in (IF SummaryFallback THEN {"chat_fallback"} ELSE Forced) :
          Reflected(<<Call(tool, "bare")>>, "act")
    BY DEF ReflectForced
<1>3. tool \in AgentTool
    BY DEF Forced, AgentTool, ThinkTools, ReflectTools
<1> DEFINE asked == <<Call(tool, "bare")>>
<1>4. asked \in Seq(ToolCall) /\ asked # <<>>
    BY <1>3 DEF Call, ToolCall
<1> HIDE DEF asked
<1>5. /\ msgs' = Append(msgs, Decided(asked)) /\ node' = "act" /\ phase' = "act"
      /\ UNCHANGED <<depth, looping, ended, intent, turn, disturbances>>
    BY <1>2 DEF Reflected, Goes, asked
<1>6. Messages(msgs)' /\ GroupsFit'
    BY <1>1, <1>4, <1>5, DecisionKeeps
<1>7. AgentScalars'
    BY <1>1, <1>5 DEF ReflectForced, AgentScalars
<1> QED BY <1>6, <1>7, AgentTypedNext DEF AgentInvariant

\* A decision of the second phase is the only open group.
LEMMA FreelyKeeps ==
    ASSUME AgentInvariant, NEW asked \in Decisions(ReflectTools),
           NEW next \in {"act", "think", "done"}, ReflectFreely(asked, next)
    PROVE  AgentInvariant'
<1>1. Messages(msgs) /\ AgentScalars /\ AllClosed(msgs)
    BY AgentTyped DEF AgentInvariant, GroupsFit, ReflectFreely, Reflecting
<1>2. asked \in Seq(ToolCall)
    BY DecisionsFit DEF AgentTool
<1>3. /\ msgs' = Append(msgs, Decided(asked)) /\ phase' = next
      /\ asked # <<>> => node' = "act"
      /\ asked = <<>> => node' \in {"idle", "think"}
      /\ UNCHANGED <<depth, looping, ended, intent, turn, disturbances, autoSearch>>
      /\ decision' = "reflect"
    BY DEF ReflectFreely, Reflected, Goes
<1>4. Messages(msgs)' /\ GroupsFit'
    BY <1>1, <1>2, <1>3, DecisionKeeps
<1>5. AgentScalars'
    BY <1>1, <1>3 DEF AgentScalars
<1> QED BY <1>4, <1>5, AgentTypedNext DEF AgentInvariant

\* Every step of the graph keeps the invariant.
LEMMA AgentKeeps ==
    ASSUME AgentInvariant, [AgentNext]_agentVars
    PROVE  AgentInvariant'
<1>1. CASE UNCHANGED agentVars
    <2>1. Messages(msgs) /\ AgentScalars
        BY AgentTyped DEF AgentInvariant
    <2>2. Messages(msgs') /\ AgentScalars' /\ GroupsFit'
        BY <1>1, <2>1 DEF agentVars, AgentScalars, GroupsFit, AgentInvariant
    <2> QED BY <2>2, AgentTypedNext DEF AgentInvariant
<1>2. CASE AgentNext
    BY <1>2, AgentRunStarts, InterruptKeeps, PrepareKeeps, ThinkKeeps, ActKeeps, ObserveKeeps,
       CompressKeeps, AutoSearchKeeps, ForcedKeeps, FreelyKeeps, Zenon DEF AgentNext
<1> QED BY <1>1, <1>2

\* For any budgets, limits, turns and interruptions: whenever the model is asked, every group
\* of its messages is closed, and the channels have their types.
THEOREM AgentInvariance == AgentSpec => []AgentInvariant
<1>1. AgentInit => AgentInvariant
    BY AgentStarts
<1>2. AgentInvariant /\ [AgentNext]_agentVars => AgentInvariant'
    BY AgentKeeps
<1> QED BY <1>1, <1>2, PTL DEF AgentSpec

\* The API never sees a tool call without its result (repair_incomplete_tool_groups,
\* _safe_boundary).
THEOREM GroupsAreClosed == AgentSpec => []ToolGroupsClosed
<1>1. AgentInvariant => ToolGroupsClosed
    <2> SUFFICES ASSUME AgentInvariant, node \in {"think", "reflect"}, NEW i \in DOMAIN msgs
                 PROVE  ~Open(msgs[i])
        BY DEF ToolGroupsClosed
    <2>1. AllClosed(msgs) /\ DOMAIN msgs = 1..Len(msgs)
        BY LenProperties DEF AgentInvariant, GroupsFit, Messages
    <2> QED BY <2>1 DEF AllClosed
<1> QED BY <1>1, AgentInvariance, PTL

-----------------------------------------------------------------------------
(***************************************************************************)
(* Sequences of sequences.                                                 *)
(***************************************************************************)
\* What holds of the empty sequence, and of one element more each time, holds of the sequence.
LEMMA EveryPrefix ==
    ASSUME NEW S, NEW s \in Seq(S), NEW G, <<>> \in G,
           \A n \in 0..(Len(s) - 1) :
               SubSeq(s, 1, n) \in G => Append(SubSeq(s, 1, n), s[n + 1]) \in G
    PROVE  s \in G
<1> SUFFICES ASSUME s \notin G PROVE FALSE
    OBVIOUS
<1> DEFINE Outside == {n \in Nat : n <= Len(s) /\ SubSeq(s, 1, n) \notin G}
<1>1. Len(s) \in Nat /\ DOMAIN s = 1..Len(s)
    BY LenProperties
<1>2. Len(s) \in Outside
    <2>1. SubSeq(s, 1, Len(s)) \notin G
        BY SubSeqFull
    <2> QED BY <1>1, <2>1
<1>3. PICK n \in Outside : \A m \in Outside : <<m, n>> \notin OpToRel(<, Nat)
    <2>1. Outside \subseteq Nat /\ Outside # {}
        BY <1>2
    <2>2. IsWellFoundedOn(OpToRel(<, Nat), Nat)
        BY NatLessThanWellFounded
    <2> HIDE DEF Outside
    <2> QED BY <2>1, <2>2, WFMin
<1>4. n # 0
    <2>1. SubSeq(s, 1, 0) = <<>>
        BY SubSeqEmpty
    <2> QED BY <2>1
<1>5. n - 1 \in Nat /\ n - 1 \in 0..(Len(s) - 1) /\ n \in 1..Len(s)
    BY <1>1, <1>4
<1>6. <<n - 1, n>> \in OpToRel(<, Nat)
    BY <1>5 DEF OpToRel
<1>7. SubSeq(s, 1, n - 1) \in G
    <2>1. n - 1 \notin Outside
        BY <1>3, <1>6
    <2> QED BY <1>1, <1>5, <2>1
<1>8. Append(SubSeq(s, 1, n - 1), s[(n - 1) + 1]) \in G
    BY <1>5, <1>7
<1>9. SubSeq(s, 1, n) = Append(SubSeq(s, 1, n - 1), s[n])
    <2>1. SubSeq(s, 1, n) = SubSeq(s, 1, n - 1) \o <<s[n]>>
        BY <1>1, <1>5, SubSeqRecursiveSecond
    <2>2. SubSeq(s, 1, n - 1) \in Seq(S) /\ s[n] \in S
        BY <1>1, <1>5, SubSeqProperties, ElementOfSeq
    <2> QED BY <2>1, <2>2, AppendIsConcat
<1>10. (n - 1) + 1 = n
    BY <1>1
<1> QED BY <1>8, <1>9, <1>10

\* The n-th value of f is the first n elements of q, one behind the other.
Flattens(q, f) ==
    f = [i \in 1..Len(q) |-> IF i = 1 THEN q[i] ELSE f[i - 1] \o q[i]]

\* There is such a function, and its values are sequences.
LEMMA FlatExists ==
    ASSUME NEW S, NEW q \in Seq(Seq(S))
    PROVE  \E f \in [1..Len(q) -> Seq(S)] : Flattens(q, f)
<1> DEFINE G == {r \in Seq(Seq(S)) : \E f \in [1..Len(r) -> Seq(S)] : Flattens(r, f)}
<1>1. <<>> \in G
    <2>1. <<>> \in Seq(Seq(S)) /\ Len(<<>>) = 0
        BY EmptySeq
    <2> DEFINE f == [i \in 1..Len(<<>>) |-> <<>>]
    <2>2. f \in [1..Len(<<>>) -> Seq(S)] /\ Flattens(<<>>, f)
        BY <2>1 DEF Flattens
    <2> QED BY <2>1, <2>2
<1>2. ASSUME NEW n \in 0..(Len(q) - 1), SubSeq(q, 1, n) \in G
      PROVE  Append(SubSeq(q, 1, n), q[n + 1]) \in G
    <2> DEFINE r == SubSeq(q, 1, n)
               s == q[n + 1]
               t == Append(r, s)
    <2>1. PICK f \in [1..Len(r) -> Seq(S)] : Flattens(r, f)
        BY <1>2
    <2>2. r \in Seq(Seq(S)) /\ s \in Seq(S) /\ Len(r) \in Nat
        BY <1>2, LenProperties, ElementOfSeq
    <2> HIDE DEF r, s
    <2>3. /\ t \in Seq(Seq(S)) /\ Len(t) = Len(r) + 1
          /\ \A i \in 1..Len(r) : t[i] = r[i]
          /\ t[Len(r) + 1] = s
        BY <2>2, AppendProperties
    <2> HIDE DEF t
    <2> DEFINE m == Len(r)
               last == IF m = 0 THEN s ELSE f[m] \o s
               g == [i \in 1..Len(t) |-> IF i <= m THEN f[i] ELSE last]
    <2>4. last \in Seq(S)
        <3>1. CASE m = 0
            BY <2>2, <3>1
        <3>2. CASE m # 0
            <4>1. m \in 1..Len(r)
                BY <2>2, <3>2
            <4>2. f[m] \in Seq(S)
                BY <2>1, <4>1
            <4> QED BY <2>2, <3>2, <4>2, ConcatProperties
        <3> QED BY <3>1, <3>2
    <2> HIDE DEF last
    <2>5. g \in [1..Len(t) -> Seq(S)]
        BY <2>2, <2>3, <2>4
    <2>6. ASSUME NEW i \in 1..Len(t)
          PROVE  g[i] = IF i = 1 THEN t[i] ELSE g[i - 1] \o t[i]
        <3>1. CASE i <= m
            <4>1. i \in 1..m /\ (i # 1 => i - 1 \in 1..m /\ i - 1 \in 1..Len(t))
                BY <2>2, <2>3, <3>1
            <4>2. f[i] = IF i = 1 THEN r[i] ELSE f[i - 1] \o r[i]
                BY <2>1, <4>1 DEF Flattens
            <4>3. g[i] = f[i] /\ (i # 1 => g[i - 1] = f[i - 1]) /\ t[i] = r[i]
                BY <2>2, <2>3, <3>1, <4>1
            <4> QED BY <4>2, <4>3
        <3>2. CASE ~(i <= m)
            <4>1. i = m + 1 /\ g[i] = last
                BY <2>2, <2>3, <3>2
            <4>2. CASE m = 0
                BY <2>3, <4>1, <4>2 DEF last
            <4>3. CASE m # 0
                <5>1. i # 1 /\ i - 1 = m /\ m \in 1..Len(t) /\ g[m] = f[m]
                    BY <2>2, <2>3, <4>1, <4>3
                <5> QED BY <2>3, <4>1, <4>3, <5>1 DEF last
            <4> QED BY <4>2, <4>3
        <3> QED BY <3>1, <3>2
    <2>7. Flattens(t, g)
        <3>1. DOMAIN g = 1..Len(t) /\ g = [i \in 1..Len(t) |-> g[i]]
            OBVIOUS
        <3> HIDE DEF g
        <3> QED BY <2>6, <3>1 DEF Flattens
    <2> HIDE DEF g
    <2> QED BY <2>3, <2>5, <2>7 DEF t, r, s
<1> HIDE DEF G
<1>3. q \in G
    BY <1>1, <1>2, EveryPrefix
<1> QED BY <1>3 DEF G

\* It is the one that FlattenSeq takes.
LEMMA FlatIs ==
    ASSUME NEW S, NEW q \in Seq(Seq(S)), Len(q) # 0
    PROVE  \E f : Flattens(q, f) /\ FlattenSeq(q) = f[Len(q)]
<1> DEFINE F == CHOOSE f : f = [i \in 1..Len(q) |-> IF i = 1 THEN q[i] ELSE f[i - 1] \o q[i]]
<1>1. \E f : f = [i \in 1..Len(q) |-> IF i = 1 THEN q[i] ELSE f[i - 1] \o q[i]]
    <2>1. PICK f \in [1..Len(q) -> Seq(S)] : Flattens(q, f)
        BY FlatExists
    <2> HIDE DEF F
    <2> QED BY <2>1 DEF Flattens
<1>2. F = [i \in 1..Len(q) |-> IF i = 1 THEN q[i] ELSE F[i - 1] \o q[i]]
    BY <1>1
<1>3. FlattenSeq(q) = F[Len(q)]
    BY DEF FlattenSeq
<1> HIDE DEF F
<1> QED BY <1>2, <1>3 DEF Flattens

\* On the elements two sequences share, the functions agree.
LEMMA FlatAgree ==
    ASSUME NEW S, NEW q \in Seq(Seq(S)), NEW t \in Seq(Seq(S)), Len(q) <= Len(t),
           \A i \in 1..Len(q) : t[i] = q[i],
           NEW f, Flattens(q, f), NEW g, Flattens(t, g)
    PROVE  \A i \in 1..Len(q) : g[i] = f[i]
<1> DEFINE Outside == {i \in Nat : i \in 1..Len(q) /\ g[i] # f[i]}
<1>1. Len(q) \in Nat /\ Len(t) \in Nat
    BY LenProperties
<1> SUFFICES ASSUME NEW i \in 1..Len(q), g[i] # f[i] PROVE FALSE
    OBVIOUS
<1> HIDE DEF Outside
<1>a. i \in Outside
    BY <1>1 DEF Outside
<1> USE DEF Outside
<1>2. PICK n \in Outside : \A m \in Outside : <<m, n>> \notin OpToRel(<, Nat)
    <2>1. Outside \subseteq Nat /\ Outside # {}
        BY <1>a
    <2>2. IsWellFoundedOn(OpToRel(<, Nat), Nat)
        BY NatLessThanWellFounded
    <2> HIDE DEF Outside
    <2> QED BY <2>1, <2>2, WFMin
<1>3. n \in 1..Len(q) /\ n \in 1..Len(t) /\ n \in Nat /\ g[n] # f[n]
    BY <1>1
<1>4. /\ f[n] = IF n = 1 THEN q[n] ELSE f[n - 1] \o q[n]
      /\ g[n] = IF n = 1 THEN t[n] ELSE g[n - 1] \o t[n]
    <2>1. f[n] = IF n = 1 THEN q[n] ELSE f[n - 1] \o q[n]
        BY <1>3 DEF Flattens
    <2>2. g[n] = IF n = 1 THEN t[n] ELSE g[n - 1] \o t[n]
        BY <1>3 DEF Flattens
    <2> QED BY <2>1, <2>2
<1>5. n # 1
    BY <1>3, <1>4
<1>6. n - 1 \in 1..Len(q) /\ n - 1 \in Nat
    BY <1>1, <1>3, <1>5
<1>7. <<n - 1, n>> \in OpToRel(<, Nat)
    BY <1>3, <1>6 DEF OpToRel
<1>8. g[n - 1] = f[n - 1]
    BY <1>2, <1>6, <1>7
<1> QED BY <1>3, <1>4, <1>5, <1>8

\* FlattenSeq, one sequence more each time.
LEMMA FlatAppended ==
    ASSUME NEW S, NEW q \in Seq(Seq(S)), NEW s \in Seq(S)
    PROVE  /\ FlattenSeq(q) \in Seq(S)
           /\ q = <<>> => FlattenSeq(q) = <<>>
           /\ FlattenSeq(Append(q, s)) = FlattenSeq(q) \o s
<1> DEFINE t == Append(q, s)
           n == Len(q)
<1>1. /\ t \in Seq(Seq(S)) /\ Len(t) = n + 1 /\ n \in Nat
      /\ \A i \in 1..n : t[i] = q[i]
      /\ t[n + 1] = s
    BY AppendProperties, LenProperties
<1>2. PICK g : Flattens(t, g) /\ FlattenSeq(t) = g[n + 1]
    <2> HIDE DEF t
    <2>1. Len(t) # 0
        BY <1>1
    <2> QED BY <1>1, <2>1, FlatIs
<1>3. g[n + 1] = IF n = 0 THEN s ELSE g[n] \o s
    <2>1. n + 1 \in 1..Len(t)
        BY <1>1
    <2> HIDE DEF t
    <2>2. ASSUME NEW k \in 1..Len(t)
          PROVE  g[k] = IF k = 1 THEN t[k] ELSE g[k - 1] \o t[k]
        BY <1>2 DEF Flattens
    <2>3. PICK k \in 1..Len(t) : k = n + 1
        BY <2>1
    <2>4. k - 1 = n /\ (k = 1 <=> n = 0) /\ t[k] = s
        BY <1>1, <2>3
    <2>5. g[k] = IF k = 1 THEN t[k] ELSE g[k - 1] \o t[k]
        BY <2>2
    <2> HIDE DEF n
    <2> QED BY <2>3, <2>4, <2>5
<1>4. CASE n = 0
    <2>1. q = <<>> /\ FlattenSeq(q) = <<>>
        <3>1. q = <<>>
            BY <1>4, EmptySeq
        <3> QED BY <3>1, <1>4 DEF FlattenSeq
    <2>2. <<>> \o s = s /\ <<>> \in Seq(S)
        BY ConcatEmptySeq, EmptySeq
    <2> QED BY <1>2, <1>3, <1>4, <2>1, <2>2
<1>5. CASE n # 0
    <2>1. PICK f : Flattens(q, f) /\ FlattenSeq(q) = f[n]
        BY <1>5, FlatIs
    <2>2. PICK h \in [1..n -> Seq(S)] : Flattens(q, h)
        BY FlatExists
    <2>3. n \in 1..n /\ n <= Len(t) /\ n <= n
        BY <1>1, <1>5
    <2>4. h[n] = f[n]
        <3>1. \A i \in 1..Len(q) : h[i] = f[i]
            BY <2>1, <2>2, <2>3, FlatAgree
        <3> QED BY <2>3, <3>1
    <2>5. g[n] = f[n]
        <3> HIDE DEF t
        <3>1. t \in Seq(Seq(S)) /\ Len(q) <= Len(t) /\ \A i \in 1..Len(q) : t[i] = q[i]
            BY <1>1, <2>3
        <3>2. Flattens(t, g) /\ Flattens(q, f)
            BY <1>2, <2>1
        <3>3. \A i \in 1..Len(q) : g[i] = f[i]
            BY <3>1, <3>2, FlatAgree
        <3> QED BY <2>3, <3>3
    <2>6. q # <<>>
        BY <1>5, EmptySeq
    <2>7. FlattenSeq(q) \in Seq(S)
        BY <2>1, <2>2, <2>3, <2>4
    <2> QED BY <1>2, <1>3, <1>5, <2>1, <2>5, <2>6, <2>7
<1> QED BY <1>4, <1>5

-----------------------------------------------------------------------------
(***************************************************************************)
(* The results of the messages.                                            *)
(***************************************************************************)
ResultRow == [tool : AgentTool, arg : {"bare", "own"}, result : ToolResult]

ResultRows(e) == [k \in DOMAIN e.results |->
    [tool |-> e.calls[k].tool, arg |-> e.calls[k].arg, result |-> e.results[k]]]

\* A group asks for one tool at a time.
OneCall(ms) == \A i \in 1..Len(ms) : Len(ms[i].calls) <= 1

Asks(e, tools)     == e.calls # <<>> /\ e.calls[1].tool \in tools
Replied(e, tools) == e.results # <<>> /\ Asks(e, tools)

\* The largest of some numbers of an interval is one of them.
LEMMA MaxOf ==
    ASSUME NEW n \in Nat, NEW I \in SUBSET (1..n), I # {}
    PROVE  Max(I) \in I /\ \A i \in I : Max(I) >= i
<1> DEFINE Below == {n - i : i \in I}
<1>1. PICK m \in Below : \A k \in Below : <<k, m>> \notin OpToRel(<, Nat)
    <2>1. Below \subseteq Nat /\ Below # {}
        OBVIOUS
    <2>2. IsWellFoundedOn(OpToRel(<, Nat), Nat)
        BY NatLessThanWellFounded
    <2> HIDE DEF Below
    <2> QED BY <2>1, <2>2, WFMin
<1>2. PICK x \in I : m = n - x
    BY <1>1
<1>3. ASSUME NEW i \in I
      PROVE  x >= i
    <2>1. n - i \in Below /\ n - i \in Nat /\ m \in Nat
        BY <1>2
    <2>2. ~(n - i < m)
        BY <1>1, <2>1 DEF OpToRel
    <2> QED BY <1>2, <2>2
<1>4. \E y \in I : \A i \in I : y >= i
    BY <1>3
<1> QED BY <1>4 DEF Max

\* A record for every result of a message.
LEMMA RowsFit ==
    ASSUME NEW e \in AgentEntry, ResultsAnswer(e)
    PROVE  /\ ResultRows(e) \in Seq(ResultRow) /\ Len(ResultRows(e)) = Len(e.results)
           /\ Len(e.results) \in Nat /\ Len(e.results) <= Len(e.calls)
           /\ e.results = <<>> => ResultRows(e) = <<>>
           /\ e.results # <<>> => 1 \in DOMAIN e.results /\ 1 \in DOMAIN e.calls
<1>1. e.calls \in Seq(ToolCall) /\ e.results \in Seq(ToolResult)
    BY DEF AgentEntry
<1>2. /\ DOMAIN e.calls = 1..Len(e.calls) /\ Len(e.calls) \in Nat
      /\ DOMAIN e.results = 1..Len(e.results) /\ Len(e.results) \in Nat
    BY <1>1, LenProperties
<1>3. \A k \in DOMAIN e.results : k \in DOMAIN e.calls
    BY DEF ResultsAnswer
<1>4. Len(e.results) <= Len(e.calls)
    BY <1>2, <1>3
<1>5. \A k \in DOMAIN e.results : e.results[k] \in ToolResult /\ e.calls[k] \in ToolCall
    BY <1>1, <1>2, <1>3, ElementOfSeq
<1>6. \A k \in DOMAIN e.results :
          [tool |-> e.calls[k].tool, arg |-> e.calls[k].arg, result |-> e.results[k]] \in ResultRow
    BY <1>5 DEF ToolCall, ResultRow
<1>7. ResultRows(e) \in Seq(ResultRow) /\ Len(ResultRows(e)) = Len(e.results)
    BY <1>2, <1>6 DEF ResultRows
<1>8. ResultRows(e) = <<>> \/ Len(ResultRows(e)) # 0
    BY <1>7, EmptySeq
<1>9. e.results = <<>> \/ Len(e.results) # 0
    BY <1>1, EmptySeq
<1> QED BY <1>2, <1>3, <1>4, <1>7, <1>8, <1>9, EmptySeq

\* The records of all messages, one message more each time.
LEMMA RecordsAppended ==
    ASSUME NEW ms, Messages(ms), NEW e \in AgentEntry, ResultsAnswer(e)
    PROVE  /\ Records(ms) \in Seq(ResultRow)
           /\ ms = <<>> => Records(ms) = <<>>
           /\ Records(Append(ms, e)) = Records(ms) \o ResultRows(e)
<1> DEFINE q == [i \in DOMAIN ms |-> ResultRows(ms[i])]
           t == Append(ms, e)
           r == [i \in DOMAIN t |-> ResultRows(t[i])]
<1>1. /\ ms \in Seq(AgentEntry) /\ DOMAIN ms = 1..Len(ms) /\ Len(ms) \in Nat
      /\ \A i \in 1..Len(ms) : ResultsAnswer(ms[i]) /\ ms[i] \in AgentEntry
    BY LenProperties, ElementOfSeq DEF Messages
<1>2. q \in Seq(Seq(ResultRow)) /\ Len(q) = Len(ms)
    <2>1. \A i \in 1..Len(ms) : ResultRows(ms[i]) \in Seq(ResultRow)
        BY <1>1, RowsFit
    <2> QED BY <1>1, <2>1
<1>3. ResultRows(e) \in Seq(ResultRow)
    BY RowsFit
<1>4. /\ t \in Seq(AgentEntry) /\ DOMAIN t = 1..(Len(ms) + 1)
      /\ \A i \in 1..Len(ms) : t[i] = ms[i]
      /\ t[Len(ms) + 1] = e
    BY <1>1, AppendProperties, LenProperties
<1> HIDE DEF t
<1>5. r = Append(q, ResultRows(e))
    <2> DEFINE a == Append(q, ResultRows(e))
    <2>1. /\ a \in Seq(Seq(ResultRow)) /\ Len(a) = Len(ms) + 1
          /\ \A i \in 1..Len(ms) : a[i] = q[i]
          /\ a[Len(ms) + 1] = ResultRows(e)
        <3> HIDE DEF q
        <3> QED BY <1>2, <1>3, AppendProperties
    <2>2. DOMAIN a = 1..(Len(ms) + 1) /\ a = [i \in 1..(Len(ms) + 1) |-> a[i]]
        <3> HIDE DEF a
        <3>1. DOMAIN a = 1..Len(a) /\ a \in [1..Len(a) -> Seq(ResultRow)]
            BY <2>1, LenProperties
        <3> QED BY <2>1, <3>1
    <2>3. \A i \in 1..(Len(ms) + 1) : a[i] = ResultRows(t[i])
        <3>1. \A i \in 1..(Len(ms) + 1) : i \in 1..Len(ms) \/ i = Len(ms) + 1
            BY <1>1
        <3>2. \A i \in 1..Len(ms) : q[i] = ResultRows(ms[i])
            BY <1>1
        <3> HIDE DEF a, q
        <3> QED BY <1>4, <2>1, <3>1, <3>2
    <2> HIDE DEF a
    <2>4. r = a
        BY <1>4, <2>2, <2>3
    <2> QED BY <2>4 DEF a
<1>6. Records(ms) = FlattenSeq(q) /\ Records(t) = FlattenSeq(r)
    BY DEF Records, ResultRows
<1>7. /\ FlattenSeq(q) \in Seq(ResultRow)
      /\ q = <<>> => FlattenSeq(q) = <<>>
      /\ FlattenSeq(Append(q, ResultRows(e))) = FlattenSeq(q) \o ResultRows(e)
    <2> HIDE DEF q
    <2> QED BY <1>2, <1>3, FlatAppended
<1>8. ms = <<>> => q = <<>>
    <2> HIDE DEF q
    <2> QED BY <1>2, EmptySeq
<1> HIDE DEF q, r
<1> QED BY <1>5, <1>6, <1>7, <1>8 DEF t

\* Where the last record of some tools is.
LastOf(rs, tools) == SelectLastInSeq(rs, LAMBDA r : r.tool \in tools)

\* It is of them, and no later one is.
LEMMA LastOfIs ==
    ASSUME NEW rs \in Seq(ResultRow), NEW tools
    PROVE  \/ LastOf(rs, tools) = 0 /\ \A i \in 1..Len(rs) : rs[i].tool \notin tools
           \/ /\ LastOf(rs, tools) \in 1..Len(rs) /\ rs[LastOf(rs, tools)].tool \in tools
              /\ \A i \in 1..Len(rs) : i > LastOf(rs, tools) => rs[i].tool \notin tools
<1> DEFINE I == {i \in 1..Len(rs) : rs[i].tool \in tools}
<1>1. LastOf(rs, tools) = IF I # {} THEN Max(I) ELSE 0
    BY DEF LastOf, SelectLastInSeq
<1>2. Len(rs) \in Nat
    BY LenProperties
<1>3. CASE I = {}
    BY <1>1, <1>3
<1>4. CASE I # {}
    <2>1. I \in SUBSET (1..Len(rs))
        OBVIOUS
    <2>2. Max(I) \in I /\ \A i \in I : Max(I) >= i
        <3> HIDE DEF I
        <3> QED BY <1>2, <1>4, <2>1, MaxOf
    <2>3. LastOf(rs, tools) \in I /\ \A i \in I : LastOf(rs, tools) >= i
        BY <1>1, <1>4, <2>2
    <2>4. \A i \in 1..Len(rs) : i > LastOf(rs, tools) => i \notin I
        BY <1>2, <2>3
    <2> QED BY <2>3, <2>4
<1> QED BY <1>3, <1>4

\* The latest result, one message more each time.
LEMMA LatestAppended ==
    ASSUME NEW ms, Messages(ms), NEW e \in AgentEntry, ResultsAnswer(e), Len(e.calls) <= 1,
           NEW tools
    PROVE  Latest(Append(ms, e), tools) = IF Replied(e, tools) THEN e.results[1]
                                          ELSE Latest(ms, tools)
<1> DEFINE rs == Records(ms)
           r == ResultRows(e)
           all == Records(Append(ms, e))
           n == Len(rs)
<1>1. rs \in Seq(ResultRow) /\ all = rs \o r /\ r \in Seq(ResultRow) /\ n \in Nat
    BY RecordsAppended, RowsFit, LenProperties
<1>2. /\ Latest(ms, tools) = IF LastOf(rs, tools) = 0 THEN "none"
                             ELSE rs[LastOf(rs, tools)].result
      /\ Latest(Append(ms, e), tools) = IF LastOf(all, tools) = 0 THEN "none"
                                        ELSE all[LastOf(all, tools)].result
    BY DEF Latest, LastOf
<1>3. Len(r) = Len(e.results) /\ Len(r) \in Nat /\ Len(r) <= Len(e.calls) /\ Len(e.calls) \in Nat
    <2>1. e.calls \in Seq(ToolCall)
        BY DEF AgentEntry
    <2> QED BY <2>1, RowsFit, LenProperties
<1>4. CASE e.results = <<>>
    <2>1. r = <<>>
        BY <1>4, RowsFit
    <2> HIDE DEF rs, r, all
    <2>2. all = rs
        BY <1>1, <2>1, ConcatEmptySeq
    <2> QED BY <1>2, <1>4, <2>2 DEF Replied
<1>5. CASE e.results # <<>>
    <2>1. /\ Len(r) = 1 /\ r[1].tool = e.calls[1].tool /\ r[1].result = e.results[1]
          /\ e.calls # <<>>
        <3>1. 1 \in DOMAIN e.results /\ 1 \in DOMAIN e.calls
            BY <1>5, RowsFit
        <3>2. r[1] = [tool |-> e.calls[1].tool, arg |-> e.calls[1].arg, result |-> e.results[1]]
            BY <3>1 DEF ResultRows
        <3>3. e.results \in Seq(ToolResult) /\ e.calls \in Seq(ToolCall)
            BY DEF AgentEntry
        <3>4. Len(e.results) # 0 /\ e.calls # <<>>
            BY <3>1, <3>3, LenProperties, EmptySeq
        <3>5. Len(r) = 1
            <4> HIDE DEF r
            <4>1. Len(r) # 0 /\ Len(r) <= 1
                BY <1>3, <3>4
            <4>2. PICK k \in Nat : k = Len(r)
                BY <1>3
            <4>3. k = 1
                BY <4>1, <4>2
            <4> QED BY <4>2, <4>3
        <3> QED BY <3>2, <3>4, <3>5
    <2> HIDE DEF rs, r, all
    <2>2. /\ all \in Seq(ResultRow) /\ Len(all) = n + 1
          /\ \A i \in 1..(n + 1) : all[i] = IF i <= n THEN rs[i] ELSE r[i - n]
        <3>1. /\ rs \o r \in Seq(ResultRow) /\ Len(rs \o r) = Len(rs) + Len(r)
              /\ \A i \in 1..(Len(rs) + Len(r)) :
                     (rs \o r)[i] = IF i <= Len(rs) THEN rs[i] ELSE r[i - Len(rs)]
            BY <1>1, ConcatProperties
        <3> QED BY <1>1, <2>1, <3>1
    <2> HIDE DEF n
    <2>3. all[n + 1] = r[1] /\ \A i \in 1..n : all[i] = rs[i]
        <3>1. n + 1 \in 1..(n + 1) /\ ~(n + 1 <= n) /\ (n + 1) - n = 1
            BY <1>1
        <3>2. all[n + 1] = r[(n + 1) - n]
            BY <2>2, <3>1
        <3>3. \A i \in 1..n : i \in 1..(n + 1) /\ i <= n
            BY <1>1
        <3> QED BY <2>2, <3>1, <3>2, <3>3
    <2> DEFINE x == LastOf(all, tools)
               y == LastOf(rs, tools)
    <2>4. \/ x = 0 /\ \A i \in 1..(n + 1) : all[i].tool \notin tools
          \/ /\ x \in 1..(n + 1) /\ all[x].tool \in tools
             /\ \A i \in 1..(n + 1) : i > x => all[i].tool \notin tools
        BY <2>2, LastOfIs
    <2>5. \/ y = 0 /\ \A i \in 1..n : rs[i].tool \notin tools
          \/ /\ y \in 1..n /\ rs[y].tool \in tools
             /\ \A i \in 1..n : i > y => rs[i].tool \notin tools
        BY <1>1, LastOfIs DEF n
    <2>a. /\ Latest(ms, tools) = IF y = 0 THEN "none" ELSE rs[y].result
          /\ Latest(Append(ms, e), tools) = IF x = 0 THEN "none" ELSE all[x].result
        BY <1>2
    <2> HIDE DEF x, y
    <2>b. n + 1 \in 1..(n + 1)
        BY <1>1
    <2>6. CASE e.calls[1].tool \in tools
        <3>1. all[n + 1].tool \in tools
            BY <2>1, <2>3, <2>6
        <3>2. x \in 1..(n + 1) /\ ~(n + 1 > x)
            BY <2>4, <2>b, <3>1
        <3>3. x = n + 1
            BY <1>1, <3>2
        <3>4. x # 0
            BY <1>1, <3>3
        <3>5. all[x].result = e.results[1]
            BY <2>1, <2>3, <3>3
        <3> QED BY <2>a, <1>5, <2>1, <2>6, <3>4, <3>5 DEF Replied, Asks
    <2>7. CASE e.calls[1].tool \notin tools
        <3>1. all[n + 1].tool \notin tools
            BY <2>1, <2>3, <2>7
        <3>2. x = y
            <4>1. x # n + 1
                <5> SUFFICES ASSUME x = n + 1 PROVE FALSE
                    OBVIOUS
                <5>1. x # 0
                    BY <1>1
                <5>2. all[x].tool \in tools
                    BY <2>4, <5>1
                <5> QED BY <3>1, <5>2
            <4>2. x # 0 => x \in 1..n /\ rs[x].tool \in tools
                <5>1. x # 0 => x \in 1..n
                    BY <1>1, <2>4, <4>1
                <5> QED BY <2>3, <2>4, <5>1
            <4>3. y # 0 => y \in 1..n /\ y \in 1..(n + 1) /\ all[y].tool \in tools
                <5>1. y # 0 => y \in 1..n /\ y \in 1..(n + 1)
                    BY <1>1, <2>5
                <5> QED BY <2>3, <2>5, <5>1
            <4>4. x # 0 => y # 0 /\ ~(x > y)
                BY <2>5, <4>2
            <4>5. y # 0 => x # 0 /\ ~(y > x)
                BY <2>4, <4>3
            <4> QED BY <1>1, <4>2, <4>3, <4>4, <4>5
        <3>3. y = 0 \/ y \in 1..n
            BY <2>5
        <3>4. y # 0 => y \in 1..n /\ all[y] = rs[y]
            BY <2>3, <3>3
        <3> QED BY <2>a, <2>7, <3>2, <3>4 DEF Replied, Asks
    <2> QED BY <2>6, <2>7
<1> QED BY <1>4, <1>5

\* The latest result is that of the last message with an answer of these tools.
LatestGiven(ms, tools, x) ==
    \/ x = "none" /\ \A i \in 1..Len(ms) : ~Replied(ms[i], tools)
    \/ \E i \in 1..Len(ms) :
           /\ Replied(ms[i], tools) /\ x = ms[i].results[1]
           /\ \A j \in 1..Len(ms) : j > i => ~Replied(ms[j], tools)

\* One message more each time.
LEMMA GivenAppended ==
    ASSUME NEW ms \in Seq(AgentEntry), NEW e \in AgentEntry, NEW tools, NEW x,
           LatestGiven(ms, tools, x)
    PROVE  LatestGiven(Append(ms, e), tools, IF Replied(e, tools) THEN e.results[1] ELSE x)
<1> DEFINE t == Append(ms, e)
           n == Len(ms)
<1>1. /\ Len(t) = n + 1 /\ n \in Nat /\ t[n + 1] = e
      /\ \A i \in 1..n : t[i] = ms[i]
    BY AppendProperties, LenProperties
<1> HIDE DEF t, n
<1>2. \A i \in 1..(n + 1) : i \in 1..n \/ i = n + 1
    BY <1>1
<1>3. n + 1 \in 1..(n + 1) /\ \A i \in 1..n : i \in 1..(n + 1) /\ ~(i > n + 1) /\ n + 1 > i
    BY <1>1
<1>4. ~(n + 1 > n + 1)
    BY <1>1
<1>5. CASE Replied(e, tools)
    <2>1. Replied(t[n + 1], tools) /\ e.results[1] = t[n + 1].results[1]
        BY <1>1, <1>5
    <2>2. \A j \in 1..(n + 1) : j > n + 1 => ~Replied(t[j], tools)
        BY <1>2, <1>3, <1>4
    <2> QED BY <1>1, <1>3, <1>5, <2>1, <2>2 DEF LatestGiven, t
<1>6. CASE ~Replied(e, tools)
    <2>1. CASE x = "none" /\ \A i \in 1..n : ~Replied(ms[i], tools)
        <3>1. \A i \in 1..(n + 1) : ~Replied(t[i], tools)
            BY <1>1, <1>2, <1>6, <2>1
        <3> QED BY <1>1, <1>6, <2>1, <3>1 DEF LatestGiven, t
    <2>2. ASSUME NEW i \in 1..n, Replied(ms[i], tools), x = ms[i].results[1],
                 \A j \in 1..n : j > i => ~Replied(ms[j], tools)
          PROVE  LatestGiven(t, tools, x)
        <3>1. Replied(t[i], tools) /\ x = t[i].results[1] /\ i \in 1..(n + 1)
            BY <1>1, <1>3, <2>2
        <3>2. \A j \in 1..(n + 1) : j > i => ~Replied(t[j], tools)
            BY <1>1, <1>2, <1>6, <2>2
        <3> QED BY <1>1, <3>1, <3>2 DEF LatestGiven
    <2> QED BY <1>6, <2>1, <2>2 DEF LatestGiven, n, t
<1> QED BY <1>5, <1>6

\* What the graph reads is the result of one of its messages.
LEMMA LatestIs ==
    ASSUME NEW ms, Messages(ms), OneCall(ms), NEW tools
    PROVE  LatestGiven(ms, tools, Latest(ms, tools))
<1> DEFINE G == {m \in Seq(AgentEntry) : Messages(m) /\ LatestGiven(m, tools, Latest(m, tools))}
<1>1. /\ ms \in Seq(AgentEntry) /\ Len(ms) \in Nat
      /\ \A i \in 1..Len(ms) : ms[i] \in AgentEntry /\ ResultsAnswer(ms[i])
    BY LenProperties, ElementOfSeq DEF Messages
<1>2. <<>> \in G
    <2>1. <<>> \in Seq(AgentEntry) /\ Len(<<>>) = 0 /\ Messages(<<>>)
        BY EmptySeq DEF Messages
    <2>2. Records(<<>>) = <<>>
        <3>1. Entry("text") \in AgentEntry /\ ResultsAnswer(Entry("text"))
            BY EntriesFit
        <3> QED BY <2>1, <3>1, RecordsAppended
    <2>3. <<>> \in Seq(ResultRow)
        BY EmptySeq
    <2>4. LastOf(<<>>, tools) = 0
        <3>1. LastOf(<<>>, tools) = 0 \/ LastOf(<<>>, tools) \in 1..Len(<<>>)
            BY <2>3, LastOfIs
        <3>2. 1..Len(<<>>) = {}
            BY <2>1
        <3> QED BY <3>1, <3>2
    <2>5. Latest(<<>>, tools) = "none"
        BY <2>2, <2>4 DEF Latest, LastOf
    <2>6. LatestGiven(<<>>, tools, "none")
        BY <2>1 DEF LatestGiven
    <2> QED BY <2>1, <2>5, <2>6
<1>3. ASSUME NEW n \in 0..(Len(ms) - 1), SubSeq(ms, 1, n) \in G
      PROVE  Append(SubSeq(ms, 1, n), ms[n + 1]) \in G
    <2> DEFINE m == SubSeq(ms, 1, n)
               e == ms[n + 1]
    <2>1. m \in Seq(AgentEntry) /\ Messages(m) /\ LatestGiven(m, tools, Latest(m, tools))
        BY <1>3
    <2>2. n + 1 \in 1..Len(ms)
        BY <1>1
    <2>3. e \in AgentEntry /\ ResultsAnswer(e) /\ Len(e.calls) <= 1
        BY <1>1, <2>2 DEF OneCall
    <2> HIDE DEF m, e
    <2>4. Messages(Append(m, e)) /\ Append(m, e) \in Seq(AgentEntry)
        BY <2>1, <2>3, EntryAdded, AppendProperties
    <2>5. Latest(Append(m, e), tools) = IF Replied(e, tools) THEN e.results[1]
                                        ELSE Latest(m, tools)
        BY <2>1, <2>3, LatestAppended
    <2>6. LatestGiven(Append(m, e), tools, Latest(Append(m, e), tools))
        BY <2>1, <2>3, <2>5, GivenAppended
    <2> QED BY <2>4, <2>6 DEF m, e
<1> HIDE DEF G
<1>4. ms \in G
    BY <1>1, <1>2, <1>3, EveryPrefix
<1> QED BY <1>4 DEF G

\* No result is "none".
LEMMA NoneIsNoResult == "none" \notin ToolResult
<1>1. ASSUME NEW tool \in AgentTool
      PROVE  "none" \notin Answers(tool)
    <2>1. "none" \notin Planned
        BY DEF Planned, Understanding
    <2> QED BY <2>1, <1>1 DEF Answers, Summarised, SearchTools, AgentTool
<1>2. "none" \notin ToolAnswer
    BY <1>1 DEF ToolAnswer
<1> QED BY <1>2 DEF ToolResult, Rejections

\* There is no result exactly when no message has an answer.
LEMMA NoneIsGiven ==
    ASSUME NEW ms, Messages(ms), NEW tools, NEW x, LatestGiven(ms, tools, x)
    PROVE  x = "none" <=> \A i \in 1..Len(ms) : ~Replied(ms[i], tools)
<1>1. ASSUME NEW i \in 1..Len(ms), Replied(ms[i], tools)
      PROVE  ms[i].results[1] # "none"
    <2>1. ms[i] \in AgentEntry
        BY ElementOfSeq DEF Messages
    <2>2. ms[i].results \in Seq(ToolResult) /\ ms[i].results # <<>>
        BY <1>1, <2>1 DEF AgentEntry, Replied
    <2>3. 1 \in 1..Len(ms[i].results)
        BY <2>2, EmptySeq
    <2>4. ms[i].results[1] \in ToolResult
        BY <2>2, <2>3, ElementOfSeq
    <2> QED BY <2>4, NoneIsNoResult
<1> QED BY <1>1 DEF LatestGiven

\* The messages of this turn have no question behind them.
Since(ms, i) == \A h \in 1..Len(ms) : h >= i => ms[h].kind # "human"

\* The current turn is what is behind the last question.
LEMMA TurnIs ==
    ASSUME NEW ms, Messages(ms)
    PROVE  \E h \in 0..Len(ms) :
               /\ CurrentTurn(ms) = SubSeq(ms, h + 1, Len(ms))
               /\ h # 0 => ms[h].kind = "human"
               /\ \A i \in 1..Len(ms) : i > h => ms[i].kind # "human"
<1> DEFINE I == {i \in 1..Len(ms) : ms[i].kind = "human"}
           h == IF I # {} THEN Max(I) ELSE 0
<1>1. Len(ms) \in Nat
    BY LenProperties DEF Messages
<1>2. CurrentTurn(ms) = SubSeq(ms, h + 1, Len(ms))
    BY DEF CurrentTurn, SelectLastInSeq
<1>3. CASE I = {}
    <2>1. h = 0 /\ 0 \in 0..Len(ms)
        BY <1>1, <1>3
    <2>2. \A i \in 1..Len(ms) : ms[i].kind # "human"
        BY <1>3
    <2> HIDE DEF h, I
    <2> QED BY <1>2, <2>1, <2>2
<1>4. CASE I # {}
    <2>1. I \in SUBSET (1..Len(ms))
        OBVIOUS
    <2>2. Max(I) \in I /\ \A i \in I : Max(I) >= i
        <3> HIDE DEF I
        <3> QED BY <1>1, <1>4, <2>1, MaxOf
    <2>3. h \in I /\ \A i \in I : h >= i
        <3> HIDE DEF I
        <3> QED BY <1>4, <2>2
    <2> HIDE DEF h
    <2>4. h \in 1..Len(ms) /\ ms[h].kind = "human"
        BY <2>3
    <2>5. \A i \in 1..Len(ms) : i > h => i \notin I
        BY <1>1, <2>3, <2>4
    <2>6. \A i \in 1..Len(ms) : i > h => ms[i].kind # "human"
        BY <2>5
    <2>7. h \in 0..Len(ms)
        BY <1>1, <2>4
    <2> QED BY <1>2, <2>4, <2>6, <2>7
<1> QED BY <1>3, <1>4

\* The same of what the graph reads of the current turn.
TurnGiven(ms, tools, x) ==
    \/ x = "none" /\ \A i \in 1..Len(ms) : Since(ms, i) => ~Replied(ms[i], tools)
    \/ \E i \in 1..Len(ms) :
           /\ Since(ms, i) /\ Replied(ms[i], tools) /\ x = ms[i].results[1]
           /\ \A j \in 1..Len(ms) : j > i => ~Replied(ms[j], tools)

\* What the graph reads of the current turn is the result of a group behind its question.
LEMMA TurnLatest ==
    ASSUME NEW ms, Messages(ms), OneCall(ms), NEW tools
    PROVE  /\ TurnGiven(ms, tools, Latest(CurrentTurn(ms), tools))
           /\ Messages(CurrentTurn(ms)) /\ OneCall(CurrentTurn(ms))
           /\ LatestGiven(CurrentTurn(ms), tools, Latest(CurrentTurn(ms), tools))
<1> DEFINE t == CurrentTurn(ms)
           n == Len(ms)
           x == Latest(t, tools)
<1>1. PICK h \in 0..n : /\ t = SubSeq(ms, h + 1, n)
                        /\ h # 0 => ms[h].kind = "human"
                        /\ \A i \in 1..n : i > h => ms[i].kind # "human"
    BY TurnIs
<1>2. /\ ms \in Seq(AgentEntry) /\ n \in Nat
      /\ \A i \in 1..n : ms[i] \in AgentEntry /\ ResultsAnswer(ms[i])
    BY LenProperties, ElementOfSeq DEF Messages
<1> HIDE DEF n
<1>3. /\ t \in Seq(AgentEntry) /\ Len(t) = n - h
      /\ \A i \in 1..(n - h) : t[i] = ms[h + i]
    <2>1. \A i \in (h + 1)..n : i \in 1..n /\ ms[i] \in AgentEntry
        BY <1>2
    <2> DEFINE s == SubSeq(ms, h + 1, n)
    <2>2. /\ s \in Seq(AgentEntry)
          /\ Len(s) = IF h + 1 <= n THEN n - (h + 1) + 1 ELSE 0
          /\ \A i \in 1..(n - (h + 1) + 1) : s[i] = ms[(h + 1) + i - 1]
        BY <1>1, <1>2, <2>1, SubSeqProperties
    <2> HIDE DEF s
    <2>3. n - (h + 1) + 1 = n - h /\ (~(h + 1 <= n) => n - h = 0)
        BY <1>1, <1>2
    <2>4. \A i \in 1..(n - h) : (h + 1) + i - 1 = h + i
        BY <1>1, <1>2
    <2>5. t = s
        BY <1>1 DEF s
    <2> HIDE DEF t
    <2> QED BY <2>2, <2>3, <2>4, <2>5
<1> HIDE DEF t
<1>4. \A i \in 1..(n - h) : h + i \in 1..n /\ h + i > h
    BY <1>1, <1>2
<1>5. Messages(t) /\ OneCall(t)
    <2>1. \A i \in 1..Len(t) : ResultsAnswer(t[i]) /\ Len(t[i].calls) <= 1
        BY <1>2, <1>3, <1>4 DEF OneCall, n
    <2> QED BY <1>3, <2>1 DEF Messages, OneCall
<1>6. LatestGiven(t, tools, x)
    BY <1>5, LatestIs
<1>7. \A i \in 1..n : Since(ms, i) <=> i > h
    <2>1. ASSUME NEW i \in 1..n, i > h
          PROVE  Since(ms, i)
        <3>1. \A k \in 1..n : k >= i => k > h
            BY <1>1, <1>2, <2>1
        <3> QED BY <1>1, <3>1 DEF Since, n
    <2>2. ASSUME NEW i \in 1..n, ~(i > h)
          PROVE  ~Since(ms, i)
        <3>1. h \in 1..n /\ h >= i /\ h # 0
            BY <1>1, <1>2, <2>2
        <3> QED BY <1>1, <3>1 DEF Since, n
    <2> QED BY <2>1, <2>2
<1>8. \A i \in 1..n : i > h => i - h \in 1..(n - h) /\ h + (i - h) = i
    BY <1>1, <1>2
<1>9. \A i \in 1..n : i > h => t[i - h] = ms[i]
    BY <1>3, <1>8
<1> HIDE DEF x
<1>10. CASE x = "none" /\ \A i \in 1..Len(t) : ~Replied(t[i], tools)
    <2>1. \A i \in 1..n : Since(ms, i) => ~Replied(ms[i], tools)
        BY <1>3, <1>7, <1>8, <1>9, <1>10
    <2>2. TurnGiven(ms, tools, x)
        BY <1>10, <2>1 DEF TurnGiven, n
    <2> QED BY <1>5, <1>6, <2>2 DEF x, t
<1>11. ASSUME NEW i \in 1..Len(t), Replied(t[i], tools), x = t[i].results[1],
              \A j \in 1..Len(t) : j > i => ~Replied(t[j], tools)
       PROVE  TurnGiven(ms, tools, x)
    <2>1. h + i \in 1..n /\ Since(ms, h + i) /\ t[i] = ms[h + i]
        BY <1>3, <1>4, <1>7, <1>11
    <2>2. ASSUME NEW j \in 1..n, j > h + i
          PROVE  ~Replied(ms[j], tools)
        <3>1. j > h /\ j - h > i /\ j - h \in 1..Len(t)
            BY <1>1, <1>2, <1>3, <1>8, <2>2, <1>11
        <3> QED BY <1>9, <1>11, <3>1
    <2> QED BY <1>11, <2>1, <2>2 DEF TurnGiven, n
<1>12. TurnGiven(ms, tools, x)
    BY <1>6, <1>10, <1>11 DEF LatestGiven, x, t
<1> QED BY <1>5, <1>6, <1>12 DEF x, t

-----------------------------------------------------------------------------
(***************************************************************************)
(* How long a run is.                                                      *)
(***************************************************************************)
Gave(e, tool, results) == Replied(e, {tool}) /\ e.results[1] \in results

\* Nothing is picked behind a summary of the turn.
PicksBeforeSummary(ms) ==
    \A i, j \in 1..Len(ms) :
        i < j /\ Asks(ms[i], {"shopping_summary"}) /\ Asks(ms[j], {"item_picker"})
            => ~Since(ms, i)

\* The first n messages hold no complete summary of this turn.
Unfinished(ms, n) ==
    \A i \in 1..n : Gave(ms[i], "shopping_summary", {"complete"}) => ~Since(ms, i)

\* The latest picks of the turn have been summarised.
PicksSummarised(ms) ==
    \A i \in 1..Len(ms) :
        \/ ~Gave(ms[i], "item_picker", {"picked"}) \/ ~Since(ms, i)
        \/ \E j \in 1..Len(ms) : j > i /\ Asks(ms[j], {"item_picker", "shopping_summary"})

NeverSearched(ms) == \A i \in 1..Len(ms) : ~Asks(ms[i], SearchTools)

\* The run goes on behind the tools.
RunsOn == node = "reflect" \/ (node = "compress" /\ phase = "reflect")

TurnFits ==
    /\ OneCall(msgs) /\ PicksBeforeSummary(msgs)
    /\ node = "prepare" => msgs # <<>> /\ Last(msgs).kind = "human"
    /\ node = "think" \/ RunsOn => Unfinished(msgs, Len(msgs))
    /\ node \in {"act", "observe"} => Unfinished(msgs, Len(msgs) - 1)

\* The most decisions of a run.
MostDecisions(d) ==
    LET forced == Budget + (IF d = 0 THEN 3 ELSE 2)
        lifted == GuardLimit + (IF d = 0 THEN 0 ELSE 1)
    IN  IF lifted > forced THEN lifted ELSE forced

\* Four supersteps for each decision, and the first node.
StepsCounted ==
    /\ iteration \in Nat /\ steps \in Nat /\ iteration <= MostDecisions(depth)
    /\ node # "idle" => depth \in {0, 1}
    /\ node = "prepare" => steps = 0 /\ iteration = 0
    /\ node = "think" => iteration < Budget
    /\ node \in {"idle", "think", "reflect"} => steps <= 4 * iteration + 1
    /\ node = "act" => steps + 2 <= 4 * iteration
    /\ node = "observe" => steps + 1 <= 4 * iteration
    /\ node = "compress" => steps <= 4 * iteration

\* chat_fallback was refused: the guard holds, and no search has run.
FallbackRefused == NeverSearched(msgs) /\ iteration < GuardLimit

\* The last decision e behind the budget is a forced one, and what it may be depends on how
\* many there have been.
SpentOn(e) ==
    /\ msgs # <<>> /\ decision = "reflect" /\ e.kind # "human"
    /\ Asks(e, {"item_picker", "shopping_summary", "chat_fallback"})
    /\ Asks(e, {"item_picker"}) => depth = 0 /\ iteration <= Budget + 1
    /\ Asks(e, {"shopping_summary"}) =>
           iteration + 1 <= IF depth = 0 THEN Budget + 3 ELSE MostDecisions(depth)
    /\ Asks(e, {"chat_fallback"}) =>
           /\ node = "observe" => Gave(e, "chat_fallback", {"answered"}) \/ FallbackRefused
           /\ RunsOn => FallbackRefused
           /\ depth = 0 => PicksSummarised(msgs)

Spent ==
    iteration > Budget /\ node \in {"act", "observe", "compress", "reflect"} => SpentOn(Last(msgs))

RunInvariant == AgentInvariant /\ TurnFits /\ StepsCounted /\ Spent

-----------------------------------------------------------------------------
\* The questions and the calls are the same.
SameAsked(ms, t) ==
    /\ Len(t) = Len(ms)
    /\ \A i \in 1..Len(ms) : t[i].kind = ms[i].kind /\ t[i].calls = ms[i].calls

\* What only depends on them stays.
LEMMA SameAskedKeeps ==
    ASSUME NEW ms, NEW t, SameAsked(ms, t)
    PROVE  /\ \A i \in 1..Len(ms) : Since(t, i) <=> Since(ms, i)
           /\ \A i \in 1..Len(ms), tools \in SUBSET AgentTool :
                  Asks(t[i], tools) <=> Asks(ms[i], tools)
           /\ OneCall(ms) => OneCall(t)
           /\ PicksBeforeSummary(ms) => PicksBeforeSummary(t)
           /\ NeverSearched(ms) => NeverSearched(t)
<1>1. \A i \in 1..Len(ms) : Since(t, i) <=> Since(ms, i)
    BY DEF SameAsked, Since
<1>2. \A i \in 1..Len(ms), tools \in SUBSET AgentTool : Asks(t[i], tools) <=> Asks(ms[i], tools)
    BY DEF SameAsked, Asks
<1>3. OneCall(ms) => OneCall(t)
    BY DEF SameAsked, OneCall
<1>4. {"shopping_summary"} \in SUBSET AgentTool /\ {"item_picker"} \in SUBSET AgentTool
          /\ SearchTools \in SUBSET AgentTool
    BY DEF AgentTool, ReflectTools, SearchTools, ThinkTools
<1>5. Len(t) = Len(ms)
    BY DEF SameAsked
<1>6. PicksBeforeSummary(ms) => PicksBeforeSummary(t)
    BY <1>1, <1>2, <1>4, <1>5 DEF PicksBeforeSummary
<1>7. NeverSearched(ms) => NeverSearched(t)
    BY <1>2, <1>4, <1>5 DEF NeverSearched
<1> QED BY <1>1, <1>2, <1>3, <1>6, <1>7

\* A message without results is appended.
LEMMA AskedAppended ==
    ASSUME NEW ms \in Seq(AgentEntry), NEW e \in AgentEntry, e.results = <<>>
    PROVE  LET t == Append(ms, e) IN
           /\ Last(t) = e /\ t # <<>>
           /\ OneCall(ms) /\ Len(e.calls) <= 1 => OneCall(t)
           /\ PicksBeforeSummary(ms)
                /\ \/ e.kind = "human" \/ ~Asks(e, {"item_picker"})
                   \/ \A i \in 1..Len(ms) : Asks(ms[i], {"shopping_summary"}) => ~Since(ms, i)
                  => PicksBeforeSummary(t)
           /\ Unfinished(ms, Len(ms)) => Unfinished(t, Len(t)) /\ Unfinished(t, Len(t) - 1)
           /\ PicksSummarised(ms) => PicksSummarised(t)
<1> DEFINE t == Append(ms, e)
           n == Len(ms)
<1>1. /\ Len(t) = n + 1 /\ n \in Nat /\ t[n + 1] = e /\ t # <<>>
      /\ \A i \in 1..n : t[i] = ms[i]
    BY AppendProperties, LenProperties
<1>2. Last(t) = e
    BY <1>1 DEF Last
<1> HIDE DEF t
<1>3. \A i \in 1..(n + 1) : i \in 1..n \/ i = n + 1
    BY <1>1
<1>4. \A i \in 1..n : i \in 1..(n + 1) /\ n + 1 >= i /\ n + 1 > i
    BY <1>1
<1>5. \A i \in 1..n : Since(t, i) => Since(ms, i)
    BY <1>1, <1>4 DEF Since
<1>6. e.kind = "human" => \A i \in 1..(n + 1) : ~Since(t, i)
    BY <1>1, <1>3, <1>4 DEF Since
<1>7. OneCall(ms) /\ Len(e.calls) <= 1 => OneCall(t)
    BY <1>1, <1>3 DEF OneCall
<1>8. ASSUME PicksBeforeSummary(ms),
             \/ e.kind = "human" \/ ~Asks(e, {"item_picker"})
             \/ \A i \in 1..n : Asks(ms[i], {"shopping_summary"}) => ~Since(ms, i)
      PROVE  PicksBeforeSummary(t)
    <2> SUFFICES ASSUME NEW i \in 1..(n + 1), NEW j \in 1..(n + 1), i < j,
                        Asks(t[i], {"shopping_summary"}), Asks(t[j], {"item_picker"}),
                        Since(t, i)
                 PROVE  FALSE
        BY <1>1 DEF PicksBeforeSummary
    <2>1. i \in 1..n
        BY <1>1
    <2>2. Since(ms, i) /\ Asks(ms[i], {"shopping_summary"})
        BY <1>1, <1>5, <2>1
    <2>3. CASE j \in 1..n
        BY <1>1, <1>8, <2>1, <2>2, <2>3 DEF PicksBeforeSummary
    <2>4. CASE j = n + 1
        <3>1. Asks(e, {"item_picker"}) /\ e.kind # "human"
            BY <1>1, <1>6, <2>4
        <3> QED BY <1>8, <2>1, <2>2, <3>1
    <2> QED BY <1>3, <2>3, <2>4
<1>9. ASSUME Unfinished(ms, n)
      PROVE  Unfinished(t, n + 1) /\ Unfinished(t, n)
    <2>1. ~Gave(e, "shopping_summary", {"complete"})
        BY DEF Gave, Replied
    <2>2. \A i \in 1..n : Gave(t[i], "shopping_summary", {"complete"}) => ~Since(t, i)
        BY <1>1, <1>5, <1>9 DEF Unfinished
    <2> QED BY <1>1, <1>3, <2>1, <2>2 DEF Unfinished
<1>10. ASSUME PicksSummarised(ms)
       PROVE  PicksSummarised(t)
    <2> SUFFICES ASSUME NEW i \in 1..(n + 1), Gave(t[i], "item_picker", {"picked"}), Since(t, i)
                 PROVE  \E j \in 1..(n + 1) :
                            j > i /\ Asks(t[j], {"item_picker", "shopping_summary"})
        BY <1>1 DEF PicksSummarised
    <2>1. i \in 1..n
        BY <1>1, <1>3 DEF Gave, Replied
    <2>2. PICK j \in 1..n : j > i /\ Asks(ms[j], {"item_picker", "shopping_summary"})
        BY <1>1, <1>5, <1>10, <2>1 DEF PicksSummarised
    <2> QED BY <1>1, <1>4, <2>2
<1>11. Len(t) - 1 = n
    BY <1>1
<1> HIDE DEF n
<1>12. /\ PicksBeforeSummary(ms)
            /\ \/ e.kind = "human" \/ ~Asks(e, {"item_picker"})
               \/ \A i \in 1..n : Asks(ms[i], {"shopping_summary"}) => ~Since(ms, i)
              => PicksBeforeSummary(t)
       /\ Unfinished(ms, n) => Unfinished(t, n + 1) /\ Unfinished(t, n)
       /\ PicksSummarised(ms) => PicksSummarised(t)
    BY <1>8, <1>9, <1>10
<1> QED BY <1>1, <1>2, <1>7, <1>11, <1>12 DEF t, n

\* The first messages are replaced by one without calls.
CutAt(ms, t, b) ==
    /\ b \in 1..Len(ms) /\ Len(t) = Len(ms) - b + 2
    /\ t[1] = Entry("summary")
    /\ \A i \in 2..Len(t) : t[i] = ms[i + b - 2]

\* A compression is such a cut, or changes nothing.
LEMMA CompressedCuts ==
    ASSUME NEW ms \in Seq(AgentEntry)
    PROVE  Compressed(ms) = ms \/ \E b \in 1..Len(ms) : CutAt(ms, Compressed(ms), b)
<1>1. DOMAIN ms = 1..Len(ms) /\ Len(ms) \in Nat
    BY LenProperties
<1>2. ASSUME Compressed(ms) # ms
      PROVE  \E b \in 1..Len(ms) : CutAt(ms, Compressed(ms), b)
    <2>1. PICK b \in Boundary(ms) :
              Compressed(ms) = <<Entry("summary")>> \o SubSeq(ms, b, Len(ms))
        BY <1>2 DEF Compressed
    <2>2. b \in 1..Len(ms)
        BY <1>1 DEF Boundary, Groups
    <2> DEFINE rest == SubSeq(ms, b, Len(ms))
               n == Len(ms) - b + 1
    <2>3. /\ rest \in Seq(AgentEntry) /\ Len(rest) = n
          /\ \A j \in 1..n : rest[j] = ms[b + j - 1]
        BY <1>1, <2>2, SubSeqProperties
    <2> HIDE DEF rest
    <2>4. /\ <<Entry("summary")>> \in Seq(AgentEntry) /\ Len(<<Entry("summary")>>) = 1
          /\ <<Entry("summary")>>[1] = Entry("summary")
        BY EntriesFit
    <2> DEFINE all == <<Entry("summary")>> \o rest
    <2>5. /\ Len(all) = 1 + n
          /\ \A j \in 1..(1 + n) : all[j] = IF j <= 1 THEN Entry("summary") ELSE rest[j - 1]
        BY <2>3, <2>4, ConcatProperties
    <2> HIDE DEF all
    <2>6. ASSUME NEW i \in 2..Len(all)
          PROVE  all[i] = ms[i + b - 2]
        <3>1. i \in 1..(1 + n) /\ ~(i <= 1) /\ i - 1 \in 1..n /\ b + (i - 1) - 1 = i + b - 2
            BY <1>1, <2>2, <2>5
        <3>2. rest[i - 1] = ms[b + (i - 1) - 1]
            BY <2>3, <3>1
        <3> QED BY <2>5, <3>1, <3>2
    <2>7. all[1] = Entry("summary") /\ Len(all) = Len(ms) - b + 2
        BY <1>1, <2>2, <2>5
    <2>8. Compressed(ms) = all
        BY <2>1 DEF all, rest
    <2> QED BY <2>2, <2>6, <2>7, <2>8 DEF CutAt
<1> QED BY <1>2

\* What a cut leaves had its properties before.
LEMMA CutKeeps ==
    ASSUME NEW ms \in Seq(AgentEntry), NEW t, NEW b, CutAt(ms, t, b)
    PROVE  /\ Last(t) = Last(ms) /\ t # <<>>
           /\ OneCall(ms) => OneCall(t)
           /\ PicksBeforeSummary(ms) => PicksBeforeSummary(t)
           /\ Unfinished(ms, Len(ms)) => Unfinished(t, Len(t))
           /\ PicksSummarised(ms) => PicksSummarised(t)
           /\ NeverSearched(ms) => NeverSearched(t)
<1> DEFINE n == Len(ms)
           m == Len(t)
           d == b - 2
<1>1. /\ n \in Nat /\ b \in 1..n /\ m = n - b + 2 /\ t[1] = Entry("summary")
      /\ \A i \in 2..m : t[i] = ms[i + b - 2]
    BY LenProperties DEF CutAt
<1>2. \A i \in 2..m : t[i] = ms[i + d] /\ i + d \in 1..n
    <2>1. \A i \in 2..m : i + d = i + b - 2 /\ i + b - 2 \in 1..n
        BY <1>1
    <2> QED BY <1>1, <2>1
<1>3. \A i \in 1..m : i = 1 \/ i \in 2..m
    BY <1>1
<1>4. /\ m \in 2..m /\ m + d = n /\ d \in Int /\ m \in Nat
      /\ \A i \in 2..m : i \in 1..m
      /\ \A h \in 1..n, i \in 2..m : h >= i + d => h - d \in 2..m /\ h - d >= i /\ (h - d) + d = h
      /\ \A h \in 1..n, i \in 2..m : h > i + d => h - d > i
      /\ \A h, i \in 2..m : (h >= i <=> h + d >= i + d) /\ (h > i <=> h + d > i + d)
    BY <1>1
<1> HIDE DEF n, m, d
<1>5. ~Asks(t[1], {}) /\ t[1].calls = <<>> /\ t[1].results = <<>>
    BY <1>1 DEF Entry, Asks
<1>6. \A tools \in SUBSET AgentTool : ~Asks(t[1], tools) /\ ~Replied(t[1], tools)
    BY <1>5 DEF Asks, Replied
<1>7. Last(t) = Last(ms)
    BY <1>2, <1>4 DEF Last, n, m
<1>8. t # <<>>
    <2>1. Len(<<>>) = 0 /\ m # 0
        BY <1>1, <1>4
    <2> QED BY <2>1 DEF m
<1>9. \A i \in 2..m : Since(t, i) => Since(ms, i + d)
    <2> SUFFICES ASSUME NEW i \in 2..m, Since(t, i), NEW h \in 1..n, h >= i + d
                 PROVE  ms[h].kind # "human"
        BY DEF Since, n
    <2>1. h - d \in 2..m /\ h - d >= i /\ (h - d) + d = h
        BY <1>4
    <2>2. t[h - d].kind # "human"
        BY <1>4, <2>1 DEF Since, m
    <2>3. t[h - d] = ms[(h - d) + d]
        BY <1>2, <2>1
    <2> QED BY <2>1, <2>2, <2>3
<1>10. ASSUME OneCall(ms) PROVE OneCall(t)
    <2>1. Len(<<>>) <= 1
        BY Len(<<>>) = 0
    <2>2. \A i \in 1..m : Len(t[i].calls) <= 1
        BY <1>2, <1>3, <1>5, <1>10, <2>1 DEF OneCall, n
    <2> QED BY <2>2 DEF OneCall, m
<1>11. ASSUME PicksBeforeSummary(ms) PROVE PicksBeforeSummary(t)
    <2> SUFFICES ASSUME NEW i \in 1..m, NEW j \in 1..m, i < j,
                        Asks(t[i], {"shopping_summary"}), Asks(t[j], {"item_picker"})
                 PROVE  ~Since(t, i)
        BY DEF PicksBeforeSummary, m
    <2>1. i \in 2..m /\ j \in 2..m
        BY <1>3, <1>5 DEF Asks
    <2>2. j > i
        BY <1>4
    <2>3. j + d > i + d
        BY <1>4, <2>1, <2>2
    <2>4. i + d < j + d
        BY <1>4, <2>3
    <2> QED BY <1>2, <1>9, <1>11, <2>1, <2>4 DEF PicksBeforeSummary, n
<1>12. ASSUME Unfinished(ms, n) PROVE Unfinished(t, m)
    <2>1. ~Gave(t[1], "shopping_summary", {"complete"})
        BY <1>5 DEF Gave, Replied
    <2>2. \A i \in 2..m : Gave(t[i], "shopping_summary", {"complete"}) => ~Since(t, i)
        BY <1>2, <1>9, <1>12 DEF Unfinished
    <2> QED BY <1>3, <2>1, <2>2 DEF Unfinished
<1>13. ASSUME PicksSummarised(ms) PROVE PicksSummarised(t)
    <2> SUFFICES ASSUME NEW i \in 1..m, Gave(t[i], "item_picker", {"picked"}), Since(t, i)
                 PROVE  \E j \in 1..m : j > i /\ Asks(t[j], {"item_picker", "shopping_summary"})
        BY DEF PicksSummarised, m
    <2>1. i \in 2..m
        BY <1>3, <1>5 DEF Gave, Replied
    <2>2. Gave(ms[i + d], "item_picker", {"picked"}) /\ Since(ms, i + d) /\ i + d \in 1..n
        BY <1>2, <1>9, <2>1
    <2>3. PICK j \in 1..n : j > i + d /\ Asks(ms[j], {"item_picker", "shopping_summary"})
        BY <1>13, <2>2 DEF PicksSummarised, n
    <2>4. j >= i + d
        BY <1>4, <2>2, <2>3
    <2>5. j - d \in 2..m /\ (j - d) + d = j /\ j - d > i
        BY <1>4, <2>1, <2>3, <2>4
    <2>6. t[j - d] = ms[j] /\ j - d \in 1..m
        BY <1>2, <1>4, <2>5
    <2> QED BY <2>3, <2>5, <2>6
<1>14. ASSUME NeverSearched(ms) PROVE NeverSearched(t)
    <2>1. \A i \in 1..m : ~Asks(t[i], SearchTools)
        BY <1>2, <1>3, <1>5, <1>14 DEF NeverSearched, n, Asks
    <2> QED BY <2>1 DEF NeverSearched, m
<1> QED BY <1>7, <1>8, <1>10, <1>11, <1>12, <1>13, <1>14 DEF n, m

\* The bounds are numbers.
LEMMA BoundsFit ==
    /\ Budget \in Nat /\ Budget >= 1 /\ GuardLimit \in Nat
    /\ \A d : /\ MostDecisions(d) \in Nat
              /\ MostDecisions(d) >= Budget + 2 /\ MostDecisions(d) >= GuardLimit
              /\ d = 0 => MostDecisions(d) >= Budget + 3
              /\ d # 0 => MostDecisions(d) >= GuardLimit + 1
<1>1. Budget \in Nat /\ Budget >= 1 /\ GuardLimit \in Nat
    BY AgentAssumption
<1>2. ASSUME NEW d
      PROVE  /\ MostDecisions(d) \in Nat
             /\ MostDecisions(d) >= Budget + 2 /\ MostDecisions(d) >= GuardLimit
             /\ d = 0 => MostDecisions(d) >= Budget + 3
             /\ d # 0 => MostDecisions(d) >= GuardLimit + 1
    <2>1. CASE d = 0
        BY <1>1, <2>1 DEF MostDecisions
    <2>2. CASE d # 0
        BY <1>1, <2>2 DEF MostDecisions
    <2> QED BY <2>1, <2>2
<1> QED BY <1>1, <1>2

\* The model asks for one tool of the phase, or for none.
LEMMA DecisionShape ==
    ASSUME NEW tools \in SUBSET AgentTool, NEW asked \in Decisions(tools)
    PROVE  /\ asked \in Seq(ToolCall)
           /\ asked = <<>> \/ (asked # <<>> /\ Len(asked) = 1 /\ asked[1].tool \in tools)
<1>1. asked \in Seq(ToolCall)
    BY DecisionsFit
<1>2. ASSUME NEW t \in tools, NEW a, asked = <<Call(t, a)>>
      PROVE  asked # <<>> /\ Len(asked) = 1 /\ asked[1].tool \in tools
    <2>1. Len(asked) = 1 /\ asked[1].tool = t
        BY <1>2 DEF Call
    <2>2. Len(<<>>) = 0
        OBVIOUS
    <2>3. asked # <<>>
        BY <2>1, <2>2
    <2> QED BY <2>1, <2>3
<1>3. CASE asked \in {<<Call(t, "bare")>> : t \in tools}
    <2>1. PICK t \in tools : asked = <<Call(t, "bare")>>
        BY <1>3
    <2> QED BY <1>1, <1>2, <2>1
<1>4. CASE asked \in {<<Call(t, "own")>> : t \in tools \cap SearchTools}
    <2>1. PICK t \in tools : asked = <<Call(t, "own")>>
        BY <1>4
    <2> QED BY <1>1, <1>2, <2>1
<1> QED BY <1>1, <1>3, <1>4 DEF Decisions

\* The message of a decision.
LEMMA DecidedIs ==
    ASSUME NEW asked \in Seq(ToolCall), Len(asked) <= 1
    PROVE  /\ Decided(asked) \in AgentEntry /\ Decided(asked).results = <<>>
           /\ Decided(asked).calls = asked /\ Decided(asked).kind # "human"
           /\ Len(Decided(asked).calls) <= 1
           /\ \A tools : Asks(Decided(asked), tools) <=> asked # <<>> /\ asked[1].tool \in tools
<1>1. Decided(asked) \in AgentEntry
    BY EntriesFit
<1>2. /\ Decided(asked).results = <<>> /\ Decided(asked).calls = asked
      /\ Decided(asked).kind # "human"
    BY DEF Decided, Entry
<1> QED BY <1>1, <1>2 DEF Asks

\* A closed group has the result of what it asks.
LEMMA ClosedReplies ==
    ASSUME NEW e \in AgentEntry, ~Open(e), NEW tools, Asks(e, tools)
    PROVE  Replied(e, tools)
<1>1. e.calls \in Seq(ToolCall) /\ e.results \in Seq(ToolResult)
    BY DEF AgentEntry
<1>2. Len(e.calls) \in Nat \ {0} /\ Len(e.results) \in Nat /\ Len(<<>>) = 0
    BY <1>1, EmptySeq, LenProperties DEF Asks
<1>3. ~(Len(e.results) < Len(e.calls))
    BY DEF Open
<1>4. e.results # <<>>
    BY <1>2, <1>3
<1> QED BY <1>4 DEF Replied

\* All groups that are closed.
LEMMA AllReply ==
    ASSUME NEW ms, Messages(ms), AllClosed(ms), NEW i \in 1..Len(ms), NEW tools
    PROVE  Asks(ms[i], tools) <=> Replied(ms[i], tools)
<1>1. ms[i] \in AgentEntry /\ ~Open(ms[i])
    BY ElementOfSeq DEF Messages, AllClosed
<1> QED BY <1>1, ClosedReplies DEF Replied

-----------------------------------------------------------------------------
\* What a decision of the given tool has to be behind the budget.
SpentDecision(tool) ==
    /\ tool \in {"item_picker", "shopping_summary", "chat_fallback"}
    /\ tool = "item_picker" => depth = 0 /\ iteration + 1 <= Budget + 1
    /\ tool = "shopping_summary" =>
           iteration + 2 <= IF depth = 0 THEN Budget + 3 ELSE MostDecisions(depth)
    /\ tool = "chat_fallback" /\ depth = 0 => PicksSummarised(msgs)

\* A decision is one of those left.
LEMMA DecisionCounts ==
    ASSUME AgentInvariant', AgentInvariant, TurnFits, StepsCounted, NEW asked \in Seq(ToolCall),
           Len(asked) <= 1,
           node \in {"think", "reflect"}, msgs' = Append(msgs, Decided(asked)),
           iteration' = iteration + 1, steps' = steps + 1, depth' = depth,
           asked # <<>> => node' = "act", asked = <<>> => node' \in {"reflect", "think", "idle"},
           iteration + 1 <= MostDecisions(depth), node' = "think" => iteration + 1 < Budget,
           asked # <<>> /\ asked[1].tool = "item_picker" =>
               \A i \in 1..Len(msgs) : Asks(msgs[i], {"shopping_summary"}) => ~Since(msgs, i),
           iteration + 1 > Budget /\ asked = <<>> => node' # "reflect",
           iteration + 1 > Budget /\ asked # <<>> =>
               decision' = "reflect" /\ SpentDecision(asked[1].tool)
    PROVE  RunInvariant'
<1> DEFINE e == Decided(asked)
<1>1. /\ e \in AgentEntry /\ e.results = <<>> /\ e.calls = asked /\ e.kind # "human"
      /\ Len(e.calls) <= 1
      /\ \A tools : Asks(e, tools) <=> asked # <<>> /\ asked[1].tool \in tools
    BY DecidedIs
<1>2. msgs \in Seq(AgentEntry) /\ Unfinished(msgs, Len(msgs)) /\ OneCall(msgs)
          /\ PicksBeforeSummary(msgs)
    BY DEF AgentInvariant, Messages, TurnFits, RunsOn
<1>3. msgs' = Append(msgs, e)
    OBVIOUS
<1> HIDE DEF e
<1>4. /\ Last(msgs') = e /\ msgs' # <<>>
      /\ OneCall(msgs') /\ PicksBeforeSummary(msgs')
      /\ Unfinished(msgs', Len(msgs')) /\ Unfinished(msgs', Len(msgs') - 1)
      /\ PicksSummarised(msgs) => PicksSummarised(msgs')
    <2>1. \/ e.kind = "human" \/ ~Asks(e, {"item_picker"})
          \/ \A i \in 1..Len(msgs) : Asks(msgs[i], {"shopping_summary"}) => ~Since(msgs, i)
        BY <1>1
    <2> QED BY <1>1, <1>2, <1>3, <2>1, AskedAppended
<1>5. node' \in {"act", "reflect", "think", "idle"} /\ (asked = <<>> \/ node' = "act")
    OBVIOUS
<1>6. TurnFits'
    BY <1>4, <1>5 DEF TurnFits, RunsOn
<1>7. StepsCounted'
    <2>1. iteration \in Nat /\ steps \in Nat /\ steps <= 4 * iteration + 1 /\ depth \in {0, 1}
        BY DEF StepsCounted
    <2>2. iteration' \in Nat /\ steps' \in Nat /\ steps' + 2 <= 4 * iteration'
        BY <2>1
    <2>3. steps' <= 4 * iteration' + 1
        BY <2>2
    <2>4. iteration' <= MostDecisions(depth')
        OBVIOUS
    <2>5. node' = "think" => iteration' < Budget
        OBVIOUS
    <2>6. depth' \in {0, 1}
        BY <2>1
    <2>7. MostDecisions(depth)' = MostDecisions(depth')
        BY DEF MostDecisions
    <2> QED BY <1>5, <2>2, <2>3, <2>4, <2>5, <2>6, <2>7 DEF StepsCounted
<1>8. Spent'
    <2> SUFFICES ASSUME iteration' > Budget, node' \in {"act", "observe", "compress", "reflect"}
                 PROVE  SpentOn(Last(msgs))'
        BY DEF Spent
    <2>1. iteration \in Nat
        BY DEF StepsCounted
    <2>2. asked # <<>> /\ node' = "act" /\ decision' = "reflect" /\ SpentDecision(asked[1].tool)
        BY <1>5
    <2> DEFINE tool == asked[1].tool
    <2>3. \A tools : Asks(e, tools) <=> tool \in tools
        BY <1>1, <2>2
    <2>4. /\ tool \in {"item_picker", "shopping_summary", "chat_fallback"}
          /\ tool = "item_picker" => depth' = 0 /\ iteration' <= Budget + 1
          /\ tool = "shopping_summary" =>
                 iteration' + 1 <= IF depth' = 0 THEN Budget + 3 ELSE MostDecisions(depth')
          /\ tool = "chat_fallback" /\ depth' = 0 => PicksSummarised(msgs')
        <3>1. iteration + 1 + 1 = iteration + 2
            BY <2>1
        <3> QED BY <1>4, <2>2, <3>1 DEF SpentDecision
    <2> HIDE DEF tool
    <2>5. SpentOn(e)'
        BY <1>1, <1>4, <2>2, <2>3, <2>4 DEF SpentOn, RunsOn, MostDecisions
    <2> QED BY <1>4, <2>5 DEF SpentOn
<1> QED BY <1>6, <1>7, <1>8 DEF RunInvariant

\* A run starts with its question.
LEMMA RunStarts ==
    ASSUME RunInvariant, AgentInvariant', NEW d \in {0, 1}, NEW i \in Intent, StartRun(d, i)
    PROVE  RunInvariant'
<1> DEFINE e == Entry("human")
<1>1. e \in AgentEntry /\ e.results = <<>> /\ e.calls = <<>> /\ e.kind = "human"
    BY EntriesFit DEF Entry
<1>2. /\ msgs \in Seq(AgentEntry) /\ OneCall(msgs) /\ PicksBeforeSummary(msgs)
      /\ Len(<<>>) = 0
    BY EmptySeq DEF RunInvariant, AgentInvariant, Messages, TurnFits
<1>3. /\ msgs' = Append(msgs, e) /\ node' = "prepare" /\ iteration' = 0 /\ steps' = 0
      /\ depth' = d
    BY DEF StartRun
<1> HIDE DEF e
<1>4. /\ Last(msgs') = e /\ msgs' # <<>> /\ OneCall(msgs') /\ PicksBeforeSummary(msgs')
    BY <1>1, <1>2, <1>3, AskedAppended
<1>5. TurnFits'
    BY <1>1, <1>3, <1>4 DEF TurnFits, RunsOn
<1>6. StepsCounted'
    <2>1. MostDecisions(depth)' \in Nat
        BY BoundsFit DEF MostDecisions
    <2> QED BY <1>3, <2>1 DEF StepsCounted
<1>7. Spent'
    BY <1>3 DEF Spent
<1> QED BY <1>5, <1>6, <1>7 DEF RunInvariant

\* An interrupted run counts no further.
LEMMA RunInterrupted ==
    ASSUME RunInvariant, AgentInvariant', Interrupt
    PROVE  RunInvariant'
<1>1. /\ node' = "idle" /\ UNCHANGED <<msgs, depth, iteration, steps>>
      /\ node # "idle"
    BY DEF Interrupt
<1>2. TurnFits'
    BY <1>1 DEF RunInvariant, TurnFits, RunsOn
<1>3. StepsCounted'
    <2>1. /\ iteration \in Nat /\ steps \in Nat /\ iteration <= MostDecisions(depth)
          /\ steps <= 4 * iteration + 1
        <3>1. node \in {"idle", "prepare", "think", "act", "observe", "compress", "reflect"}
            BY AgentTyped DEF RunInvariant, AgentInvariant, AgentScalars
        <3> QED BY <3>1 DEF RunInvariant, StepsCounted
    <2>2. MostDecisions(depth)' = MostDecisions(depth)
        BY <1>1 DEF MostDecisions
    <2> QED BY <1>1, <2>1, <2>2 DEF StepsCounted
<1>4. Spent'
    BY <1>1 DEF Spent
<1> QED BY <1>2, <1>3, <1>4 DEF RunInvariant

\* A repair asks nothing.
LEMMA RepairAsksSame ==
    ASSUME NEW ms, Messages(ms)
    PROVE  SameAsked(ms, Repaired(ms)) /\ (AllClosed(ms) => Repaired(ms) = ms)
<1>1. /\ ms \in Seq(AgentEntry) /\ DOMAIN ms = 1..Len(ms) /\ Len(ms) \in Nat
      /\ \A i \in 1..Len(ms) : ms[i] \in AgentEntry /\ ResultsAnswer(ms[i])
    BY LenProperties, ElementOfSeq DEF Messages
<1> DEFINE fixed(i) == [k \in DOMAIN ms[i].calls |-> IF k \in DOMAIN ms[i].results
                                                    THEN ms[i].results[k] ELSE "interrupted"]
<1>2. /\ DOMAIN Repaired(ms) = 1..Len(ms)
      /\ \A i \in 1..Len(ms) : Repaired(ms)[i] = [ms[i] EXCEPT !.results = fixed(i)]
    BY <1>1 DEF Repaired
<1>3. Len(Repaired(ms)) = Len(ms)
    <2>1. Repaired(ms) \in Seq(AgentEntry)
        BY RepairCloses DEF Messages
    <2>2. DOMAIN Repaired(ms) = 1..Len(Repaired(ms)) /\ Len(Repaired(ms)) \in Nat
        BY <2>1, LenProperties
    <2> QED BY <1>1, <1>2, <2>2
<1>4. ASSUME NEW i \in 1..Len(ms)
      PROVE  Repaired(ms)[i].kind = ms[i].kind /\ Repaired(ms)[i].calls = ms[i].calls
    <2>1. ms[i] \in AgentEntry
        BY <1>1
    <2> HIDE DEF fixed
    <2>2. Repaired(ms)[i] = [ms[i] EXCEPT !.results = fixed(i)]
        BY <1>2
    <2> QED BY <2>1, <2>2 DEF AgentEntry
<1>5. ASSUME AllClosed(ms) PROVE Repaired(ms) = ms
    <2>1. ASSUME NEW i \in 1..Len(ms)
          PROVE  Repaired(ms)[i] = ms[i]
        <3> DEFINE e == ms[i]
        <3>1. e \in AgentEntry /\ ResultsAnswer(e) /\ ~Open(e)
            BY <1>1, <1>5 DEF AllClosed
        <3>2. e.calls \in Seq(ToolCall) /\ e.results \in Seq(ToolResult)
            BY <3>1 DEF AgentEntry
        <3>3. /\ DOMAIN e.calls = 1..Len(e.calls) /\ DOMAIN e.results = 1..Len(e.results)
              /\ Len(e.calls) \in Nat /\ Len(e.results) \in Nat
            BY <3>2, LenProperties
        <3>4. DOMAIN e.results = DOMAIN e.calls
            <4>1. \A k \in DOMAIN e.results : k \in DOMAIN e.calls
                BY <3>1 DEF ResultsAnswer
            <4>2. ~(Len(e.results) < Len(e.calls))
                BY <3>1 DEF Open
            <4>3. PICK m \in Nat, n \in Nat : m = Len(e.results) /\ n = Len(e.calls)
                BY <3>3
            <4>4. DOMAIN e.results = 1..m /\ DOMAIN e.calls = 1..n /\ ~(m < n)
                BY <3>3, <4>2, <4>3
            <4> HIDE DEF e
            <4>5. m \in 1..m => m \in 1..n
                BY <4>1, <4>4
            <4>6. m = n
                BY <4>4, <4>5
            <4> QED BY <4>4, <4>6
        <3>5. fixed(i) = e.results
            BY <3>2, <3>3, <3>4
        <3>6. [e EXCEPT !.results = e.results] = e
            BY <3>1 DEF AgentEntry
        <3> QED BY <1>2, <3>5, <3>6
    <2>2. Repaired(ms) = [i \in 1..Len(ms) |-> Repaired(ms)[i]]
        BY <1>1 DEF Repaired
    <2>3. ms = [i \in 1..Len(ms) |-> ms[i]]
        BY <1>1
    <2> QED BY <2>1, <2>2, <2>3
<1> QED BY <1>3, <1>4, <1>5 DEF SameAsked

\* The first node repairs, and counts one step.
LEMMA RunPrepares ==
    ASSUME RunInvariant, AgentInvariant', Prepare
    PROVE  RunInvariant'
<1>1. /\ msgs' = Repaired(msgs) /\ node' = "think" /\ steps' = steps + 1
      /\ UNCHANGED <<iteration, depth>> /\ node = "prepare"
    BY DEF Prepare, Goes
<1>2. /\ Messages(msgs) /\ OneCall(msgs) /\ PicksBeforeSummary(msgs)
      /\ msgs # <<>> /\ Last(msgs).kind = "human" /\ steps = 0 /\ iteration = 0
      /\ depth \in {0, 1}
    BY <1>1 DEF RunInvariant, AgentInvariant, TurnFits, StepsCounted
<1>3. SameAsked(msgs, msgs')
    BY <1>1, <1>2, RepairAsksSame
<1>4. OneCall(msgs') /\ PicksBeforeSummary(msgs')
    BY <1>2, <1>3, SameAskedKeeps
<1>5. Unfinished(msgs', Len(msgs'))
    <2>1. Len(msgs) \in Nat \ {0}
        BY <1>2, EmptySeq DEF Messages
    <2>2. msgs'[Len(msgs')].kind = "human" /\ Len(msgs') = Len(msgs)
        BY <1>2, <1>3, <2>1 DEF SameAsked, Last
    <2>3. \A i \in 1..Len(msgs') : ~Since(msgs', i)
        BY <2>1, <2>2 DEF Since
    <2> QED BY <2>3 DEF Unfinished
<1>6. TurnFits'
    BY <1>1, <1>4, <1>5 DEF TurnFits, RunsOn
<1>7. StepsCounted'
    <2>1. MostDecisions(depth)' \in Nat /\ Budget \in Nat /\ Budget >= 1
        BY BoundsFit DEF MostDecisions
    <2> QED BY <1>1, <1>2, <2>1 DEF StepsCounted
<1>8. Spent'
    BY <1>1 DEF Spent
<1> QED BY <1>6, <1>7, <1>8 DEF RunInvariant

\* The first phase decides below the budget.
LEMMA RunThinks ==
    ASSUME RunInvariant, AgentInvariant', NEW asked \in Decisions(ThinkTools), Think(asked)
    PROVE  RunInvariant'
<1>1. /\ node = "think" /\ msgs' = Append(msgs, Decided(asked)) /\ iteration' = iteration + 1
      /\ steps' = steps + 1 /\ depth' = depth
      /\ asked # <<>> => node' = "act"
      /\ asked = <<>> => node' = "reflect"
    BY DEF Think, Goes
<1>2. /\ asked \in Seq(ToolCall) /\ Len(asked) <= 1
      /\ asked # <<>> => asked[1].tool # "item_picker"
    <2>1. ThinkTools \in SUBSET AgentTool
        BY DEF AgentTool
    <2>2. asked = <<>> \/ (Len(asked) = 1 /\ asked[1].tool \in ThinkTools)
        BY <2>1, DecisionShape
    <2>3. asked \in Seq(ToolCall)
        BY <2>1, DecisionShape
    <2>4. asked = <<>> => Len(asked) = 0
        OBVIOUS
    <2>5. Len(asked) <= 1
        BY <2>2, <2>4
    <2>6. asked # <<>> => asked[1].tool # "item_picker"
        BY <2>2 DEF ThinkTools
    <2> QED BY <2>3, <2>5, <2>6
<1>3. AgentInvariant /\ TurnFits /\ StepsCounted
    BY DEF RunInvariant
<1>4. iteration \in Nat /\ iteration < Budget
    BY <1>1, <1>3 DEF StepsCounted
<1>5. iteration + 1 <= MostDecisions(depth) /\ ~(iteration + 1 > Budget)
    BY <1>4, BoundsFit
<1> QED BY <1>1, <1>2, <1>3, <1>5, DecisionCounts

\* chat_fallback answers unless the guard holds, and a summary of the second phase is not
\* refused.
LEMMA TerminalOutcome ==
    ASSUME NEW c \in ToolCall, NEW x \in Outcomes(c)
    PROVE  c.tool = "chat_fallback" => x = "answered" \/ MustSearchFirst
<1> SUFFICES ASSUME c.tool = "chat_fallback", ~MustSearchFirst PROVE x = "answered"
    OBVIOUS
<1>1. Rejection(c) = "none"
    <2>1. ~Unplanned(c) /\ ~Unclarified(c) /\ ~PicksFirst(c) /\ ~InFork(c)
        BY DEF Unplanned, Unclarified, PicksFirst, InFork, SearchTools
    <2>2. ~OutOfPhase(c)
        BY DEF OutOfPhase, ThinkTools, ReflectTools
    <2> QED BY <2>1, <2>2 DEF Rejection
<1>2. Outcomes(c) = {"answered"}
    BY <1>1 DEF Outcomes, Answers, SearchTools
<1> QED BY <1>2

\* The tools answer the last group.
LEMMA RunActs ==
    ASSUME RunInvariant, AgentInvariant', node = "act",
           NEW results \in [DOMAIN Last(msgs).calls ->
                                UNION {Outcomes(c) : c \in Range(Last(msgs).calls)}],
           Act(results)
    PROVE  RunInvariant'
<1> DEFINE n == Len(msgs)
           e == Last(msgs)
<1>1. /\ DOMAIN results = DOMAIN e.calls
      /\ \A k \in DOMAIN results : results[k] \in Outcomes(e.calls[k])
      /\ msgs' = [msgs EXCEPT ![n].results = results]
      /\ node' = "observe" /\ steps' = steps + 1
      /\ UNCHANGED <<iteration, depth, phase, decision, looping>>
    BY DEF Act, Goes
<1>2. /\ Messages(msgs) /\ Messages(msgs') /\ msgs # <<>> /\ TurnFits /\ StepsCounted /\ Spent
      /\ \A i \in 1..(n - 1) : ~Open(msgs[i])
    BY DEF RunInvariant, AgentInvariant, GroupsFit
<1>3. /\ msgs \in Seq(AgentEntry) /\ n \in Nat \ {0} /\ DOMAIN msgs = 1..n /\ e = msgs[n]
      /\ e \in AgentEntry
    BY <1>2, LenProperties, EmptySeq, ElementOfSeq DEF Messages, Last
<1>4. /\ Len(msgs') = n /\ msgs'[n] = [e EXCEPT !.results = results]
      /\ \A i \in 1..n : i # n => msgs'[i] = msgs[i]
      /\ Last(msgs') = msgs'[n]
    <2>1. DOMAIN msgs' = 1..n
        BY <1>1, <1>3
    <2>2. msgs' \in Seq(AgentEntry)
        BY <1>2 DEF Messages
    <2>3. DOMAIN msgs' = 1..Len(msgs') /\ Len(msgs') \in Nat
        BY <2>2, LenProperties
    <2>4. Len(msgs') = n
        BY <1>3, <2>1, <2>3
    <2> QED BY <1>1, <1>3, <2>4 DEF Last
<1>5. /\ msgs'[n].calls = e.calls /\ msgs'[n].kind = e.kind /\ msgs'[n].results = results
    BY <1>3, <1>4 DEF AgentEntry
<1> HIDE DEF e, n
<1>6. SameAsked(msgs, msgs')
    BY <1>3, <1>4, <1>5 DEF SameAsked, n
<1>7. /\ \A i \in 1..n : Since(msgs', i) <=> Since(msgs, i)
      /\ \A i \in 1..n, tools \in SUBSET AgentTool : Asks(msgs'[i], tools) <=> Asks(msgs[i], tools)
      /\ OneCall(msgs') /\ PicksBeforeSummary(msgs')
      /\ NeverSearched(msgs) => NeverSearched(msgs')
    BY <1>2, <1>6, SameAskedKeeps DEF TurnFits, n
<1>8. \A i \in 1..(n - 1) : i \in 1..n /\ i # n
    BY <1>3
<1>9. Unfinished(msgs', n - 1)
    <2>1. Unfinished(msgs, n - 1)
        BY <1>2 DEF TurnFits, n
    <2> QED BY <1>4, <1>7, <1>8, <2>1 DEF Unfinished
<1>10. TurnFits'
    BY <1>1, <1>4, <1>7, <1>9 DEF TurnFits, RunsOn
<1>11. StepsCounted'
    <2>1. /\ iteration \in Nat /\ steps \in Nat /\ steps + 2 <= 4 * iteration
          /\ iteration <= MostDecisions(depth) /\ depth \in {0, 1}
        BY <1>2 DEF StepsCounted
    <2>2. MostDecisions(depth)' = MostDecisions(depth)
        BY <1>1 DEF MostDecisions
    <2>3. steps' + 1 <= 4 * iteration'
        BY <1>1, <2>1
    <2> QED BY <1>1, <2>1, <2>2, <2>3 DEF StepsCounted
<1>12. ASSUME iteration > Budget, Asks(e, {"chat_fallback"})
       PROVE  Gave(msgs'[n], "chat_fallback", {"answered"}) \/ (NeverSearched(msgs') /\ iteration < GuardLimit)
    <2>1. 1 \in DOMAIN e.calls /\ e.calls[1] \in ToolCall /\ e.calls[1].tool = "chat_fallback"
        <3>1. e.calls \in Seq(ToolCall) /\ e.calls # <<>>
            BY <1>3, <1>12 DEF AgentEntry, Asks
        <3>2. 1 \in 1..Len(e.calls) /\ DOMAIN e.calls = 1..Len(e.calls)
            BY <3>1, EmptySeq, LenProperties
        <3> QED BY <1>12, <3>1, <3>2, ElementOfSeq DEF Asks
    <2>2. results[1] \in Outcomes(e.calls[1]) /\ 1 \in DOMAIN results
        BY <1>1, <2>1
    <2>3. results # <<>>
        <3>1. DOMAIN <<>> = {}
            OBVIOUS
        <3> QED BY <2>2, <3>1
    <2>4. CASE results[1] = "answered"
        <3>1. Asks(msgs'[n], {"chat_fallback"})
            BY <1>5, <1>12 DEF Asks
        <3> QED BY <1>5, <2>3, <2>4, <3>1 DEF Gave, Replied
    <2>5. CASE MustSearchFirst
        <3>1. Latest(msgs, SearchTools) = "none" /\ iteration < GuardLimit
            BY <2>5 DEF MustSearchFirst, SearchRan
        <3>2. \A i \in 1..n : ~Replied(msgs[i], SearchTools)
            <4>1. LatestGiven(msgs, SearchTools, "none")
                BY <1>2, <3>1, LatestIs DEF TurnFits
            <4> QED BY <1>2, <4>1, NoneIsGiven DEF n
        <3>3. ASSUME NEW i \in 1..n
              PROVE  ~Asks(msgs[i], SearchTools)
            <4>1. CASE i = n
                BY <1>3, <2>1, <4>1 DEF Asks, SearchTools
            <4>2. CASE i # n
                <5>1. i \in 1..(n - 1)
                    BY <1>3, <4>2
                <5>2. ~Open(msgs[i]) /\ msgs[i] \in AgentEntry
                    BY <1>2, <1>3, <5>1, ElementOfSeq DEF n
                <5> QED BY <3>2, <5>2, ClosedReplies
            <4> QED BY <4>1, <4>2
        <3>4. NeverSearched(msgs)
            BY <3>3 DEF NeverSearched, n
        <3> QED BY <1>7, <3>1, <3>4
    <2> QED BY <2>1, <2>2, <2>4, <2>5, TerminalOutcome
<1>13. PicksSummarised(msgs) /\ Asks(e, {"chat_fallback"}) => PicksSummarised(msgs')
    <2> SUFFICES ASSUME PicksSummarised(msgs), Asks(e, {"chat_fallback"}),
                        NEW i \in 1..n, Gave(msgs'[i], "item_picker", {"picked"}), Since(msgs', i)
                 PROVE  \E j \in 1..n : j > i /\ Asks(msgs'[j], {"item_picker", "shopping_summary"})
        BY <1>4 DEF PicksSummarised
    <2>1. i # n
        <3>1. ~Asks(msgs'[n], {"item_picker"})
            BY <1>5 DEF Asks
        <3> QED BY <3>1 DEF Gave, Replied
    <2>2. Gave(msgs[i], "item_picker", {"picked"}) /\ Since(msgs, i)
        BY <1>4, <1>7, <2>1
    <2>3. PICK j \in 1..n : j > i /\ Asks(msgs[j], {"item_picker", "shopping_summary"})
        BY <2>2 DEF PicksSummarised, n
    <2>4. {"item_picker", "shopping_summary"} \in SUBSET AgentTool
        BY DEF AgentTool, ReflectTools
    <2> QED BY <1>7, <2>3, <2>4
<1>14. Spent'
    <2> SUFFICES ASSUME iteration > Budget PROVE SpentOn(Last(msgs))'
        BY <1>1 DEF Spent
    <2>1. SpentOn(e)
        BY <1>2 DEF Spent, e
    <2>2. \A tools : Asks(msgs'[n], tools) <=> Asks(e, tools)
        BY <1>5 DEF Asks
    <2>3. MostDecisions(depth)' = MostDecisions(depth)
        BY <1>1 DEF MostDecisions
    <2>4. msgs' # <<>>
        <3>1. Len(<<>>) = 0
            OBVIOUS
        <3> QED BY <1>3, <1>4, <3>1
    <2>5. Asks(e, {"chat_fallback"}) => Gave(msgs'[n], "chat_fallback", {"answered"}) \/ FallbackRefused'
        BY <1>1, <1>12 DEF FallbackRefused
    <2>6. Asks(e, {"chat_fallback"}) /\ depth = 0 => PicksSummarised(msgs')
        BY <1>13, <2>1 DEF SpentOn
    <2> HIDE DEF FallbackRefused
    <2>7. /\ msgs' # <<>> /\ decision' = "reflect" /\ msgs'[n].kind # "human"
          /\ Asks(msgs'[n], {"item_picker", "shopping_summary", "chat_fallback"})
          /\ Asks(msgs'[n], {"item_picker"}) => depth' = 0 /\ iteration' <= Budget + 1
          /\ Asks(msgs'[n], {"shopping_summary"}) =>
                 iteration' + 1 <= IF depth' = 0 THEN Budget + 3 ELSE MostDecisions(depth)'
          /\ Asks(msgs'[n], {"chat_fallback"}) =>
                 /\ Gave(msgs'[n], "chat_fallback", {"answered"}) \/ FallbackRefused'
                 /\ depth' = 0 => PicksSummarised(msgs')
        BY <1>1, <1>5, <2>1, <2>2, <2>3, <2>4, <2>5, <2>6 DEF SpentOn
    <2> QED BY <1>1, <1>4, <2>7 DEF SpentOn, RunsOn
<1> QED BY <1>10, <1>11, <1>14 DEF RunInvariant

\* What ends a run is in the last group.
LEMMA GaveEnds ==
    ASSUME NEW e \in AgentEntry, ResultsAnswer(e),
           \/ Gave(e, "chat_fallback", {"answered"})
           \/ Gave(e, "shopping_summary", {"complete"})
    PROVE  Terminal(e)
<1>1. e.results # <<>>
    BY DEF Gave, Replied
<1>2. 1 \in DOMAIN e.results
    BY <1>1, RowsFit
<1>3. \/ e.calls[1].tool = "chat_fallback" /\ e.results[1] = "answered"
      \/ e.calls[1].tool = "shopping_summary" /\ e.results[1] = "complete"
    BY DEF Gave, Replied, Asks
<1> QED BY <1>2, <1>3 DEF Terminal

\* The tools have answered, and the run is over or goes on.
LEMMA RunObserves ==
    ASSUME RunInvariant, AgentInvariant', Observe
    PROVE  RunInvariant'
<1> DEFINE n == Len(msgs)
           e == Last(msgs)
<1>1. /\ node = "observe" /\ msgs' = Repaired(msgs) /\ ended' = Terminal(e)
      /\ phase' = IF ended' THEN "done" ELSE "reflect"
      /\ node' = "compress" /\ steps' = steps + 1
      /\ UNCHANGED <<depth, iteration, decision>>
    BY Zenon DEF Observe, Goes
<1>2. /\ Messages(msgs) /\ AllClosed(msgs) /\ TurnFits /\ StepsCounted /\ Spent
    BY <1>1 DEF RunInvariant, AgentInvariant, GroupsFit
<1>3. msgs' = msgs
    BY <1>1, <1>2, RepairAsksSame
<1>4. /\ msgs \in Seq(AgentEntry) /\ n \in Nat
      /\ \A i \in 1..n : msgs[i] \in AgentEntry /\ ResultsAnswer(msgs[i])
      /\ e = msgs[n]
    BY <1>2, LenProperties, ElementOfSeq DEF Messages, Last
<1> HIDE DEF e, n
<1>5. phase' = "reflect" => ~Terminal(e)
    BY <1>1
<1>6. phase' = "reflect" => Unfinished(msgs, n)
    <2> SUFFICES ASSUME phase' = "reflect", NEW i \in 1..n,
                        Gave(msgs[i], "shopping_summary", {"complete"})
                 PROVE  ~Since(msgs, i)
        BY DEF Unfinished
    <2>1. CASE i = n
        BY <1>4, <1>5, <2>1, GaveEnds
    <2>2. CASE i # n
        <3>1. i \in 1..(n - 1)
            BY <1>4, <2>2
        <3>2. Unfinished(msgs, n - 1)
            BY <1>1, <1>2 DEF TurnFits, n
        <3> QED BY <3>1, <3>2 DEF Unfinished
    <2> QED BY <2>1, <2>2
<1>7. TurnFits'
    BY <1>1, <1>2, <1>3, <1>6 DEF TurnFits, RunsOn, n
<1>8. StepsCounted'
    <2>1. /\ iteration \in Nat /\ steps \in Nat /\ steps + 1 <= 4 * iteration
          /\ iteration <= MostDecisions(depth) /\ depth \in {0, 1}
        BY <1>1, <1>2 DEF StepsCounted
    <2>2. MostDecisions(depth)' = MostDecisions(depth)
        BY <1>1 DEF MostDecisions
    <2> QED BY <1>1, <2>1, <2>2 DEF StepsCounted
<1>9. Spent'
    <2> SUFFICES ASSUME iteration > Budget PROVE SpentOn(Last(msgs))'
        BY <1>1 DEF Spent
    <2>1. SpentOn(e)
        BY <1>1, <1>2 DEF Spent, e
    <2>2. MostDecisions(depth)' = MostDecisions(depth)
        BY <1>1 DEF MostDecisions
    <2>3. msgs # <<>> /\ n # 0
        <3>1. msgs # <<>>
            BY <2>1 DEF SpentOn
        <3> QED BY <1>4, <3>1, EmptySeq DEF n
    <2>4. e \in AgentEntry /\ ResultsAnswer(e)
        BY <1>4, <2>3
    <2>5. Asks(e, {"chat_fallback"}) /\ phase' = "reflect" => FallbackRefused'
        <3>1. phase' = "reflect" => ~Gave(e, "chat_fallback", {"answered"})
            BY <1>5, <2>4, GaveEnds
        <3>2. FallbackRefused' = FallbackRefused
            BY <1>1, <1>3 DEF FallbackRefused
        <3> QED BY <1>1, <2>1, <3>1, <3>2 DEF SpentOn
    <2>6. Last(msgs') = e
        BY <1>3 DEF e
    <2> QED BY <1>1, <1>3, <2>1, <2>2, <2>5, <2>6 DEF SpentOn, RunsOn
<1> QED BY <1>7, <1>8, <1>9 DEF RunInvariant

\* What is compressed is not read any more.
LEMMA RunCompresses ==
    ASSUME RunInvariant, AgentInvariant', NEW over \in BOOLEAN, Compress(over)
    PROVE  RunInvariant'
<1>1. /\ node = "compress" /\ msgs' = IF over THEN Compressed(msgs) ELSE msgs
      /\ node' = (IF phase = "done" THEN "idle" ELSE phase) /\ steps' = steps + 1
      /\ UNCHANGED <<depth, phase, iteration, decision>>
    BY DEF Compress, Goes
<1>2. /\ msgs \in Seq(AgentEntry) /\ TurnFits /\ StepsCounted /\ Spent
      /\ phase \in {"reflect", "done"}
    BY <1>1 DEF RunInvariant, AgentInvariant, GroupsFit, Messages
<1>3. /\ Last(msgs') = Last(msgs) /\ (msgs # <<>> => msgs' # <<>>)
      /\ OneCall(msgs') /\ PicksBeforeSummary(msgs')
      /\ Unfinished(msgs, Len(msgs)) => Unfinished(msgs', Len(msgs'))
      /\ PicksSummarised(msgs) => PicksSummarised(msgs')
      /\ NeverSearched(msgs) => NeverSearched(msgs')
    <2>1. OneCall(msgs) /\ PicksBeforeSummary(msgs)
        BY <1>2 DEF TurnFits
    <2>2. CASE msgs' = msgs
        BY <2>1, <2>2
    <2>3. ASSUME NEW b \in 1..Len(msgs), CutAt(msgs, msgs', b)
          PROVE  /\ Last(msgs') = Last(msgs) /\ msgs' # <<>>
                 /\ OneCall(msgs') /\ PicksBeforeSummary(msgs')
                 /\ Unfinished(msgs, Len(msgs)) => Unfinished(msgs', Len(msgs'))
                 /\ PicksSummarised(msgs) => PicksSummarised(msgs')
                 /\ NeverSearched(msgs) => NeverSearched(msgs')
        BY <1>2, <2>1, <2>3, CutKeeps
    <2>4. msgs' = msgs \/ \E b \in 1..Len(msgs) : CutAt(msgs, msgs', b)
        BY <1>1, <1>2, CompressedCuts
    <2> QED BY <2>2, <2>3, <2>4
<1>4. node' = "reflect" => RunsOn
    BY <1>1, <1>2 DEF RunsOn
<1>5. node' \in {"reflect", "idle"}
    BY <1>1, <1>2
<1>6. TurnFits'
    <2>1. RunsOn' <=> node' = "reflect"
        BY <1>5 DEF RunsOn
    <2>2. RunsOn => Unfinished(msgs, Len(msgs))
        BY <1>2 DEF TurnFits
    <2> QED BY <1>3, <1>4, <1>5, <2>1, <2>2 DEF TurnFits
<1>7. StepsCounted'
    <2>1. /\ iteration \in Nat /\ steps \in Nat /\ steps <= 4 * iteration
          /\ iteration <= MostDecisions(depth) /\ depth \in {0, 1}
        BY <1>1, <1>2 DEF StepsCounted
    <2>2. MostDecisions(depth)' = MostDecisions(depth)
        BY <1>1 DEF MostDecisions
    <2> QED BY <1>1, <1>5, <2>1, <2>2 DEF StepsCounted
<1>8. Spent'
    <2> SUFFICES ASSUME iteration > Budget, node' = "reflect" PROVE SpentOn(Last(msgs))'
        BY <1>1, <1>5 DEF Spent
    <2>1. SpentOn(Last(msgs)) /\ RunsOn
        BY <1>1, <1>2, <1>4 DEF Spent
    <2>2. MostDecisions(depth)' = MostDecisions(depth)
        BY <1>1 DEF MostDecisions
    <2>3. FallbackRefused => FallbackRefused'
        BY <1>1, <1>3 DEF FallbackRefused
    <2> DEFINE e == Last(msgs)
    <2>4. Last(msgs') = e
        BY <1>3
    <2>5. SpentOn(e)
        BY <2>1
    <2> HIDE DEF e
    <2> QED BY <1>1, <1>3, <2>1, <2>2, <2>3, <2>4, <2>5 DEF SpentOn
<1> QED BY <1>6, <1>7, <1>8 DEF RunInvariant

-----------------------------------------------------------------------------
(***************************************************************************)
(* What reflect reads, and what it may decide.                             *)
(***************************************************************************)
Summary == Latest(CurrentTurn(msgs), {"shopping_summary"})
Picks   == Latest(CurrentTurn(msgs), {"item_picker"})

\* While a run goes on its turn has no complete summary, and any other one leads to the
\* fallback; without a summary the latest picks are what the turn has.
LEMMA AtReflect ==
    ASSUME RunInvariant, node = "reflect"
    PROVE  /\ Summary # "none" => SummaryFallback
           /\ Summary = "none" <=>
                  \A i \in 1..Len(msgs) : Asks(msgs[i], {"shopping_summary"}) => ~Since(msgs, i)
           /\ ~SummaryFallback => Picks \in {"none", "picked"}
           /\ Summary = "none" /\ Picks = "unlinked" => SummaryFallback
<1>1. /\ Messages(msgs) /\ AllClosed(msgs) /\ OneCall(msgs) /\ Unfinished(msgs, Len(msgs))
    BY DEF RunInvariant, AgentInvariant, GroupsFit, TurnFits, RunsOn
<1>2. TurnGiven(msgs, {"shopping_summary"}, Summary)
    BY <1>1, TurnLatest DEF Summary
<1>3. Summary # "complete"
    <2> SUFFICES ASSUME Summary = "complete" PROVE FALSE
        OBVIOUS
    <2>1. PICK i \in 1..Len(msgs) : /\ Since(msgs, i) /\ Replied(msgs[i], {"shopping_summary"})
                                    /\ msgs[i].results[1] = "complete"
        BY <1>2 DEF TurnGiven
    <2> QED BY <1>1, <2>1 DEF Unfinished, Gave
<1>4. SummaryFallback <=> IF Summary # "none" THEN Summary # "complete"
                          ELSE Picks \notin {"none", "picked"}
    BY DEF SummaryFallback, Summary, Picks
<1>5. ASSUME \A i \in 1..Len(msgs) : Asks(msgs[i], {"shopping_summary"}) => ~Since(msgs, i)
      PROVE  Summary = "none"
    BY <1>2, <1>5 DEF TurnGiven, Replied
<1>6. ASSUME Summary = "none", NEW i \in 1..Len(msgs), Asks(msgs[i], {"shopping_summary"}),
             Since(msgs, i)
      PROVE  FALSE
    <2>1. Replied(msgs[i], {"shopping_summary"})
        BY <1>1, <1>6, AllReply
    <2>2. msgs[i].results[1] # "none"
        <3>1. msgs[i] \in AgentEntry
            BY <1>1, ElementOfSeq DEF Messages
        <3>2. ResultsAnswer(msgs[i])
            BY <1>1 DEF Messages
        <3>3. msgs[i].results \in Seq(ToolResult) /\ 1 \in DOMAIN msgs[i].results
            BY <2>1, <3>1, <3>2, RowsFit DEF AgentEntry, Replied
        <3>4. msgs[i].results[1] \in ToolResult
            BY <3>3, LenProperties, ElementOfSeq
        <3> QED BY <3>4, NoneIsNoResult
    <2>3. \A k \in 1..Len(msgs) : Replied(msgs[k], {"shopping_summary"}) =>
              msgs[k].results[1] # "none"
        <3> SUFFICES ASSUME NEW k \in 1..Len(msgs), Replied(msgs[k], {"shopping_summary"})
                     PROVE  msgs[k].results[1] # "none"
            OBVIOUS
        <3>1. msgs[k] \in AgentEntry /\ ResultsAnswer(msgs[k])
            BY <1>1, ElementOfSeq DEF Messages
        <3>2. msgs[k].results \in Seq(ToolResult) /\ 1 \in DOMAIN msgs[k].results
            BY <3>1, RowsFit DEF AgentEntry, Replied
        <3>3. msgs[k].results[1] \in ToolResult
            BY <3>2, LenProperties, ElementOfSeq
        <3> QED BY <3>3, NoneIsNoResult
    <2> QED BY <1>2, <1>6, <2>1, <2>3 DEF TurnGiven
<1> QED BY <1>3, <1>4, <1>5, <1>6

\* The group of a run is behind its question.
LEMMA LastIsSince ==
    ASSUME Messages(msgs), msgs # <<>>, Last(msgs).kind # "human"
    PROVE  /\ Len(msgs) \in 1..Len(msgs) /\ Last(msgs) = msgs[Len(msgs)]
           /\ Since(msgs, Len(msgs))
<1>1. Len(msgs) \in Nat \ {0}
    BY EmptySeq DEF Messages
<1>2. \A h \in 1..Len(msgs) : h >= Len(msgs) => h = Len(msgs)
    BY <1>1
<1> QED BY <1>1, <1>2 DEF Since, Last

\* Before the fallback the latest picks of the turn have been summarised, unless they can't be.
LEMMA FallbackFits ==
    ASSUME RunInvariant, node = "reflect",
           SummaryFallback \/ Picks \notin {"picked", "unlinked"}
    PROVE  PicksSummarised(msgs)
<1>1. /\ Messages(msgs) /\ AllClosed(msgs) /\ OneCall(msgs) /\ PicksBeforeSummary(msgs)
    BY DEF RunInvariant, AgentInvariant, GroupsFit, TurnFits
<1> SUFFICES ASSUME NEW i \in 1..Len(msgs), Gave(msgs[i], "item_picker", {"picked"}),
                    Since(msgs, i),
                    \A j \in 1..Len(msgs) :
                        j > i => ~Asks(msgs[j], {"item_picker", "shopping_summary"})
             PROVE  FALSE
    BY DEF PicksSummarised
<1>2. Len(msgs) \in Nat
    BY <1>1, LenProperties DEF Messages
<1>3. Replied(msgs[i], {"item_picker"}) /\ msgs[i].results[1] = "picked"
    BY DEF Gave
<1>4. \A j \in 1..Len(msgs) : j > i => ~Replied(msgs[j], {"item_picker"})
    BY DEF Replied, Asks
<1>5. TurnGiven(msgs, {"item_picker"}, Picks)
    BY <1>1, TurnLatest DEF Picks
<1>6. Picks = "picked"
    <2>1. PICK k \in 1..Len(msgs) : /\ Replied(msgs[k], {"item_picker"})
                                    /\ Picks = msgs[k].results[1]
                                    /\ \A j \in 1..Len(msgs) :
                                           j > k => ~Replied(msgs[j], {"item_picker"})
        BY <1>3, <1>5 DEF TurnGiven
    <2>2. ~(i > k) /\ ~(k > i)
        BY <1>3, <1>4, <2>1
    <2>3. k = i
        BY <1>2, <2>2
    <2> QED BY <1>3, <2>1, <2>3
<1>7. SummaryFallback /\ Summary # "none"
    BY <1>6 DEF SummaryFallback, Summary, Picks
<1>8. PICK j \in 1..Len(msgs) : Asks(msgs[j], {"shopping_summary"}) /\ Since(msgs, j)
    BY <1>7, AtReflect
<1>9. Asks(msgs[j], {"item_picker", "shopping_summary"}) /\ Asks(msgs[i], {"item_picker"})
    BY <1>3, <1>8 DEF Asks, Replied
<1>10. j # i
    BY <1>3, <1>8 DEF Asks, Replied
<1>11. j < i
    BY <1>2, <1>9, <1>10
<1> QED BY <1>1, <1>8, <1>9, <1>11 DEF PicksBeforeSummary

\* Without any search nothing is found.
LEMMA NothingFound ==
    ASSUME Messages(msgs), OneCall(msgs), NeverSearched(msgs)
    PROVE  ~\E r \in Range(Records(CurrentTurn(msgs))) :
               r.tool \in SearchTools /\ r.result = "found"
<1> DEFINE t == CurrentTurn(msgs)
           rs == Records(t)
<1>1. /\ TurnGiven(msgs, SearchTools, Latest(t, SearchTools))
      /\ Messages(t) /\ OneCall(t) /\ LatestGiven(t, SearchTools, Latest(t, SearchTools))
    BY TurnLatest
<1>2. Latest(t, SearchTools) = "none"
    BY <1>1 DEF TurnGiven, NeverSearched, Replied
<1>3. rs \in Seq(ResultRow)
    <2>1. Entry("text") \in AgentEntry /\ ResultsAnswer(Entry("text"))
        BY EntriesFit
    <2> HIDE DEF t
    <2> QED BY <1>1, <2>1, RecordsAppended
<1>4. Latest(t, SearchTools) = IF LastOf(rs, SearchTools) = 0 THEN "none"
                               ELSE rs[LastOf(rs, SearchTools)].result
    BY DEF Latest, LastOf
<1> HIDE DEF rs, t
<1>5. LastOf(rs, SearchTools) = 0 /\ \A i \in 1..Len(rs) : rs[i].tool \notin SearchTools
    <2>1. CASE LastOf(rs, SearchTools) \in 1..Len(rs)
        <3>1. rs[LastOf(rs, SearchTools)] \in ResultRow
            BY <1>3, <2>1, ElementOfSeq
        <3>2. rs[LastOf(rs, SearchTools)].result # "none"
            BY <3>1, NoneIsNoResult DEF ResultRow
        <3>3. LastOf(rs, SearchTools) # 0
            BY <1>3, <2>1, LenProperties
        <3> QED BY <1>2, <1>4, <3>2, <3>3
    <2>2. CASE LastOf(rs, SearchTools) = 0
        <3>1. Len(rs) \in Nat
            BY <1>3, LenProperties
        <3>2. LastOf(rs, SearchTools) \notin 1..Len(rs)
            BY <2>2, <3>1
        <3> QED BY <1>3, <2>2, <3>2, LastOfIs
    <2>3. LastOf(rs, SearchTools) = 0 \/ LastOf(rs, SearchTools) \in 1..Len(rs)
        BY <1>3, LastOfIs
    <2> QED BY <2>1, <2>2, <2>3
<1>6. Range(rs) = {rs[i] : i \in 1..Len(rs)}
    BY <1>3, RangeEquality
<1>7. \A r \in Range(rs) : r.tool \notin SearchTools
    BY <1>5, <1>6
<1> QED BY <1>7 DEF rs, t

\* What the last group asks, the turn has a result of.
LEMMA LastCounts ==
    ASSUME RunInvariant, node = "reflect", msgs # <<>>, Last(msgs).kind # "human"
    PROVE  /\ Asks(Last(msgs), {"item_picker"}) => Picks # "none"
           /\ Asks(Last(msgs), {"shopping_summary"}) => SummaryFallback
<1> DEFINE n == Len(msgs)
<1>1. /\ Messages(msgs) /\ AllClosed(msgs) /\ OneCall(msgs)
    BY DEF RunInvariant, AgentInvariant, GroupsFit, TurnFits, RunsOn
<1>2. n \in 1..Len(msgs) /\ Last(msgs) = msgs[n] /\ Since(msgs, n)
    BY <1>1, LastIsSince
<1> HIDE DEF n
<1>3. ASSUME Asks(msgs[n], {"item_picker"}), Picks = "none"
      PROVE  FALSE
    <2>1. Replied(msgs[n], {"item_picker"})
        BY <1>1, <1>2, <1>3, AllReply
    <2>2. TurnGiven(msgs, {"item_picker"}, Picks)
        BY <1>1, TurnLatest DEF Picks
    <2>3. PICK k \in 1..Len(msgs) : /\ Replied(msgs[k], {"item_picker"})
                                    /\ Picks = msgs[k].results[1]
        BY <1>2, <2>1, <2>2 DEF TurnGiven
    <2>4. msgs[k] \in AgentEntry /\ ResultsAnswer(msgs[k])
        BY <1>1, ElementOfSeq DEF Messages
    <2>5. msgs[k].results \in Seq(ToolResult) /\ 1 \in DOMAIN msgs[k].results
        BY <2>3, <2>4, RowsFit DEF AgentEntry, Replied
    <2>6. msgs[k].results[1] \in ToolResult
        BY <2>5, LenProperties, ElementOfSeq
    <2> QED BY <1>3, <2>3, <2>6, NoneIsNoResult
<1>4. ASSUME Asks(msgs[n], {"shopping_summary"})
      PROVE  SummaryFallback
    BY <1>2, <1>4, AtReflect
<1> QED BY <1>2, <1>3, <1>4

\* The search the model should have asked for comes below the budget.
LEMMA RunSearches ==
    ASSUME RunInvariant, AgentInvariant', AutoSearch
    PROVE  RunInvariant'
<1> DEFINE asked == <<Call("item_search", "own")>>
<1>1. /\ node = "reflect" /\ msgs' = Append(msgs, Decided(asked)) /\ iteration' = iteration + 1
      /\ steps' = steps + 1 /\ depth' = depth /\ node' = "act" /\ ~MustTerminate
    BY DEF AutoSearch, Reflected, Goes
<1>2. asked \in Seq(ToolCall) /\ Len(asked) = 1 /\ asked[1].tool = "item_search"
    BY DEF Call, ToolCall, AgentTool, ThinkTools
<1>3. asked # <<>>
    BY <1>2
<1> HIDE DEF asked
<1>4. AgentInvariant /\ TurnFits /\ StepsCounted
    BY DEF RunInvariant
<1>5. iteration \in Nat /\ ~(iteration + 1 >= Budget)
    BY <1>1, <1>4 DEF StepsCounted, MustTerminate
<1>6. iteration + 1 <= MostDecisions(depth) /\ ~(iteration + 1 > Budget)
    BY <1>5, BoundsFit
<1>7. asked[1].tool # "item_picker" /\ Len(asked) <= 1 /\ node' # "think"
    BY <1>1, <1>2
<1> QED BY <1>1, <1>2, <1>3, <1>4, <1>6, <1>7, DecisionCounts

\* Behind a refused fallback only the fallback is left: what was picked is summarised, and
\* nothing was searched for.
LEMMA RefusedIsLast ==
    ASSUME RunInvariant, node = "reflect", ~SummaryFallback, NeverSearched(msgs),
           PicksSummarised(msgs)
    PROVE  Forced = {"chat_fallback"}
<1>1. /\ Messages(msgs) /\ AllClosed(msgs) /\ OneCall(msgs) /\ Len(msgs) \in Nat
    BY LenProperties DEF RunInvariant, AgentInvariant, GroupsFit, TurnFits, Messages
<1>2. /\ \A i \in 1..Len(msgs) : Asks(msgs[i], {"shopping_summary"}) => ~Since(msgs, i)
      /\ Picks \in {"none", "picked"}
    BY AtReflect
<1>3. TurnGiven(msgs, {"item_picker"}, Picks)
    BY <1>1, TurnLatest DEF Picks
<1>4. ASSUME Picks = "picked"
      PROVE  FALSE
    <2>1. PICK i \in 1..Len(msgs) : /\ Since(msgs, i) /\ Replied(msgs[i], {"item_picker"})
                                    /\ msgs[i].results[1] = "picked"
                                    /\ \A j \in 1..Len(msgs) :
                                           j > i => ~Replied(msgs[j], {"item_picker"})
        BY <1>3, <1>4 DEF TurnGiven
    <2>2. Gave(msgs[i], "item_picker", {"picked"})
        BY <2>1 DEF Gave
    <2>3. PICK j \in 1..Len(msgs) : j > i /\ Asks(msgs[j], {"item_picker", "shopping_summary"})
        BY <2>1, <2>2 DEF PicksSummarised
    <2>4. ~Asks(msgs[j], {"item_picker"})
        BY <1>1, <2>1, <2>3, AllReply
    <2>5. Asks(msgs[j], {"shopping_summary"})
        BY <2>3, <2>4 DEF Asks
    <2>6. Since(msgs, j)
        <3>1. \A h \in 1..Len(msgs) : h >= j => h >= i
            BY <2>3
        <3> QED BY <2>1, <3>1 DEF Since
    <2> QED BY <1>2, <2>5, <2>6
<1>5. Picks = "none"
    BY <1>2, <1>4
<1>6. ~\E r \in Range(Records(CurrentTurn(msgs))) : r.tool \in SearchTools /\ r.result = "found"
    BY <1>1, NothingFound
<1> QED BY <1>5, <1>6 DEF Forced, Picks

\* What the facts of the turn force is one of the decisions left.
LEMMA RunForced ==
    ASSUME RunInvariant, AgentInvariant', ReflectForced
    PROVE  RunInvariant'
<1>1. PICK tool \in (IF SummaryFallback THEN {"chat_fallback"} ELSE Forced) :
          Reflected(<<Call(tool, "bare")>>, "act")
    BY Zenon DEF ReflectForced
<1> DEFINE asked == <<Call(tool, "bare")>>
<1>2. /\ node = "reflect" /\ msgs' = Append(msgs, Decided(asked)) /\ iteration' = iteration + 1
      /\ steps' = steps + 1 /\ depth' = depth /\ node' = "act" /\ decision' = "reflect"
    BY <1>1 DEF ReflectForced, Reflecting, Reflected, Goes
<1>3. SummaryFallback \/ depth = 0
    BY DEF ReflectForced, Forces
<1>4. tool \in {"item_picker", "shopping_summary", "chat_fallback"}
    BY <1>1 DEF Forced
<1>5. asked \in Seq(ToolCall) /\ Len(asked) = 1 /\ asked[1].tool = tool
    BY <1>4 DEF Call, ToolCall, AgentTool, ReflectTools
<1>6. asked # <<>>
    BY <1>5
<1> HIDE DEF asked
<1>7. AgentInvariant /\ TurnFits /\ StepsCounted /\ Spent
    BY DEF RunInvariant
<1>8. iteration \in Nat /\ depth \in {0, 1}
    BY <1>2, <1>7 DEF StepsCounted
<1>9. ASSUME tool # "chat_fallback"
      PROVE  ~SummaryFallback /\ depth = 0
    BY <1>1, <1>3, <1>9
<1>10. ASSUME tool = "item_picker"
       PROVE  /\ \A i \in 1..Len(msgs) : Asks(msgs[i], {"shopping_summary"}) => ~Since(msgs, i)
              /\ Picks = "none"
    <2>1. ~SummaryFallback
        BY <1>9, <1>10
    <2>2. Picks = "none"
        BY <1>1, <1>10, <2>1 DEF Forced, Picks
    <2> QED BY <1>2, <2>1, <2>2, AtReflect
<1>11. ASSUME tool = "chat_fallback"
       PROVE  PicksSummarised(msgs)
    <2>1. SummaryFallback \/ Picks \notin {"picked", "unlinked"}
        BY <1>1, <1>11 DEF Forced, Picks
    <2> QED BY <1>2, <2>1, FallbackFits
<1>12. /\ Budget \in Nat /\ GuardLimit \in Nat /\ MostDecisions(depth) \in Nat
       /\ MostDecisions(depth) >= Budget + 2 /\ MostDecisions(depth) >= GuardLimit
       /\ depth = 0 => MostDecisions(depth) >= Budget + 3
    BY BoundsFit
<1>13. iteration + 1 <= MostDecisions(depth) /\ SpentDecision(tool)
    <2>1. CASE iteration <= Budget
        <3>1. /\ iteration + 1 <= MostDecisions(depth) /\ iteration + 1 <= Budget + 1
              /\ iteration + 2 <= Budget + 3
            BY <1>8, <1>12, <2>1
        <3> QED BY <1>4, <1>9, <1>11, <3>1 DEF SpentDecision
    <2>2. CASE iteration > Budget
        <3> DEFINE e == Last(msgs)
        <3>1. SpentOn(e)
            BY <1>2, <1>7, <2>2 DEF Spent
        <3>2. /\ Asks(e, {"item_picker"}) => Picks # "none"
              /\ Asks(e, {"shopping_summary"}) => SummaryFallback
            BY <1>2, <3>1, LastCounts DEF SpentOn
        <3> HIDE DEF e
        <3>3. CASE Asks(e, {"item_picker"})
            <4>1. depth = 0 /\ iteration <= Budget + 1 /\ tool # "item_picker"
                BY <1>10, <3>1, <3>2, <3>3 DEF SpentOn
            <4>2. iteration + 1 <= MostDecisions(depth) /\ iteration + 2 <= Budget + 3
                BY <1>8, <1>12, <4>1
            <4> QED BY <1>4, <1>11, <4>1, <4>2 DEF SpentDecision
        <3>4. CASE Asks(e, {"shopping_summary"})
            <4>1. tool = "chat_fallback"
                BY <1>9, <3>2, <3>4
            <4>2. iteration + 1 <= IF depth = 0 THEN Budget + 3 ELSE MostDecisions(depth)
                BY <3>1, <3>4 DEF SpentOn
            <4>3. iteration + 1 <= MostDecisions(depth)
                BY <1>8, <1>12, <4>2
            <4> QED BY <1>11, <4>1, <4>3 DEF SpentDecision
        <3>5. CASE Asks(e, {"chat_fallback"})
            <4>1. FallbackRefused /\ (depth = 0 => PicksSummarised(msgs))
                BY <1>2, <3>1, <3>5 DEF SpentOn, RunsOn
            <4>2. tool = "chat_fallback"
                <5>1. CASE SummaryFallback
                    BY <1>9, <5>1
                <5>2. CASE ~SummaryFallback
                    <6>1. Forced = {"chat_fallback"}
                        BY <1>2, <1>3, <4>1, <5>2, RefusedIsLast DEF FallbackRefused
                    <6> QED BY <1>1, <5>2, <6>1
                <5> QED BY <5>1, <5>2
            <4>3. iteration + 1 <= MostDecisions(depth)
                BY <1>8, <1>12, <4>1 DEF FallbackRefused
            <4> QED BY <1>11, <4>2, <4>3 DEF SpentDecision
        <3>6. Asks(e, {"item_picker"}) \/ Asks(e, {"shopping_summary"}) \/ Asks(e, {"chat_fallback"})
            BY <3>1 DEF SpentOn, Asks
        <3> QED BY <3>3, <3>4, <3>5, <3>6
    <2> QED BY <1>8, <1>12, <2>1, <2>2
<1>14. Len(asked) <= 1 /\ node' # "think"
    BY <1>2, <1>5
<1>15. asked[1].tool = "item_picker" =>
           \A i \in 1..Len(msgs) : Asks(msgs[i], {"shopping_summary"}) => ~Since(msgs, i)
    BY <1>5, <1>10
<1>16. SpentDecision(asked[1].tool)
    BY <1>5, <1>13
<1> QED BY <1>2, <1>5, <1>6, <1>7, <1>13, <1>14, <1>15, <1>16, DecisionCounts

\* What the model decides is one of the decisions left.
LEMMA RunFreely ==
    ASSUME RunInvariant, AgentInvariant', NEW asked \in Decisions(ReflectTools),
           NEW next \in {"act", "think", "done"}, ReflectFreely(asked, next)
    PROVE  RunInvariant'
<1>1. /\ node = "reflect" /\ msgs' = Append(msgs, Decided(asked)) /\ iteration' = iteration + 1
      /\ steps' = steps + 1 /\ depth' = depth /\ decision' = "reflect"
      /\ node' = IF next = "done" THEN "idle" ELSE next
    BY DEF ReflectFreely, Reflecting, Reflected, Goes
<1>2. /\ ~SummaryFallback /\ ~(MustTerminate /\ depth = 0)
      /\ asked # <<>> /\ MustTerminate => asked[1].tool \in TerminalTools
      /\ asked # <<>> => next = "act"
      /\ asked = <<>> => next \in {"think", "done"}
      /\ asked = <<>> /\ MustTerminate => next = "done"
    BY DEF ReflectFreely, Forces
<1>3. asked \in Seq(ToolCall) /\ Len(asked) <= 1
    <2>1. ReflectTools \in SUBSET AgentTool
        BY DEF AgentTool
    <2>2. asked = <<>> \/ Len(asked) = 1
        BY <2>1, DecisionShape
    <2>3. CASE asked = <<>>
        <3>1. Len(asked) = 0 /\ asked \in Seq(ToolCall)
            BY <2>3
        <3> QED BY <3>1
    <2>4. CASE Len(asked) = 1
        BY <2>1, <2>4, DecisionShape
    <2> QED BY <2>2, <2>3, <2>4
<1>4. AgentInvariant /\ TurnFits /\ StepsCounted /\ Spent
    BY DEF RunInvariant
<1>5. iteration \in Nat /\ depth \in {0, 1}
    BY <1>1, <1>4 DEF StepsCounted
<1>6. \A i \in 1..Len(msgs) : Asks(msgs[i], {"shopping_summary"}) => ~Since(msgs, i)
    BY <1>1, <1>2, AtReflect
<1>7. /\ Budget \in Nat /\ GuardLimit \in Nat /\ MostDecisions(depth) \in Nat
      /\ MostDecisions(depth) >= Budget + 2 /\ MostDecisions(depth) >= GuardLimit
      /\ depth # 0 => MostDecisions(depth) >= GuardLimit + 1
    BY BoundsFit
<1>8. ASSUME iteration + 1 >= Budget
      PROVE  MustTerminate /\ depth = 1
    BY <1>2, <1>5, <1>8 DEF MustTerminate
<1>9. ASSUME iteration > Budget
      PROVE  iteration < GuardLimit /\ depth = 1
    <2> DEFINE e == Last(msgs)
    <2>1. SpentOn(e)
        BY <1>1, <1>4, <1>9 DEF Spent
    <2>2. Asks(e, {"shopping_summary"}) => SummaryFallback
        BY <1>1, <2>1, LastCounts DEF SpentOn
    <2> HIDE DEF e
    <2>3. depth = 1
        BY <1>5, <1>7, <1>8, <1>9
    <2>4. ~Asks(e, {"item_picker"})
        BY <2>1, <2>3 DEF SpentOn
    <2>5. Asks(e, {"chat_fallback"})
        BY <1>2, <2>1, <2>2, <2>4 DEF SpentOn, Asks
    <2>6. FallbackRefused
        BY <1>1, <2>1, <2>5 DEF SpentOn, RunsOn
    <2> QED BY <2>3, <2>6 DEF FallbackRefused
<1>10. iteration + 1 <= MostDecisions(depth)
    BY <1>5, <1>7, <1>9
<1>11. node' = "think" => iteration + 1 < Budget
    <2>1. node' = "think" => ~MustTerminate
        BY <1>1, <1>2
    <2> QED BY <1>5, <1>7, <1>8, <2>1
<1>12. /\ asked # <<>> => node' = "act"
       /\ asked = <<>> => node' \in {"reflect", "think", "idle"} /\ node' # "reflect"
    BY <1>1, <1>2
<1>13. ASSUME iteration + 1 > Budget, asked # <<>>
       PROVE  SpentDecision(asked[1].tool)
    <2>1. asked[1].tool \in {"shopping_summary", "chat_fallback"} /\ depth = 1
        BY <1>2, <1>5, <1>7, <1>8, <1>13 DEF TerminalTools
    <2>2. iteration + 2 <= MostDecisions(depth)
        BY <1>5, <1>7, <1>9, <2>1
    <2> QED BY <2>1, <2>2 DEF SpentDecision
<1> QED BY <1>1, <1>3, <1>4, <1>6, <1>10, <1>11, <1>12, <1>13, DecisionCounts

-----------------------------------------------------------------------------
\* Before the first run nothing counts.
LEMMA RunInits == AgentInit => RunInvariant
<1> SUFFICES ASSUME AgentInit PROVE RunInvariant
    OBVIOUS
<1>1. msgs = <<>> /\ node = "idle" /\ iteration = 0 /\ steps = 0 /\ Len(msgs) = 0
    BY DEF AgentInit
<1>2. AgentInvariant
    BY AgentStarts
<1>3. TurnFits
    BY <1>1 DEF TurnFits, OneCall, PicksBeforeSummary, RunsOn
<1>4. StepsCounted
    <2>1. MostDecisions(depth) \in Nat
        BY BoundsFit
    <2> QED BY <1>1, <2>1 DEF StepsCounted
<1>5. Spent
    BY <1>1 DEF Spent
<1> QED BY <1>2, <1>3, <1>4, <1>5 DEF RunInvariant

\* Every step counts.
LEMMA RunKeeps ==
    ASSUME RunInvariant, [AgentNext]_agentVars
    PROVE  RunInvariant'
<1>1. AgentInvariant'
    BY AgentKeeps DEF RunInvariant
<1>2. CASE UNCHANGED agentVars
    <2>1. TurnFits'
        BY <1>2 DEF RunInvariant, TurnFits, RunsOn, agentVars
    <2>2. StepsCounted'
        BY <1>2 DEF RunInvariant, StepsCounted, MostDecisions, agentVars
    <2>3. Spent'
        <3>1. SpentOn(Last(msgs)) => SpentOn(Last(msgs))'
            BY <1>2 DEF SpentOn, MostDecisions, FallbackRefused, RunsOn, agentVars
        <3> QED BY <1>2, <3>1 DEF RunInvariant, Spent, agentVars
    <2> QED BY <1>1, <2>1, <2>2, <2>3 DEF RunInvariant
<1>3. CASE AgentNext
    BY <1>1, <1>3, RunStarts, RunInterrupted, RunPrepares, RunThinks, RunActs, RunObserves,
       RunCompresses, RunSearches, RunForced, RunFreely, Zenon DEF AgentNext
<1> QED BY <1>2, <1>3

\* For any budget, limit of the guard, window, turns and interruptions: the decisions of a run
\* are counted, and behind the budget only the forced ones are left, in their order.
THEOREM RunInvariance == AgentSpec => []RunInvariant
<1>1. AgentInit => RunInvariant
    BY RunInits
<1>2. RunInvariant /\ [AgentNext]_agentVars => RunInvariant'
    BY RunKeeps
<1> QED BY <1>1, <1>2, PTL DEF AgentSpec

\* A run comes to its end: at most four supersteps for each decision, and no decision behind
\* the forced ones and the guard of chat_fallback (_reflect, _forced_termination_response,
\* guarded_tool_call).
THEOREM StepsAreBounded == AgentSpec => []StepsBounded
<1>1. RunInvariant => StepsBounded
    <2> SUFFICES ASSUME RunInvariant PROVE StepsBounded
        OBVIOUS
    <2>1. node \in {"idle", "prepare", "think", "act", "observe", "compress", "reflect"}
        BY AgentTyped DEF RunInvariant, AgentInvariant, AgentScalars
    <2>2. /\ iteration \in Nat /\ steps \in Nat /\ iteration <= MostDecisions(depth)
          /\ steps <= 4 * iteration + 1
        BY <2>1 DEF RunInvariant, StepsCounted
    <2>3. MostDecisions(depth) \in Nat
        BY BoundsFit
    <2>4. steps <= 1 + 4 * MostDecisions(depth)
        BY <2>2, <2>3
    <2> QED BY <2>4 DEF StepsBounded, MostDecisions
<1> QED BY <1>1, RunInvariance, PTL
=============================================================================
