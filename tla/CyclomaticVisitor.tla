------------------------- MODULE CyclomaticVisitor -------------------------
(***************************************************************************)
(* ScenarioMetrics.cpp, CyclomaticVisitor and ComputeFactors2: every       *)
(* program that ProgramVisitor finds is cut in blocks, through which play  *)
(* flows without a trigger or a condition; blocks and the edges between    *)
(* them are counted.  ComputeFactors counts the programs as they are.      *)
(*                                                                         *)
(* Ids are numbers, and std::set and std::map go through them in order;    *)
(* the vectors of the score are gone through in any order.  The recursion  *)
(* of the three mark() is a stack of the calls still to be made.           *)
(***************************************************************************)
EXTENDS ProgramVisitor, FiniteSetsExt

\* An interval leads to a later date, as the two syncs it is made between have
\* it in ScenarioGenerator.cpp: of any syncs, one follows none of the others.
Forward(s) ==
    \A S \in SUBSET s.syncs : S # {} =>
        \E tn \in S : \A i \in s.intervals :
            s.syncOf[s.eventOf[s.endState[i]]] = tn =>
                s.syncOf[s.eventOf[s.startState[i]]] \notin S

ASSUME ForwardAssumption == \A s \in Scenarios : Forward(s)

VARIABLES
    step,            \* where the algorithm is
    program,         \* program_n, the program being cut
    blockOf,         \* the maps intervals, events and nodes: id -> block
    maxMark,
    startingNodes,
    startingEvents,
    start,           \* the node or event of the block under way
    calls,           \* sets of ids mark() is still to be called for, innermost first
    notSame, notSure, notSameEvent,
    previously,      \* prev_notSame, prev_notSure and prev_notSameEvent
    visited,         \* the last id the loop of iterate() has looked at
    factors          \* E and N

lists   == <<startingNodes, startingEvents>>
results == <<notSame, notSure, notSameEvent>>
working == <<start, calls, results, previously, visited>>
vars    == <<programVars, step, program, blockOf, maxMark, lists, working, factors>>

\* The n-th in order has n - 1 before it.
InOrder(S) ==
    [n \in 1..Cardinality(S) |-> CHOOSE x \in S : Cardinality({y \in S : y < x}) = n - 1]

Init ==
    /\ ProgramInit
    /\ step = "programs"
    /\ program = 0 /\ maxMark = 0 /\ start = 0 /\ visited = 0
    /\ blockOf = [x \in Elements |-> NoMark]
    /\ startingNodes = << >> /\ startingEvents = << >> /\ calls = << >>
    /\ notSame = {} /\ notSure = {} /\ notSameEvent = {}
    /\ previously = << >>
    /\ factors = [E |-> 0, N |-> 0]

\* ProgramVisitor v(scenar), in ComputeFactors2.
FindPrograms ==
    /\ step = "programs"
    /\ \/ ProgramStep /\ UNCHANGED step
       \/ Marked /\ step' = "next" /\ UNCHANGED programVars
    /\ UNCHANGED <<program, blockOf, maxMark, lists, working, factors>>

\* The constructor, for each program.
NextProgram ==
    /\ step = "next" /\ program < currentMark
    /\ step' = "nodes"
    /\ blockOf' = [x \in Elements |-> NoMark]
    /\ maxMark' = 0
    /\ startingNodes' = InOrder(startingtimeSyncs(program))
    /\ startingEvents' = << >>
    /\ UNCHANGED <<programVars, program, working, factors>>

NoMoreProgram ==
    /\ step = "next" /\ program = currentMark
    /\ step' = "done"
    /\ UNCHANGED <<programVars, program, blockOf, maxMark, lists, working, factors>>

-----------------------------------------------------------------------------
(* The two inner loops over startingNodes and startingEvents.              *)

\* Calls for the ids in S, when there are any.
CallsFor(S) == IF S = {} THEN << >> ELSE <<S>>

nextOfEvent(ev) == {i \in Intervals : startEvent(i) = ev}

Compute(x, first) ==
    /\ start' = x
    /\ calls' = first
    /\ notSame' = {} /\ notSure' = {} /\ notSameEvent' = {}
    /\ previously' = << >>
    /\ step' = "block"
    /\ UNCHANGED <<programVars, program, maxMark, lists, visited, factors>>

computeNode ==
    /\ step = "nodes" /\ startingNodes # << >>
    /\ Compute(Head(startingNodes), <<{Head(startingNodes)}>>)
    /\ UNCHANGED blockOf

computeEvent ==
    /\ step = "events" /\ startingEvents # << >>
    /\ blockOf' = [blockOf EXCEPT ![Head(startingEvents)] = maxMark]
    /\ Compute(Head(startingEvents), CallsFor(nextOfEvent(Head(startingEvents))))

\* A loop ends when its list is empty; the outer one when both are.
EndOfList ==
    /\ \/ step = "nodes" /\ startingNodes = << >> /\ step' = "events"
       \/ /\ step = "events" /\ startingEvents = << >>
          /\ step' = IF startingNodes = << >> THEN "count" ELSE "nodes"
    /\ UNCHANGED <<programVars, program, blockOf, maxMark, lists, working, factors>>

-----------------------------------------------------------------------------
(* mark(), for a node, an event and an interval.                           *)

\* Faulty: triggers are not looked at.
FlowsThroughTriggers(tn, b) ==
    LET others == {b[i] : i \in previousIntervals(tn)} \ {maxMark}
    IN  IF others \ {NoMark} # {} THEN "NotSame"
        ELSE IF NoMark \in others THEN "NotSure"
        ELSE "Same"

\* timeSyncIsInSameBlock, with the blocks in b.
InSameBlock(tn, b) ==
    LET others == {b[i] : i \in previousIntervals(tn)} \ {maxMark}
    IN  IF tn \in scenar.active \/ others \ {NoMark} # {} THEN "NotSame"
        ELSE IF NoMark \in others THEN "NotSure"
        ELSE "Same"

\* The call for x is replaced by those it makes.
Call(x, then) == calls' = CallsFor(then) \o CallsFor(Head(calls) \ {x}) \o Tail(calls)

MarkNode(tn) ==
    /\ tn \in scenar.syncs
    /\ blockOf' = [blockOf EXCEPT ![tn] = maxMark]
    /\ Call(tn, {ev \in scenar.events : scenar.syncOf[ev] = tn})
    /\ UNCHANGED results

\* Faulty: an event that has a block keeps it.
MarkEventOnce(ev) ==
    /\ ev \in scenar.events
    /\ IF ev \notin scenar.conditioned
       THEN /\ blockOf' = [blockOf EXCEPT ![ev] = IF @ = NoMark THEN maxMark ELSE @]
            /\ Call(ev, nextOfEvent(ev))
            /\ UNCHANGED notSameEvent
       ELSE /\ notSameEvent' = notSameEvent \cup {ev}
            /\ Call(ev, {})
            /\ UNCHANGED blockOf
    /\ UNCHANGED <<notSame, notSure>>

MarkEvent(ev) ==
    /\ ev \in scenar.events
    /\ IF ev \notin scenar.conditioned
       THEN /\ blockOf' = [blockOf EXCEPT ![ev] = maxMark]
            /\ Call(ev, nextOfEvent(ev))
            /\ UNCHANGED notSameEvent
       ELSE /\ notSameEvent' = notSameEvent \cup {ev}
            /\ Call(ev, {})
            /\ UNCHANGED blockOf
    /\ UNCHANGED <<notSame, notSure>>

MarkInterval(i) ==
    LET b == [blockOf EXCEPT ![i] = maxMark]
        tn == endTimeSync(i)
        same == InSameBlock(tn, b)
    IN  /\ i \in Intervals
        /\ blockOf' = b
        /\ Call(i, IF same = "Same" THEN {tn} ELSE {})
        /\ notSure' = IF same = "NotSure" THEN notSure \cup {tn} ELSE notSure
        /\ notSame' = IF same = "NotSame" THEN notSame \cup {tn} ELSE notSame
        /\ UNCHANGED notSameEvent

MarkCall ==
    /\ step = "block" /\ calls # << >>
    /\ \E x \in Head(calls) : MarkNode(x) \/ MarkEvent(x) \/ MarkInterval(x)
    /\ UNCHANGED <<programVars, step, program, maxMark, lists, start, previously, visited,
                   factors>>

-----------------------------------------------------------------------------
(* iterate()                                                               *)

Iterating == step = "block" /\ calls = << >>
PassOver  == previously = << >> \/ \A tn \in notSure : tn <= visited

\* Faulty: what the last pass has brought is not remembered.
PassWithoutMemory ==
    /\ Iterating /\ PassOver /\ previously # results
    /\ visited' = 0
    /\ UNCHANGED <<programVars, step, program, blockOf, maxMark, lists, start, calls, results,
                   previously, factors>>

\* do, while the last pass has brought something new.
Pass ==
    /\ Iterating /\ PassOver /\ previously # results
    /\ previously' = results
    /\ visited' = 0
    /\ UNCHANGED <<programVars, step, program, blockOf, maxMark, lists, start, calls, results,
                   factors>>

Visit(tn) ==
    /\ Iterating /\ ~PassOver
    /\ tn = Min({x \in notSure : x > visited})
    /\ visited' = tn
    /\ UNCHANGED <<programVars, program, blockOf, maxMark, lists, start, notSameEvent,
                   previously, factors>>

StillNotSure(tn) ==
    /\ Visit(tn) /\ InSameBlock(tn, blockOf) = "NotSure"
    /\ UNCHANGED <<step, calls, notSame, notSure>>

\* id and the iterator of the loop refer to the element that is erased, and
\* both are used after that: either the memory still holds what it did, and the
\* loop goes on, or the program fails.
Decided(tn) ==
    LET same == InSameBlock(tn, blockOf)
    IN  /\ Visit(tn) /\ same # "NotSure"
        /\ notSure' = notSure \ {tn}
        /\ notSame' = IF same = "NotSame" THEN notSame \cup {tn} ELSE notSame
        /\ calls' = IF same = "Same" THEN <<{tn}>> ELSE << >>
        /\ step' \in {"block", "crashed"}

Without(list, x) ==
    LET kept == InOrder({n \in DOMAIN list : list[n] # x})
    IN  [n \in DOMAIN kept |-> list[kept[n]]]

\* "Now we should have reached our limits."
Limits == notSame \cup notSure

\* Faulty: the events with a condition start no block.
EndBlockForgets ==
    /\ Iterating /\ PassOver /\ previously = results
    /\ startingNodes' = Without(startingNodes \o InOrder(Limits), start)
    /\ startingEvents' = Without(startingEvents, start)
    /\ notSame' = Limits
    /\ notSure' = {}
    /\ maxMark' = maxMark + 1
    /\ step' = IF start \in scenar.syncs THEN "nodes" ELSE "events"
    /\ UNCHANGED <<programVars, program, blockOf, start, calls, notSameEvent, previously,
                   visited, factors>>

\* Where others start.
EndBlock ==
    /\ Iterating /\ PassOver /\ previously = results
    /\ startingNodes' = Without(startingNodes \o InOrder(Limits), start)
    /\ startingEvents' = Without(startingEvents \o InOrder(notSameEvent), start)
    /\ notSame' = Limits
    /\ notSure' = {}
    /\ maxMark' = maxMark + 1
    /\ step' = IF start \in scenar.syncs THEN "nodes" ELSE "events"
    /\ UNCHANGED <<programVars, program, blockOf, start, calls, notSameEvent, previously,
                   visited, factors>>

-----------------------------------------------------------------------------
(* ComputeFactors2, over the blocks of a program.                          *)

Blocks == 0..(maxMark - 1)
InBlock(b, S) == {x \in S : blockOf[x] = b}

\* nextBlocks.insert(it->block && it->block != block.block): a bool.
IntervalEdges(b) ==
    {IF c # 0 /\ c # b THEN 1 ELSE 0 :
        c \in {blockOf[endTimeSync(i)] : i \in InBlock(b, Intervals)} \ {NoMark}}

EventEdges(b) ==
    LET evs  == {ev \in scenar.events : scenar.syncOf[ev] \in InBlock(b, scenar.syncs)}
        next == {blockOf[ev] : ev \in evs} \ {NoMark, b}
    IN  next \cup {-c : c \in next}

nextBlocks(b) == IntervalEdges(b) \cup EventEdges(b)

Count ==
    /\ step = "count"
    /\ factors' = [N |-> factors.N + maxMark,
                   E |-> factors.E + MapThenSumSet(LAMBDA b : Cardinality(nextBlocks(b)), Blocks)]
    /\ program' = program + 1
    /\ step' = "next"
    /\ UNCHANGED <<programVars, blockOf, maxMark, lists, working>>

-----------------------------------------------------------------------------
(* ComputeFactors, over the programs.                                      *)

Sizes(S) == MapThenSumSet(LAMBDA m : Cardinality(S \cap Program(m)), 0..(currentMark - 1))

ComputeFactors ==
    [edgeCount |-> Sizes(scenar.events) + Sizes(scenar.syncs),
     nodeCount |-> Sizes(Intervals),
     connectedComponents |-> currentMark]

-----------------------------------------------------------------------------
Finished == step \in {"done", "crashed"} /\ UNCHANGED vars

Next ==
    \/ FindPrograms \/ NextProgram \/ NoMoreProgram
    \/ computeNode \/ computeEvent \/ EndOfList \/ MarkCall
    \/ Pass
    \/ \E tn \in notSure : StillNotSure(tn) \/ Decided(tn)
    \/ EndBlock \/ Count
    \/ Finished

Spec == Init /\ [][Next]_vars

\* A sequential program runs as long as it can.
FairSpec == Spec /\ WF_vars(Next)

-----------------------------------------------------------------------------
\* The two visitors end: a sync may be put in a block several times, but no
\* list grows for ever, and iterate() stops bringing anything new.
Ends == <>(step \in {"done", "crashed"})

Mine(S) == {x \in S : mark[x] = program}

\* Once a program is cut, its intervals and syncs are all in some block, and
\* nothing of another program is, though marks are written several times and
\* lists hold what several blocks have left.
BlocksCoverProgram ==
    step = "count" => \A x \in Intervals \cup scenar.syncs :
        blockOf[x] # NoMark <=> mark[x] = program

\* "Each condition yields a new block. Each timeSync with a trigger yields a new
\* block" (lines 981-983), and so does one "if previous intervals are from
\* different blocks": in the end none of them is in a block that flows into it.
NewBlocks ==
    step = "count" =>
        /\ \A tn \in Mine(scenar.syncs) :
              LET before == {blockOf[i] : i \in previousIntervals(tn)}
              IN  tn \in scenar.active \/ Cardinality(before) > 1 => blockOf[tn] \notin before
        /\ \A ev \in Mine(scenar.conditioned) : blockOf[ev] # blockOf[scenar.syncOf[ev]]

\* What does not split a block does not leave it: an interval is in the block of
\* its start event, and an event without condition in the block of its sync,
\* also after the sync has been put in another block.
BlocksFlow ==
    step = "count" =>
        /\ \A i \in Mine(Intervals) : blockOf[i] = blockOf[startEvent(i)]
        /\ \A ev \in Mine(scenar.events) \ scenar.conditioned :
              blockOf[ev] = blockOf[scenar.syncOf[ev]]

\* The connected parts of the scenario.
Parts == {S \in SUBSET Intervals : /\ S # {} /\ Closed(S)
                                   /\ \A T \in SUBSET S : T # {} /\ Closed(T) => T = S}

\* The events and syncs that some interval touches.
Vertices ==
    Cardinality(UNION {{startEvent(i), endEvent(i)} : i \in Intervals})
        + Cardinality(UNION {{startTimeSync(i), endTimeSync(i)} : i \in Intervals})

\* ComputeFactors counts every interval once, and once every event and sync that
\* some interval touches, and the connected parts of the scenario are its
\* components, in whatever order they were found; ComputeFactors2 cuts each of
\* them in a block at least.  Which of the two counts is that of the edges is for
\* IntervalsAreEdges to say.
CountsParts ==
    step = "done" =>
        /\ {ComputeFactors.edgeCount, ComputeFactors.nodeCount}
              = {Cardinality(Intervals), Vertices}
        /\ ComputeFactors.connectedComponents = Cardinality(Parts)
        /\ factors.N >= ComputeFactors.connectedComponents

\* "Each interval is an edge, each node / event is a vertice"
\* (ScenarioMetrics.cpp:1310): what Complexity subtracts from one another.
IntervalsAreEdges ==
    step = "done" =>
        /\ ComputeFactors.edgeCount = Cardinality(Intervals)
        /\ ComputeFactors.nodeCount = Vertices
=============================================================================
