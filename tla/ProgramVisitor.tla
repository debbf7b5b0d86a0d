--------------------------- MODULE ProgramVisitor ---------------------------
(***************************************************************************)
(* ScenarioMetrics.cpp, ProgramVisitor: the objects of a scenario are      *)
(* marked with the number of the program they belong to, "a connected set  *)
(* of intervals, etc.", by a recursive walk from each interval that has no *)
(* mark yet.                                                               *)
(*                                                                         *)
(* The four maps intervals, events, nodes and states are one function on   *)
(* the ids, which are distinct.  The recursion of mark() is a stack with,  *)
(* for every call under way, what is left of its four loops; the vectors   *)
(* they go through are visited in any order.                               *)
(***************************************************************************)
EXTENDS Integers, Sequences, FiniteSets

CONSTANT Scenarios    \* the documents the visitor may be given

ScenarioOK(s) ==
    /\ s.startState \in [s.intervals -> s.states]
    /\ s.endState \in [s.intervals -> s.states]
    /\ s.eventOf \in [s.states -> s.events]
    /\ s.syncOf \in [s.events -> s.syncs]
    /\ s.active \subseteq s.syncs
    /\ s.conditioned \subseteq s.events
    \* an id is that of one object
    /\ s.intervals \cap (s.states \cup s.events \cup s.syncs) = {}
    /\ s.states \cap (s.events \cup s.syncs) = {} /\ s.events \cap s.syncs = {}
    \* ids are numbers, and the vectors of the scenario have an end
    /\ s.events \cup s.syncs \subseteq Nat
    /\ IsFiniteSet(s.intervals) /\ IsFiniteSet(s.events) /\ IsFiniteSet(s.syncs)

ASSUME ScenariosAssumption == \A s \in Scenarios : ScenarioOK(s)

VARIABLES
    scenar,       \* the document
    mark,         \* the maps intervals, events, nodes and states
    currentMark,
    stack         \* the calls of mark() under way, the last one first

programVars == <<scenar, mark, currentMark, stack>>

NoMark == -1

Intervals == scenar.intervals
Elements  == Intervals \cup scenar.states \cup scenar.events \cup scenar.syncs

startEvent(i)    == scenar.eventOf[scenar.startState[i]]
endEvent(i)      == scenar.eventOf[scenar.endState[i]]
startTimeSync(i) == scenar.syncOf[startEvent(i)]
endTimeSync(i)   == scenar.syncOf[endEvent(i)]

previousIntervals(tn) == {i \in Intervals : endTimeSync(i) = tn}
nextIntervals(tn)     == {i \in Intervals : startTimeSync(i) = tn}

ProgramInit ==
    /\ scenar \in Scenarios
    /\ mark = [x \in Elements |-> NoMark]
    /\ currentMark = 0
    /\ stack = << >>

-----------------------------------------------------------------------------
\* What a call marks, and the intervals its four loops call mark() for.
Touched(i) ==
    {i, scenar.startState[i], scenar.endState[i], startEvent(i), endEvent(i),
     startTimeSync(i), endTimeSync(i)}

\* Faulty: one end of the interval is not looked at.
LoopsBefore(i) ==
    <<previousIntervals(startTimeSync(i)), nextIntervals(startTimeSync(i)), {}, {}>>

Loops(i) ==
    <<previousIntervals(startTimeSync(i)), nextIntervals(startTimeSync(i)),
      previousIntervals(endTimeSync(i)), nextIntervals(endTimeSync(i))>>

\* The next call a frame makes: interval i of its loop k.
Calls(frame, k, i) ==
    /\ k \in 1..4 /\ i \in frame[k]
    /\ \A l \in 1..(k - 1) : frame[l] = {}

\* Faulty: the mark of the next program.
MarkAhead(i) ==
    mark' = [x \in DOMAIN mark |-> IF x \in Touched(i) THEN currentMark + 1 ELSE mark[x]]

Mark(i) == mark' = [x \in DOMAIN mark |-> IF x \in Touched(i) THEN currentMark ELSE mark[x]]

\* The loop of the constructor: one more program.
MarkFirst(i) ==
    /\ stack = << >> /\ mark[i] = NoMark
    /\ Mark(i)
    /\ stack' = <<Loops(i)>>
    /\ UNCHANGED <<scenar, currentMark>>

\* mark(i) from a loop of the call on top.  SCORE_ASSERT lets it go on only
\* when the interval has the current mark or none.
MarkAgain(k, i) ==
    /\ stack # << >> /\ Calls(Head(stack), k, i)
    /\ mark[i] = currentMark
    /\ stack' = <<[Head(stack) EXCEPT ![k] = @ \ {i}]>> \o Tail(stack)
    /\ UNCHANGED <<scenar, mark, currentMark>>

MarkNext(k, i) ==
    /\ stack # << >> /\ Calls(Head(stack), k, i)
    /\ mark[i] = NoMark
    /\ Mark(i)
    /\ stack' = <<Loops(i), [Head(stack) EXCEPT ![k] = @ \ {i}]>> \o Tail(stack)
    /\ UNCHANGED <<scenar, currentMark>>

\* Faulty: the constructor does not go to the next mark.
ReturnToSameMark ==
    /\ stack # << >>
    /\ \A k \in 1..4 : Head(stack)[k] = {}
    /\ stack' = Tail(stack)
    /\ UNCHANGED <<scenar, mark, currentMark>>

\* A call returns; the constructor goes on after the first one.
Return ==
    /\ stack # << >>
    /\ \A k \in 1..4 : Head(stack)[k] = {}
    /\ stack' = Tail(stack)
    /\ currentMark' = IF Len(stack) = 1 THEN currentMark + 1 ELSE currentMark
    /\ UNCHANGED <<scenar, mark>>

ProgramStep ==
    \/ \E i \in Intervals : MarkFirst(i)
    \/ \E i \in Intervals, k \in 1..4 : MarkAgain(k, i) \/ MarkNext(k, i)
    \/ Return

Marked == stack = << >> /\ \A i \in Intervals : mark[i] # NoMark

ProgramSpec == ProgramInit /\ [][ProgramStep]_programVars

-----------------------------------------------------------------------------
\* Faulty: what earlier programs have is there as well.
ProgramUpTo(m) == {x \in Elements : mark[x] \in 0..m}

\* programs(): the elements of program m, and where it starts.
Program(m) == {x \in Elements : mark[x] = m}

startingtimeSyncs(m) ==
    {tn \in scenar.syncs \cap Program(m) : previousIntervals(tn) = {}}

-----------------------------------------------------------------------------
Marks == {NoMark} \cup (0..currentMark)

ProgramTypeOK ==
    /\ scenar \in Scenarios
    /\ currentMark \in Nat
    /\ mark \in [Elements -> Marks]
    /\ stack \in Seq([1..4 -> SUBSET Intervals])

\* Intervals that meet on a sync.
Meets(i, j) ==
    {startTimeSync(i), endTimeSync(i)} \cap {startTimeSync(j), endTimeSync(j)} # {}

\* The intervals the calls under way are still to call mark() for.
Pending(frame) == UNION {frame[k] : k \in 1..4}
ToCall == UNION {Pending(stack[n]) : n \in 1..Len(stack)}

\* The SCORE_ASSERT of line 920: whatever calls are still to come, none of
\* them is for an interval of an earlier program.
AssertionHolds == \A i \in ToCall : mark[i] \in {NoMark, currentMark}

\* A marked interval and its states, events and syncs have one mark, though
\* every later call that touches a sync, an event or a state writes it again.
MarksAgree ==
    \A i \in Intervals : mark[i] # NoMark => \A x \in Touched(i) : mark[x] = mark[i]

\* Programs that are complete are separate: no interval of one meets an
\* interval of another, or one that has no mark.
Complete(i) == mark[i] # NoMark /\ (mark[i] = currentMark => stack = << >>)

ProgramsSeparate ==
    \A i, j \in Intervals : Complete(i) /\ Meets(i, j) => mark[i] = mark[j]

\* "A program is a connected set of intervals" (line 828): no part of it, once
\* closed under meeting, leaves another part out.
Closed(S) == \A i, j \in Intervals : i \in S /\ Meets(i, j) => j \in S

ProgramsConnected ==
    \A S \in SUBSET Intervals : Closed(S) =>
        \A i, j \in Intervals : i \in S /\ mark[i] # NoMark /\ mark[i] = mark[j] => j \in S
=============================================================================
