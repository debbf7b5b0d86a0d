------------------------ MODULE ProgramVisitorProofs ------------------------
(***************************************************************************)
(* Proofs about ProgramVisitor, for every document: its assertion holds,   *)
(* and the programs it finds are the connected parts of the document.      *)
(***************************************************************************)
EXTENDS ProgramVisitor, TLAPS

\* The calls under way have marked, or will ask to mark, all that meets what
\* they have marked.
NeighboursToCall ==
    \A i, j \in Intervals :
        mark[i] = currentMark /\ Meets(i, j) => mark[j] = currentMark \/ j \in ToCall

\* What they will ask to mark meets something they have marked.
ToCallMeets ==
    \A j \in ToCall : j \in Intervals /\ \E i \in Intervals : mark[i] = currentMark /\ Meets(i, j)

\* An earlier program is left alone, and is alone.
EarlierAlone ==
    \A i, j \in Intervals : mark[i] \in 0..(currentMark - 1) /\ Meets(i, j) => mark[j] = mark[i]

\* Between two programs no interval has the mark of the next one.
FreshMark == stack = << >> => \A i \in Intervals : mark[i] # currentMark

IInv ==
    /\ ProgramTypeOK /\ MarksAgree /\ ProgramsConnected
    /\ NeighboursToCall /\ ToCallMeets /\ EarlierAlone /\ FreshMark

-----------------------------------------------------------------------------
(* The document.                                                           *)

\* The accessors lead to objects of the document, whose kinds are distinct.
LEMMA Accessors ==
    ASSUME scenar \in Scenarios, NEW i \in Intervals
    PROVE  /\ scenar.startState[i] \in scenar.states /\ scenar.endState[i] \in scenar.states
           /\ startEvent(i) \in scenar.events /\ endEvent(i) \in scenar.events
           /\ startTimeSync(i) \in scenar.syncs /\ endTimeSync(i) \in scenar.syncs
<1>1. ScenarioOK(scenar)
  BY ScenariosAssumption
<1> QED BY <1>1 DEF ScenarioOK, Intervals, startEvent, endEvent, startTimeSync, endTimeSync

\* Intervals that touch one object meet on a sync, or are the same.
LEMMA SharedMeets ==
    ASSUME scenar \in Scenarios, NEW i \in Intervals, NEW j \in Intervals,
           NEW x \in Touched(i), x \in Touched(j)
    PROVE  i = j \/ Meets(i, j)
<1>1. ScenarioOK(scenar)
  BY ScenariosAssumption
<1>2. CASE x \in Intervals
  BY <1>1, <1>2, Accessors DEF ScenarioOK, Intervals, Touched
<1>3. CASE x \in scenar.states
  <2>1. /\ x = scenar.startState[i] \/ x = scenar.endState[i]
        /\ x = scenar.startState[j] \/ x = scenar.endState[j]
    BY <1>1, <1>3, Accessors DEF ScenarioOK, Intervals, Touched
  <2> QED BY <2>1 DEF Meets, startTimeSync, endTimeSync, startEvent, endEvent
<1>4. CASE x \in scenar.events
  <2>1. /\ x = startEvent(i) \/ x = endEvent(i)
        /\ x = startEvent(j) \/ x = endEvent(j)
    BY <1>1, <1>4, Accessors DEF ScenarioOK, Intervals, Touched
  <2> QED BY <2>1 DEF Meets, startTimeSync, endTimeSync
<1>5. CASE x \in scenar.syncs
  <2>1. /\ x = startTimeSync(i) \/ x = endTimeSync(i)
        /\ x = startTimeSync(j) \/ x = endTimeSync(j)
    BY <1>1, <1>5, Accessors DEF ScenarioOK, Intervals, Touched
  <2> QED BY <2>1 DEF Meets
<1>6. x \in Intervals \/ x \in scenar.states \/ x \in scenar.events \/ x \in scenar.syncs
  BY Accessors DEF Touched
<1> QED BY <1>2, <1>3, <1>4, <1>5, <1>6

\* What an interval touches is in the document, and the only interval among it
\* is itself.
LEMMA TouchedElements ==
    ASSUME scenar \in Scenarios, NEW i \in Intervals
    PROVE  Touched(i) \subseteq Elements /\ Touched(i) \cap Intervals = {i}
<1>1. ScenarioOK(scenar)
  BY ScenariosAssumption
<1> QED BY <1>1, Accessors DEF ScenarioOK, Intervals, Touched, Elements

\* The four loops call mark() for all that meets the interval, and for nothing
\* else.
LEMMA LoopsMeet ==
    ASSUME scenar \in Scenarios, NEW i \in Intervals
    PROVE  /\ Loops(i) \in [1..4 -> SUBSET Intervals]
           /\ Pending(Loops(i)) = {j \in Intervals : Meets(i, j)}
<1>1. /\ Loops(i)[1] = previousIntervals(startTimeSync(i))
      /\ Loops(i)[2] = nextIntervals(startTimeSync(i))
      /\ Loops(i)[3] = previousIntervals(endTimeSync(i))
      /\ Loops(i)[4] = nextIntervals(endTimeSync(i))
      /\ DOMAIN Loops(i) = 1..4
  BY DEF Loops
<1>2. \A k \in 1..4 : k = 1 \/ k = 2 \/ k = 3 \/ k = 4
  OBVIOUS
<1>3. Loops(i) \in [1..4 -> SUBSET Intervals]
  BY <1>2 DEF Loops, previousIntervals, nextIntervals
<1>4. ASSUME NEW j \in Pending(Loops(i)) PROVE j \in Intervals /\ Meets(i, j)
  <2>1. PICK k \in 1..4 : j \in Loops(i)[k]
    BY <1>4 DEF Pending
  <2>2. j \in previousIntervals(startTimeSync(i)) \/ j \in nextIntervals(startTimeSync(i))
           \/ j \in previousIntervals(endTimeSync(i)) \/ j \in nextIntervals(endTimeSync(i))
    BY <1>1, <1>2, <2>1
  <2> QED BY <2>2 DEF previousIntervals, nextIntervals, Meets
<1>5. ASSUME NEW j \in Intervals, Meets(i, j) PROVE j \in Pending(Loops(i))
  <2>1. \E k \in 1..4 : j \in Loops(i)[k]
    BY <1>1, <1>5 DEF previousIntervals, nextIntervals, Meets
  <2> QED BY <2>1 DEF Pending
<1> QED BY <1>3, <1>4, <1>5

\* Meeting goes both ways.
LEMMA MeetsSymmetric == \A i, j \in Intervals : Meets(i, j) <=> Meets(j, i)
BY DEF Meets

-----------------------------------------------------------------------------
(* The stack.                                                              *)

Frames == [1..4 -> SUBSET Intervals]

\* Replacing the call on top.
LEMMA ReplaceTop ==
    ASSUME NEW F, NEW st \in Seq(F), st # << >>, NEW f \in F
    PROVE  /\ <<f>> \o Tail(st) \in Seq(F)
           /\ Len(<<f>> \o Tail(st)) = Len(st)
           /\ (<<f>> \o Tail(st))[1] = f
           /\ \A n \in 2..Len(st) : (<<f>> \o Tail(st))[n] = st[n]
OBVIOUS

\* Replacing it and calling once more.
LEMMA PushTop ==
    ASSUME NEW F, NEW st \in Seq(F), st # << >>, NEW f \in F, NEW g \in F
    PROVE  /\ <<g, f>> \o Tail(st) \in Seq(F)
           /\ Len(<<g, f>> \o Tail(st)) = Len(st) + 1
           /\ (<<g, f>> \o Tail(st))[1] = g
           /\ (<<g, f>> \o Tail(st))[2] = f
           /\ \A n \in 2..Len(st) : (<<g, f>> \o Tail(st))[n + 1] = st[n]
OBVIOUS

\* A call made is no longer to be made, and nothing else changes in its frame.
LEMMA FrameLess ==
    ASSUME NEW f \in Frames, NEW k \in 1..4, NEW i \in f[k]
    PROVE  /\ [f EXCEPT ![k] = @ \ {i}] \in Frames
           /\ Pending([f EXCEPT ![k] = @ \ {i}]) \subseteq Pending(f)
           /\ Pending(f) \ {i} \subseteq Pending([f EXCEPT ![k] = @ \ {i}])
<1> DEFINE g == [f EXCEPT ![k] = @ \ {i}]
<1>1. g \in Frames /\ \A l \in 1..4 : g[l] = IF l = k THEN f[l] \ {i} ELSE f[l]
  BY DEF Frames
<1> HIDE DEF g
<1>2. Pending(g) \subseteq Pending(f)
  BY <1>1 DEF Pending
<1>3. Pending(f) \ {i} \subseteq Pending(g)
  BY <1>1 DEF Pending
<1> QED BY <1>1, <1>2, <1>3 DEF g

\* What is to be called for, spelled out.
LEMMA ToCallDef ==
    \A j : j \in ToCall <=> \E n \in 1..Len(stack) : j \in Pending(stack[n])
BY DEF ToCall

\* What is to be called for after the first call of the constructor.
LEMMA ToCallFirst ==
    ASSUME IInv, NEW i \in Intervals, stack' = <<Loops(i)>>, UNCHANGED scenar
    PROVE  /\ stack' \in Seq(Frames)
           /\ ToCall' = {j \in Intervals : Meets(i, j)}
<1>1. Loops(i) \in Frames /\ Pending(Loops(i)) = {j \in Intervals : Meets(i, j)}
  BY LoopsMeet DEF IInv, ProgramTypeOK, Frames
<1>2. stack' \in Seq(Frames) /\ Len(stack') = 1 /\ stack'[1] = Loops(i)
  BY <1>1
<1>3. ToCall' = UNION {Pending(stack'[n]) : n \in 1..Len(stack')}
  BY DEF ToCall, Pending
<1>4. {Pending(stack'[n]) : n \in 1..Len(stack')} = {Pending(Loops(i))}
  BY <1>2
<1>5. ToCall' = Pending(Loops(i))
  BY <1>3, <1>4
<1> QED BY <1>1, <1>2, <1>5

\* When the call for i, next on top, is made and returns at once.
LEMMA ToCallAgain ==
    ASSUME IInv, NEW k \in 1..4, NEW i, stack # << >>, Calls(Head(stack), k, i),
           stack' = <<[Head(stack) EXCEPT ![k] = @ \ {i}]>> \o Tail(stack), UNCHANGED scenar
    PROVE  /\ stack' \in Seq(Frames) /\ i \in ToCall
           /\ ToCall' \subseteq ToCall /\ ToCall \ {i} \subseteq ToCall'
<1> DEFINE rest == [Head(stack) EXCEPT ![k] = @ \ {i}]
<1>1. stack \in Seq(Frames) /\ Head(stack) \in Frames /\ Head(stack) = stack[1]
         /\ Len(stack) \in Nat \ {0} /\ i \in Head(stack)[k]
  BY DEF IInv, ProgramTypeOK, Frames, Calls
<1>2. rest \in Frames /\ Pending(rest) \subseteq Pending(Head(stack))
         /\ Pending(Head(stack)) \ {i} \subseteq Pending(rest)
  BY <1>1, FrameLess
<1>3. /\ stack' \in Seq(Frames) /\ Len(stack') = Len(stack) /\ stack'[1] = rest
      /\ \A n \in 2..Len(stack) : stack'[n] = stack[n]
  BY <1>1, <1>2, ReplaceTop
<1> HIDE DEF rest
<1>4. i \in ToCall
  BY <1>1 DEF ToCall, Pending
<1>5. \A j : j \in ToCall' <=> \E n \in 1..Len(stack') : j \in Pending(stack'[n])
  <2>1. ToCall' = UNION {Pending(stack'[n]) : n \in 1..Len(stack')}
    BY DEF ToCall, Pending
  <2> QED BY <2>1
<1>6. ASSUME NEW j \in ToCall' PROVE j \in ToCall
  <2>1. PICK n \in 1..Len(stack') : j \in Pending(stack'[n])
    BY <1>5, <1>6
  <2>2. CASE n = 1
    BY <1>1, <1>2, <1>3, <2>1, <2>2, ToCallDef
  <2>3. CASE n # 1
    BY <1>1, <1>3, <2>1, <2>3, ToCallDef
  <2> QED BY <2>2, <2>3
<1>7. ASSUME NEW j \in ToCall, j # i PROVE j \in ToCall'
  <2>1. PICK n \in 1..Len(stack) : j \in Pending(stack[n])
    BY <1>7, ToCallDef
  <2>2. CASE n = 1
    BY <1>1, <1>2, <1>3, <1>5, <1>7, <2>1, <2>2
  <2>3. CASE n # 1
    BY <1>1, <1>3, <1>5, <2>1, <2>3
  <2> QED BY <2>2, <2>3
<1> QED BY <1>3, <1>4, <1>6, <1>7

\* When it is made and goes on.
LEMMA ToCallNext ==
    ASSUME IInv, NEW k \in 1..4, NEW i, stack # << >>, Calls(Head(stack), k, i),
           stack' = <<Loops(i), [Head(stack) EXCEPT ![k] = @ \ {i}]>> \o Tail(stack),
           UNCHANGED scenar
    PROVE  /\ stack' \in Seq(Frames) /\ i \in ToCall
           /\ ToCall' \subseteq ToCall \cup {j \in Intervals : Meets(i, j)}
           /\ (ToCall \ {i}) \cup {j \in Intervals : Meets(i, j)} \subseteq ToCall'
<1> DEFINE rest == [Head(stack) EXCEPT ![k] = @ \ {i}]
<1>1. stack \in Seq(Frames) /\ Head(stack) \in Frames /\ Head(stack) = stack[1]
         /\ Len(stack) \in Nat \ {0} /\ i \in Head(stack)[k]
  BY DEF IInv, ProgramTypeOK, Frames, Calls
<1>2. rest \in Frames /\ Pending(rest) \subseteq Pending(Head(stack))
         /\ Pending(Head(stack)) \ {i} \subseteq Pending(rest)
  BY <1>1, FrameLess
<1>3. i \in Intervals
  BY <1>1 DEF Frames
<1>4. Loops(i) \in Frames /\ Pending(Loops(i)) = {j \in Intervals : Meets(i, j)}
  BY <1>3, LoopsMeet DEF IInv, ProgramTypeOK, Frames
<1>5. /\ stack' \in Seq(Frames) /\ Len(stack') = Len(stack) + 1
      /\ stack'[1] = Loops(i) /\ stack'[2] = rest
      /\ \A n \in 2..Len(stack) : stack'[n + 1] = stack[n]
  BY <1>1, <1>2, <1>4, PushTop
<1> HIDE DEF rest
<1>6. i \in ToCall
  BY <1>1 DEF ToCall, Pending
<1>7. \A j : j \in ToCall' <=> \E n \in 1..Len(stack') : j \in Pending(stack'[n])
  <2>1. ToCall' = UNION {Pending(stack'[n]) : n \in 1..Len(stack')}
    BY DEF ToCall, Pending
  <2> QED BY <2>1
<1>8. ASSUME NEW j \in ToCall' PROVE j \in ToCall \cup {l \in Intervals : Meets(i, l)}
  <2>1. PICK n \in 1..Len(stack') : j \in Pending(stack'[n])
    BY <1>7, <1>8
  <2>2. CASE n = 1
    BY <1>4, <1>5, <2>1, <2>2
  <2>3. CASE n = 2
    <3>1. j \in Pending(rest)
      BY <1>5, <2>1, <2>3
    <3>2. j \in Pending(stack[1])
      BY <1>1, <1>2, <3>1
    <3> QED BY <1>1, <3>2, ToCallDef
  <2>4. CASE n > 2
    <3>1. PICK m \in 2..Len(stack) : n = m + 1
      BY <1>1, <1>5, <2>4
    <3> QED BY <1>1, <1>5, <2>1, <3>1, ToCallDef
  <2> QED BY <1>1, <1>5, <2>2, <2>3, <2>4
<1>9. ASSUME NEW j \in ToCall, j # i PROVE j \in ToCall'
  <2>1. PICK n \in 1..Len(stack) : j \in Pending(stack[n])
    BY <1>9, ToCallDef
  <2>2. CASE n = 1
    <3>1. j \in Pending(Head(stack))
      BY <1>1, <2>1, <2>2
    <3>2. j \in Pending(rest)
      BY <1>2, <1>9, <3>1
    <3>3. 2 \in 1..Len(stack')
      BY <1>1, <1>5
    <3> QED BY <1>5, <1>7, <3>2, <3>3
  <2>3. CASE n # 1
    <3>1. n \in 2..Len(stack) /\ n + 1 \in 1..Len(stack')
      BY <1>1, <1>5, <2>3
    <3> QED BY <1>5, <1>7, <2>1, <3>1
  <2> QED BY <2>2, <2>3
<1>10. ASSUME NEW j \in Intervals, Meets(i, j) PROVE j \in ToCall'
  BY <1>1, <1>4, <1>5, <1>7, <1>10
<1> QED BY <1>5, <1>6, <1>8, <1>9, <1>10

\* When a call returns.
LEMMA ToCallReturn ==
    ASSUME IInv, Return
    PROVE  /\ stack' \in Seq(Frames) /\ ToCall' = ToCall
           /\ Len(stack) = 1 => ToCall = {}
           /\ Len(stack) # 1 => stack' # << >>
<1>1. stack \in Seq(Frames) /\ stack # << >> /\ Head(stack) = stack[1]
         /\ Len(stack) \in Nat \ {0} /\ Pending(stack[1]) = {}
  <2>1. stack \in Seq(Frames) /\ stack # << >>
    BY DEF IInv, ProgramTypeOK, Frames, Return
  <2>2. Head(stack) = stack[1] /\ Len(stack) \in Nat \ {0}
    BY <2>1
  <2>3. \A k \in 1..4 : stack[1][k] = {}
    BY <2>2 DEF Return
  <2> QED BY <2>1, <2>2, <2>3 DEF Pending
<1>2. /\ stack' \in Seq(Frames) /\ Len(stack') = Len(stack) - 1
      /\ \A n \in 1..Len(stack') : stack'[n] = stack[n + 1]
  BY <1>1 DEF Return
<1>3. \A j : j \in ToCall' <=> \E n \in 1..Len(stack') : j \in Pending(stack'[n])
  <2>1. ToCall' = UNION {Pending(stack'[n]) : n \in 1..Len(stack')}
    BY DEF ToCall, Pending
  <2> QED BY <2>1
<1>4. ASSUME NEW j \in ToCall' PROVE j \in ToCall
  <2>1. PICK n \in 1..Len(stack') : j \in Pending(stack'[n])
    BY <1>3, <1>4
  <2>2. n + 1 \in 1..Len(stack) /\ stack'[n] = stack[n + 1]
    BY <1>1, <1>2
  <2> QED BY <2>1, <2>2, ToCallDef
<1>5. ASSUME NEW j \in ToCall PROVE j \in ToCall'
  <2>1. PICK n \in 1..Len(stack) : j \in Pending(stack[n])
    BY <1>5, ToCallDef
  <2>2. n # 1
    BY <1>1, <2>1
  <2>3. n - 1 \in 1..Len(stack') /\ stack'[n - 1] = stack[n]
    BY <1>1, <1>2, <2>2
  <2> QED BY <1>3, <2>1, <2>3
<1>6. Len(stack) = 1 => ToCall = {}
  BY <1>1, ToCallDef
<1>7. Len(stack) # 1 => stack' # << >>
  BY <1>1, <1>2
<1> QED BY <1>2, <1>4, <1>5, <1>6, <1>7

-----------------------------------------------------------------------------
(* The marks.                                                              *)

\* The document does not change, nor what is said of it.
LEMMA SameDocument ==
    ASSUME UNCHANGED scenar
    PROVE  /\ Intervals' = Intervals /\ Elements' = Elements
           /\ \A i : Touched(i)' = Touched(i)
           /\ \A i, j : Meets(i, j)' <=> Meets(i, j)
           /\ \A S : Closed(S)' <=> Closed(S)
BY DEF Intervals, Elements, Touched, Meets, Closed, startTimeSync, endTimeSync, startEvent,
       endEvent

\* Marking an interval that has no mark gives it the current one, changes that
\* of no other interval, and disturbs no program.
LEMMA MarkKeeps ==
    ASSUME IInv, NEW i \in Intervals, mark[i] = NoMark, Mark(i),
           UNCHANGED <<scenar, currentMark>>
    PROVE  /\ mark' \in [Elements -> Marks]'
           /\ \A j \in Intervals : mark'[j] = IF j = i THEN currentMark ELSE mark[j]
           /\ MarksAgree' /\ EarlierAlone'
<1>1. /\ Intervals' = Intervals /\ Elements' = Elements
      /\ \A j : Touched(j)' = Touched(j)
      /\ \A j, l : Meets(j, l)' <=> Meets(j, l)
  BY SameDocument
<1>2. /\ mark \in [Elements -> Marks] /\ currentMark \in Nat /\ scenar \in Scenarios
      /\ Intervals \subseteq Elements
  BY DEF IInv, ProgramTypeOK, Elements
<1>3. \A x \in Elements : mark'[x] = IF x \in Touched(i) THEN currentMark ELSE mark[x]
  BY <1>2 DEF Mark
<1>4. mark' \in [Elements -> Marks]'
  BY <1>1, <1>2 DEF Mark, Marks
<1>5. \A j \in Intervals : mark'[j] = IF j = i THEN currentMark ELSE mark[j]
  BY <1>2, <1>3, TouchedElements
<1>6. ASSUME NEW j \in Intervals, Meets(j, i) PROVE mark[j] \in {NoMark, currentMark}
  <2>1. mark[j] \in Marks /\ mark[j] # mark[i] => mark[j] \notin 0..(currentMark - 1)
    BY <1>2, <1>6 DEF IInv, EarlierAlone
  <2> QED BY <1>2, <2>1 DEF Marks, NoMark
<1>7. ASSUME NEW j \in Intervals, mark'[j] # NoMark, NEW x \in Touched(j)
      PROVE  mark'[x] = mark'[j]
  <2>1. x \in Elements
    BY <1>2, TouchedElements
  <2>2. CASE j = i
    BY <1>3, <1>5, <1>7, <2>1, <2>2
  <2>3. CASE j # i /\ x \notin Touched(i)
    BY <1>3, <1>5, <1>7, <2>1, <2>3 DEF IInv, MarksAgree
  <2>4. CASE j # i /\ x \in Touched(i)
    <3>1. Meets(j, i)
      BY <1>2, <1>7, <2>4, SharedMeets
    <3> QED BY <1>3, <1>5, <1>6, <1>7, <2>1, <2>4, <3>1
  <2> QED BY <2>2, <2>3, <2>4
<1>8. MarksAgree'
  BY <1>1, <1>7 DEF MarksAgree
<1>9. ASSUME NEW j \in Intervals, NEW l \in Intervals, mark'[j] \in 0..(currentMark - 1),
             Meets(j, l)
      PROVE  mark'[l] = mark'[j]
  <2>1. j # i /\ mark[j] = mark'[j]
    BY <1>2, <1>5, <1>9
  <2>2. mark[l] = mark[j]
    BY <1>9, <2>1 DEF IInv, EarlierAlone
  <2>3. l # i
    BY <1>2, <1>9, <2>1, <2>2 DEF NoMark
  <2> QED BY <1>5, <2>1, <2>2, <2>3
<1>10. EarlierAlone'
  BY <1>1, <1>9 DEF EarlierAlone
<1> QED BY <1>4, <1>5, <1>8, <1>10

-----------------------------------------------------------------------------
(* The invariant.                                                          *)

\* Before the first call nothing has a mark.
LEMMA InitInv == ProgramInit => IInv
<1> SUFFICES ASSUME ProgramInit PROVE IInv
  OBVIOUS
<1>1. \A x \in Elements : mark[x] = NoMark
  BY DEF ProgramInit
<1>2. Intervals \subseteq Elements
  BY DEF Elements
<1>3. ToCall = {}
  BY DEF ToCall, ProgramInit
<1>4. ProgramTypeOK
  BY DEF ProgramInit, ProgramTypeOK, Marks
<1>5. \A i \in Intervals : mark[i] = NoMark /\ NoMark # currentMark /\ currentMark = 0
  BY <1>1, <1>2 DEF ProgramInit, NoMark
<1>6. MarksAgree /\ ProgramsConnected /\ EarlierAlone
  BY <1>5 DEF MarksAgree, ProgramsConnected, EarlierAlone, NoMark
<1>7. NeighboursToCall /\ ToCallMeets /\ FreshMark
  BY <1>3, <1>5 DEF NeighboursToCall, ToCallMeets, FreshMark
<1> QED BY <1>4, <1>6, <1>7 DEF IInv

\* A new program starts with one interval, which no other mark concerns.
LEMMA MarkFirstKeeps ==
    ASSUME IInv, NEW i \in Intervals, MarkFirst(i)
    PROVE  IInv'
<1>1. /\ Intervals' = Intervals
      /\ \A j, l : Meets(j, l)' <=> Meets(j, l)
      /\ \A S : Closed(S)' <=> Closed(S)
  BY SameDocument DEF MarkFirst
<1>2. /\ mark' \in [Elements -> Marks]' /\ MarksAgree' /\ EarlierAlone'
      /\ \A j \in Intervals : mark'[j] = IF j = i THEN currentMark ELSE mark[j]
  BY MarkKeeps DEF MarkFirst
<1>3. stack' \in Seq(Frames) /\ ToCall' = {j \in Intervals : Meets(i, j)} /\ stack' # << >>
  BY ToCallFirst DEF MarkFirst
<1>4. \A j \in Intervals : mark[j] # currentMark
  BY DEF IInv, FreshMark, MarkFirst
<1>5. currentMark' = currentMark /\ scenar' = scenar
  BY DEF MarkFirst
<1>6. ProgramTypeOK'
  BY <1>1, <1>2, <1>3, <1>5 DEF IInv, ProgramTypeOK, Frames
<1>7. ASSUME NEW S \in SUBSET Intervals, Closed(S), NEW j \in Intervals, NEW l \in Intervals,
             j \in S, mark'[j] # NoMark, mark'[j] = mark'[l]
      PROVE  l \in S
  BY <1>2, <1>4, <1>7 DEF IInv, ProgramsConnected
<1>8. ProgramsConnected'
  BY <1>1, <1>7 DEF ProgramsConnected
<1>9. NeighboursToCall' /\ ToCallMeets'
  BY <1>1, <1>2, <1>3, <1>4, <1>5 DEF NeighboursToCall, ToCallMeets
<1>10. FreshMark'
  BY <1>3 DEF FreshMark
<1> QED BY <1>2, <1>6, <1>8, <1>9, <1>10 DEF IInv

\* A call for an interval that has the mark already only takes it from a loop.
LEMMA MarkAgainKeeps ==
    ASSUME IInv, NEW i \in Intervals, NEW k \in 1..4, MarkAgain(k, i)
    PROVE  IInv'
<1>1. /\ Intervals' = Intervals /\ Elements' = Elements
      /\ \A j : Touched(j)' = Touched(j)
      /\ \A j, l : Meets(j, l)' <=> Meets(j, l)
      /\ \A S : Closed(S)' <=> Closed(S)
  BY SameDocument DEF MarkAgain
<1>2. stack' \in Seq(Frames) /\ ToCall' \subseteq ToCall /\ ToCall \ {i} \subseteq ToCall'
  BY ToCallAgain DEF MarkAgain
<1>3. currentMark' = currentMark /\ scenar' = scenar /\ mark' = mark /\ mark[i] = currentMark
  BY DEF MarkAgain
<1>4. stack' # << >>
  BY DEF MarkAgain, IInv, ProgramTypeOK
<1>5. ProgramTypeOK'
  BY <1>1, <1>2, <1>3 DEF IInv, ProgramTypeOK, Frames, Marks
<1>6. MarksAgree' /\ ProgramsConnected' /\ EarlierAlone'
  BY <1>1, <1>3 DEF IInv, MarksAgree, ProgramsConnected, EarlierAlone
<1>7. NeighboursToCall' /\ ToCallMeets'
  BY <1>1, <1>2, <1>3 DEF IInv, NeighboursToCall, ToCallMeets
<1>8. FreshMark'
  BY <1>4 DEF FreshMark
<1> QED BY <1>5, <1>6, <1>7, <1>8 DEF IInv

\* A call for an interval that has none makes the program larger by one that
\* meets it, and brings the calls for what meets that one.
LEMMA MarkNextKeeps ==
    ASSUME IInv, NEW i \in Intervals, NEW k \in 1..4, MarkNext(k, i)
    PROVE  IInv'
<1>1. /\ Intervals' = Intervals
      /\ \A j, l : Meets(j, l)' <=> Meets(j, l)
      /\ \A S : Closed(S)' <=> Closed(S)
  BY SameDocument DEF MarkNext
<1>2. /\ mark' \in [Elements -> Marks]' /\ MarksAgree' /\ EarlierAlone'
      /\ \A j \in Intervals : mark'[j] = IF j = i THEN currentMark ELSE mark[j]
  BY MarkKeeps DEF MarkNext
<1>3. /\ stack' \in Seq(Frames) /\ i \in ToCall
      /\ ToCall' \subseteq ToCall \cup {j \in Intervals : Meets(i, j)}
      /\ (ToCall \ {i}) \cup {j \in Intervals : Meets(i, j)} \subseteq ToCall'
  BY ToCallNext DEF MarkNext
<1>4. currentMark' = currentMark /\ scenar' = scenar /\ mark[i] = NoMark
         /\ currentMark # NoMark
  BY DEF MarkNext, IInv, ProgramTypeOK, NoMark
<1>5. ProgramTypeOK'
  BY <1>1, <1>2, <1>3, <1>4 DEF IInv, ProgramTypeOK, Frames
<1>6. PICK h \in Intervals : mark[h] = currentMark /\ Meets(h, i) /\ Meets(i, h)
  BY <1>3, MeetsSymmetric DEF IInv, ToCallMeets
<1>7. ASSUME NEW S \in SUBSET Intervals, Closed(S), NEW j \in Intervals, NEW l \in Intervals,
             j \in S, mark'[j] # NoMark, mark'[j] = mark'[l]
      PROVE  l \in S
  <2>1. h \in S <=> i \in S
    BY <1>6, <1>7 DEF Closed
  <2>2. \A a, b \in Intervals : a \in S /\ mark[a] # NoMark /\ mark[a] = mark[b] => b \in S
    BY <1>7 DEF IInv, ProgramsConnected
  <2>3. CASE j = i
    BY <1>2, <1>4, <1>6, <1>7, <2>1, <2>2, <2>3
  <2>4. CASE j # i
    BY <1>2, <1>4, <1>6, <1>7, <2>1, <2>2, <2>4
  <2> QED BY <2>3, <2>4
<1>8. ProgramsConnected'
  BY <1>1, <1>7 DEF ProgramsConnected
<1>9. NeighboursToCall'
  BY <1>1, <1>2, <1>3, <1>4 DEF IInv, NeighboursToCall
<1>10. ToCallMeets'
  <2>1. ASSUME NEW j \in ToCall'
        PROVE  j \in Intervals /\ \E a \in Intervals : mark'[a] = currentMark /\ Meets(a, j)
    <3>1. CASE j \in ToCall
      BY <1>2, <1>4, <3>1 DEF IInv, ToCallMeets
    <3>2. CASE j \in Intervals /\ Meets(i, j)
      BY <1>2, <3>2
    <3> QED BY <1>3, <2>1, <3>1, <3>2
  <2> QED BY <1>1, <1>4, <2>1 DEF ToCallMeets
<1>11. FreshMark'
  <2>1. stack' # << >>
    BY DEF MarkNext, IInv, ProgramTypeOK
  <2> QED BY <2>1 DEF FreshMark
<1> QED BY <1>2, <1>5, <1>8, <1>9, <1>10, <1>11 DEF IInv

\* The last call that returns leaves a program that meets nothing else.
LEMMA ReturnKeeps ==
    ASSUME IInv, Return
    PROVE  IInv'
<1>1. /\ Intervals' = Intervals /\ Elements' = Elements
      /\ \A j : Touched(j)' = Touched(j)
      /\ \A j, l : Meets(j, l)' <=> Meets(j, l)
      /\ \A S : Closed(S)' <=> Closed(S)
  BY SameDocument DEF Return
<1>2. /\ stack' \in Seq(Frames) /\ ToCall' = ToCall
      /\ Len(stack) = 1 => ToCall = {}
      /\ Len(stack) # 1 => stack' # << >>
  BY ToCallReturn
<1>3. /\ scenar' = scenar /\ mark' = mark /\ currentMark \in Nat
      /\ currentMark' = IF Len(stack) = 1 THEN currentMark + 1 ELSE currentMark
      /\ \A j \in Intervals : mark[j] \in Marks
  BY DEF Return, IInv, ProgramTypeOK, Elements
<1>4. ProgramTypeOK'
  BY <1>1, <1>2, <1>3 DEF IInv, ProgramTypeOK, Frames, Marks
<1>5. MarksAgree' /\ ProgramsConnected'
  BY <1>1, <1>3 DEF IInv, MarksAgree, ProgramsConnected
<1>6. CASE Len(stack) # 1
  BY <1>1, <1>2, <1>3, <1>4, <1>5, <1>6
     DEF IInv, NeighboursToCall, ToCallMeets, EarlierAlone, FreshMark
<1>7. CASE Len(stack) = 1
  <2>1. currentMark' = currentMark + 1 /\ ToCall = {} /\ ToCall' = {}
    BY <1>2, <1>3, <1>7
  <2>2. \A j \in Intervals : mark'[j] # currentMark'
    BY <1>3, <2>1 DEF Marks, NoMark
  <2>3. NeighboursToCall' /\ ToCallMeets' /\ FreshMark'
    BY <1>1, <2>1, <2>2 DEF NeighboursToCall, ToCallMeets, FreshMark
  <2>4. ASSUME NEW j \in Intervals, NEW l \in Intervals, mark[j] \in 0..currentMark, Meets(j, l)
        PROVE  mark[l] = mark[j]
    <3>1. CASE mark[j] = currentMark
      BY <2>1, <2>4, <3>1 DEF IInv, NeighboursToCall
    <3>2. CASE mark[j] \in 0..(currentMark - 1)
      BY <2>4, <3>2 DEF IInv, EarlierAlone
    <3> QED BY <1>3, <2>4, <3>1, <3>2
  <2>5. EarlierAlone'
    BY <1>1, <1>3, <2>1, <2>4 DEF EarlierAlone
  <2> QED BY <1>4, <1>5, <2>3, <2>5 DEF IInv
<1> QED BY <1>6, <1>7

\* Every step keeps the invariant.
LEMMA NextInv == IInv /\ [ProgramStep]_programVars => IInv'
<1> SUFFICES ASSUME IInv, [ProgramStep]_programVars PROVE IInv'
  OBVIOUS
<1>1. CASE \E i \in Intervals : MarkFirst(i)
  BY <1>1, MarkFirstKeeps
<1>2. CASE \E i \in Intervals, k \in 1..4 : MarkAgain(k, i) \/ MarkNext(k, i)
  BY <1>2, MarkAgainKeeps, MarkNextKeeps
<1>3. CASE Return
  BY <1>3, ReturnKeeps
<1>4. CASE UNCHANGED programVars
  <2>1. /\ scenar' = scenar /\ mark' = mark /\ currentMark' = currentMark /\ stack' = stack
        /\ Intervals' = Intervals /\ Elements' = Elements
        /\ \A i : Touched(i)' = Touched(i)
        /\ \A i, j : Meets(i, j)' <=> Meets(i, j)
        /\ \A S : Closed(S)' <=> Closed(S)
    BY <1>4, SameDocument DEF programVars
  <2>2. ToCall' = ToCall
    BY <2>1 DEF ToCall, Pending
  <2>3. ProgramTypeOK'
    BY <2>1 DEF IInv, ProgramTypeOK, Marks
  <2>4. MarksAgree' /\ ProgramsConnected'
    BY <2>1 DEF IInv, MarksAgree, ProgramsConnected
  <2>5. NeighboursToCall' /\ ToCallMeets' /\ EarlierAlone' /\ FreshMark'
    BY <2>1, <2>2 DEF IInv, NeighboursToCall, ToCallMeets, EarlierAlone, FreshMark
  <2> QED BY <2>3, <2>4, <2>5 DEF IInv
<1> QED BY <1>1, <1>2, <1>3, <1>4 DEF ProgramStep

\* In every state of the visitor the invariant holds.
THEOREM Invariance == ProgramSpec => []IInv
<1>1. ProgramInit => IInv
  BY InitInv
<1>2. IInv /\ [ProgramStep]_programVars => IInv'
  BY NextInv
<1> QED BY <1>1, <1>2, PTL DEF ProgramSpec

-----------------------------------------------------------------------------
(* The properties.                                                         *)

\* The visitor's maps and stack have their types.
THEOREM TypeCorrect == ProgramSpec => []ProgramTypeOK
<1>1. IInv => ProgramTypeOK
  BY DEF IInv
<1> QED BY <1>1, Invariance, PTL

\* The SCORE_ASSERT of mark() never fails: an interval of an earlier program
\* would meet one of the current program, which EarlierAlone excludes.
THEOREM AssertionNeverFails == ProgramSpec => []AssertionHolds
<1>1. ASSUME IInv PROVE AssertionHolds
  <2> SUFFICES ASSUME NEW j \in ToCall PROVE mark[j] \in {NoMark, currentMark}
    BY DEF AssertionHolds
  <2>1. PICK i \in Intervals : mark[i] = currentMark /\ Meets(i, j)
    BY <1>1 DEF IInv, ToCallMeets
  <2>2. j \in Intervals /\ Meets(j, i)
    BY <1>1, <2>1, MeetsSymmetric DEF IInv, ToCallMeets
  <2>3. mark[j] \in Marks /\ currentMark \in Nat
    BY <1>1, <2>2 DEF IInv, ProgramTypeOK, Elements
  <2>4. mark[j] \notin 0..(currentMark - 1)
    BY <1>1, <2>1, <2>2, <2>3 DEF IInv, EarlierAlone
  <2> QED BY <2>3, <2>4 DEF Marks
<1> QED BY <1>1, Invariance, PTL

\* An interval and what it touches keep one mark, however often they are
\* written.
THEOREM MarksAlwaysAgree == ProgramSpec => []MarksAgree
<1>1. IInv => MarksAgree
  BY DEF IInv
<1> QED BY <1>1, Invariance, PTL

\* Nothing is put in a program that is not connected to the rest of it.
THEOREM ProgramsAreConnected == ProgramSpec => []ProgramsConnected
<1>1. IInv => ProgramsConnected
  BY DEF IInv
<1> QED BY <1>1, Invariance, PTL

\* No program that is complete meets another, or an interval without a mark.
THEOREM ProgramsAreSeparate == ProgramSpec => []ProgramsSeparate
<1>1. ASSUME IInv PROVE ProgramsSeparate
  <2> SUFFICES ASSUME NEW i \in Intervals, NEW j \in Intervals, Complete(i), Meets(i, j)
               PROVE  mark[i] = mark[j]
    BY DEF ProgramsSeparate
  <2>1. mark[i] \in Marks /\ mark[i] # NoMark /\ currentMark \in Nat
    BY <1>1 DEF IInv, ProgramTypeOK, Elements, Complete
  <2>2. mark[i] # currentMark
    BY <1>1 DEF IInv, FreshMark, Complete
  <2>3. mark[i] \in 0..(currentMark - 1)
    BY <2>1, <2>2 DEF Marks
  <2> QED BY <1>1, <2>3 DEF IInv, EarlierAlone
<1> QED BY <1>1, Invariance, PTL
=============================================================================
