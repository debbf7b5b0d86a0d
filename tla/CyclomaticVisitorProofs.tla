----------------------- MODULE CyclomaticVisitorProofs -----------------------
(***************************************************************************)
(* Proofs about CyclomaticVisitor, for every document: once a program is   *)
(* cut, its blocks cover it and nothing else, a block starts where one     *)
(* should, and what does not split a block does not leave it.              *)
(***************************************************************************)
EXTENDS CyclomaticVisitor, ProgramVisitorProofs, SumProofs, FiniteSetTheorems

\* What mark() is still to be called for, and the ids in a list.
ToMark == UNION {calls[n] : n \in 1..Len(calls)}
Listed(list) == {list[n] : n \in DOMAIN list}

InBlockNow == step \in {"block", "crashed"}
Cutting    == step \in {"nodes", "events", "block", "crashed", "count"}

\* What will be put in a block, or in another one.
Waiting ==
    ToMark \cup Listed(startingNodes) \cup Listed(startingEvents)
        \cup (IF InBlockNow THEN Limits \cup notSameEvent ELSE {})

CutTypes ==
    /\ program \in Nat /\ maxMark \in Nat
    /\ blockOf \in [Elements -> {NoMark} \cup (0..maxMark)]
    /\ calls \in Seq(SUBSET Elements)
    /\ startingNodes \in Seq(scenar.syncs) /\ startingEvents \in Seq(scenar.conditioned)
    /\ notSame \subseteq scenar.syncs /\ notSure \subseteq scenar.syncs
    /\ notSameEvent \subseteq scenar.conditioned

\* Whatever an interval has marked has its mark, and nothing else has one.
MarkedTouched ==
    \A x \in Elements : mark[x] # NoMark =>
        \E i \in Intervals : x \in Touched(i) /\ mark[i] = mark[x]

\* Between two blocks no call is under way, and nothing is in the next block.
Between ==
    ~InBlockNow => calls = << >> /\ \A x \in Elements : blockOf[x] # maxMark

\* A call is made for what leaves something of the block under way; what does
\* not split a block is in the block it leaves, or about to be.
Flows ==
    /\ \A i \in Intervals :
          /\ i \in ToMark => blockOf[startEvent(i)] = maxMark
          /\ blockOf[i] = blockOf[startEvent(i)] \/ i \in ToMark
    /\ \A ev \in scenar.events :
          /\ ev \in ToMark => blockOf[scenar.syncOf[ev]] = maxMark
          /\ ev \in scenar.conditioned \/ blockOf[ev] = blockOf[scenar.syncOf[ev]]
                \/ ev \in ToMark

\* Nothing of another program is in a block, or waits for one.
OwnProgram ==
    Cutting =>
        /\ \A x \in Intervals \cup scenar.syncs :
              blockOf[x] # NoMark \/ x \in Waiting => mark[x] = program
        /\ \A ev \in scenar.events :
              blockOf[ev] # NoMark \/ ev \in Waiting => mark[scenar.syncOf[ev]] = program

\* What starts the program or follows a block is in a block, or waits for one.
Follows ==
    Cutting =>
        /\ \A tn \in startingtimeSyncs(program) : blockOf[tn] # NoMark \/ tn \in Waiting
        /\ \A i \in Intervals : blockOf[i] # NoMark =>
              blockOf[endTimeSync(i)] # NoMark \/ endTimeSync(i) \in Waiting
        /\ \A ev \in scenar.conditioned : blockOf[scenar.syncOf[ev]] # NoMark =>
              blockOf[ev] # NoMark \/ ev \in Waiting

\* The block under way: where it starts, and what it has flowed through.
BlockFlows ==
    InBlockNow =>
        /\ \/ start \in scenar.syncs /\ (start \in ToMark \/ blockOf[start] = maxMark)
           \/ start \in scenar.conditioned /\ blockOf[start] = maxMark
        /\ \A tn \in scenar.syncs :
              tn # start /\ (blockOf[tn] = maxMark \/ tn \in ToMark) =>
                  /\ tn \notin scenar.active /\ previousIntervals(tn) # {}
                  /\ \A i \in previousIntervals(tn) : blockOf[i] = maxMark
        /\ \A tn \in Limits : \E i \in previousIntervals(tn) : blockOf[i] = maxMark
        /\ \A ev \in scenar.events :
              blockOf[ev] = maxMark => ev = start \/ blockOf[scenar.syncOf[ev]] = maxMark

\* A sync is not in a block that flows into it where it should start one.
Starts(tn) ==
    LET before == {blockOf[i] : i \in previousIntervals(tn)}
    IN  tn \in scenar.active \/ Cardinality(before) > 1 => blockOf[tn] \notin before

StartsOrWaits ==
    Cutting =>
        /\ \A tn \in scenar.syncs : blockOf[tn] # NoMark => Starts(tn) \/ tn \in Waiting
        /\ \A ev \in scenar.conditioned : blockOf[scenar.syncOf[ev]] # NoMark =>
              blockOf[ev] # blockOf[scenar.syncOf[ev]] \/ ev \in Waiting

\* Nothing is cut before the programs are found, and no list is left over.
Order ==
    /\ step # "programs" => Marked
    /\ step = "count" => startingNodes = << >> /\ startingEvents = << >>

CutInv ==
    /\ CutTypes /\ MarkedTouched /\ Between /\ Flows /\ OwnProgram /\ Follows
    /\ BlockFlows /\ StartsOrWaits /\ Order

-----------------------------------------------------------------------------
(* Lists.                                                                  *)

\* Finite sets of numbers in order: each number is there, and nothing else.
LEMMA InOrderLists ==
    ASSUME NEW S \in SUBSET Nat, IsFiniteSet(S)
    PROVE  InOrder(S) \in Seq(S) /\ Listed(InOrder(S)) = S
<1> DEFINE Before(x) == {y \in S : y < x}
           rank == [x \in S |-> Cardinality(Before(x)) + 1]
           N == Cardinality(S)
<1>1. N \in Nat /\ IsFiniteSet(1..N) /\ Cardinality(1..N) = N
  BY FS_CardinalityType, FS_Interval
<1>2. ASSUME NEW x \in S
      PROVE  /\ IsFiniteSet(Before(x)) /\ Cardinality(Before(x)) \in Nat
             /\ Cardinality(Before(x)) < N
  <2>1. Before(x) \in SUBSET S /\ x \notin Before(x)
    OBVIOUS
  <2>2. IsFiniteSet(Before(x)) /\ Cardinality(Before(x)) <= N /\ Cardinality(Before(x)) # N
    BY <2>1, FS_Subset
  <2> HIDE DEF Before, N
  <2>3. Cardinality(Before(x)) \in Nat
    BY <2>2, FS_CardinalityType
  <2> QED BY <1>1, <2>2, <2>3
<1>3. ASSUME NEW x \in S, NEW y \in S, x < y
      PROVE  Cardinality(Before(x)) < Cardinality(Before(y))
  <2>0. \A z \in S : z \in Int
    OBVIOUS
  <2>1. Before(x) \in SUBSET Before(y) /\ x \in Before(y) /\ x \notin Before(x)
    <3>1. \A z \in Before(x) : z \in Before(y)
      BY <1>3, <2>0
    <3>2. x \in Before(y) /\ ~ x < x
      BY <1>3, <2>0
    <3> QED BY <3>1, <3>2
  <2>2. Cardinality(Before(x)) <= Cardinality(Before(y))
           /\ Cardinality(Before(x)) # Cardinality(Before(y))
    BY <1>2, <2>1, FS_Subset
  <2> HIDE DEF Before
  <2> QED BY <1>2, <2>2
<1> HIDE DEF Before
<1>4. \A x, y \in S : Cardinality(Before(x)) = Cardinality(Before(y)) => x = y
  <2> SUFFICES ASSUME NEW x \in S, NEW y \in S, x # y
               PROVE  Cardinality(Before(x)) # Cardinality(Before(y))
    OBVIOUS
  <2>1. x < y \/ y < x
    OBVIOUS
  <2> QED BY <1>2, <1>3, <2>1
<1>5. rank \in Injection(S, 1..N)
  <2> HIDE DEF N
  <2>1. rank \in [S -> 1..N]
    BY <1>1, <1>2
  <2>2. \A x, y \in S : rank[x] = rank[y] => x = y
    BY <1>2, <1>4
  <2> QED BY <2>1, <2>2 DEF Injection, IsInjective
<1>6. rank \in Surjection(S, 1..N)
  BY <1>1, <1>5, FS_Injection
<1>7. ASSUME NEW n \in 1..N
      PROVE  \E x \in S : Cardinality(Before(x)) = n - 1
  <2> HIDE DEF N
  <2>1. PICK x \in S : rank[x] = n
    BY <1>6 DEF Surjection
  <2>2. Cardinality(Before(x)) + 1 = n
    BY <2>1
  <2> QED BY <1>1, <1>2, <2>2
<1>8. InOrder(S) = [n \in 1..N |-> CHOOSE x \in S : Cardinality(Before(x)) = n - 1]
  BY DEF InOrder, Before
<1> HIDE DEF N, rank
<1>9. \A n \in 1..N : InOrder(S)[n] \in S /\ Cardinality(Before(InOrder(S)[n])) = n - 1
  BY <1>7, <1>8
<1>10. InOrder(S) \in Seq(S)
  BY <1>1, <1>8, <1>9
<1>11. ASSUME NEW x \in S PROVE x \in Listed(InOrder(S))
  <2>1. Cardinality(Before(x)) + 1 \in 1..N
    BY <1>1, <1>2
  <2>2. PICK n \in 1..N : n = Cardinality(Before(x)) + 1
    BY <2>1
  <2>3. Cardinality(Before(InOrder(S)[n])) = Cardinality(Before(x))
    BY <1>1, <1>2, <1>9, <2>2
  <2>4. InOrder(S)[n] = x
    BY <1>4, <1>9, <2>3
  <2>5. DOMAIN InOrder(S) = 1..N
    BY <1>8
  <2> QED BY <2>4, <2>5 DEF Listed
<1>12. Listed(InOrder(S)) \subseteq S
  BY <1>8, <1>9 DEF Listed
<1> QED BY <1>10, <1>11, <1>12

\* remove() takes an id from a list, wherever it is in it.
LEMMA WithoutLists ==
    ASSUME NEW T, NEW list \in Seq(T), NEW x
    PROVE  Without(list, x) \in Seq(T) /\ Listed(Without(list, x)) = Listed(list) \ {x}
<1> DEFINE left == {n \in DOMAIN list : list[n] # x}
           kept == InOrder(left)
<1>1. DOMAIN list = 1..Len(list) /\ Len(list) \in Nat
  OBVIOUS
<1>2. left \in SUBSET (1..Len(list)) /\ IsFiniteSet(1..Len(list)) /\ 1..Len(list) \subseteq Nat
  BY <1>1, FS_Interval
<1>3. left \in SUBSET Nat /\ IsFiniteSet(left)
  BY <1>2, FS_Subset
<1>4. kept \in Seq(left) /\ Listed(kept) = left
  BY <1>3, InOrderLists
<1>5. Without(list, x) = [n \in DOMAIN kept |-> list[kept[n]]]
  BY DEF Without
<1>6. \A n \in left : list[n] \in T /\ list[n] # x /\ n \in DOMAIN list
  OBVIOUS
<1>7. \A n \in DOMAIN list : n \in left \/ list[n] = x
  OBVIOUS
<1> HIDE DEF left, kept
<1>8. DOMAIN kept = 1..Len(kept) /\ Len(kept) \in Nat /\ \A n \in DOMAIN kept : kept[n] \in left
  BY <1>4
<1>9. Without(list, x) \in Seq(T)
  BY <1>5, <1>6, <1>8
<1>10. Listed(Without(list, x)) \subseteq Listed(list) \ {x}
  BY <1>5, <1>6, <1>8 DEF Listed
<1>11. ASSUME NEW y \in Listed(list), y # x PROVE y \in Listed(Without(list, x))
  <2>1. PICK n \in DOMAIN list : y = list[n]
    BY <1>11 DEF Listed
  <2>2. n \in Listed(kept)
    BY <1>4, <1>7, <1>11, <2>1
  <2>3. PICK m \in DOMAIN kept : n = kept[m]
    BY <2>2 DEF Listed
  <2> QED BY <1>5, <2>1, <2>3 DEF Listed
<1> QED BY <1>9, <1>10, <1>11

\* splice() puts one list after the other.
LEMMA SpliceLists ==
    ASSUME NEW T, NEW a \in Seq(T), NEW b \in Seq(T)
    PROVE  a \o b \in Seq(T) /\ Listed(a \o b) = Listed(a) \cup Listed(b)
<1>1. /\ a \o b \in Seq(T) /\ Len(a \o b) = Len(a) + Len(b)
      /\ Len(a) \in Nat /\ Len(b) \in Nat
      /\ \A n \in 1..Len(a) : (a \o b)[n] = a[n]
      /\ \A n \in 1..Len(b) : (a \o b)[n + Len(a)] = b[n]
  OBVIOUS
<1>2. ASSUME NEW x \in Listed(a \o b) PROVE x \in Listed(a) \cup Listed(b)
  <2>1. PICK n \in 1..Len(a \o b) : x = (a \o b)[n]
    BY <1>1, <1>2 DEF Listed
  <2>2. CASE n <= Len(a)
    BY <1>1, <2>1, <2>2 DEF Listed
  <2>3. CASE n > Len(a)
    <3>1. n - Len(a) \in 1..Len(b) /\ n = (n - Len(a)) + Len(a)
      BY <1>1, <2>1, <2>3
    <3>2. x = b[n - Len(a)]
      BY <1>1, <2>1, <3>1
    <3> QED BY <3>1, <3>2 DEF Listed
  <2> QED BY <1>1, <2>1, <2>2, <2>3
<1>3. Listed(a) \subseteq Listed(a \o b)
  BY <1>1 DEF Listed
<1>4. ASSUME NEW x \in Listed(b) PROVE x \in Listed(a \o b)
  <2>1. PICK n \in 1..Len(b) : x = b[n]
    BY <1>4 DEF Listed
  <2>2. n + Len(a) \in 1..Len(a \o b)
    BY <1>1, <2>1
  <2> QED BY <1>1, <2>1, <2>2 DEF Listed
<1> QED BY <1>1, <1>2, <1>3, <1>4

\* A call is replaced by those it makes.
LEMMA CallLists ==
    ASSUME CutTypes, calls # << >>, NEW x \in Head(calls), NEW then \in SUBSET Elements,
           Call(x, then)
    PROVE  /\ calls' \in Seq(SUBSET Elements) /\ x \in ToMark
           /\ then \subseteq ToMark' /\ ToMark \ {x} \subseteq ToMark'
           /\ ToMark' \subseteq ToMark \cup then
<1> DEFINE rest == Head(calls) \ {x}
           a == CallsFor(then) \o CallsFor(rest)
<1>1. /\ calls \in Seq(SUBSET Elements) /\ Len(calls) \in Nat \ {0} /\ Head(calls) = calls[1]
      /\ Tail(calls) \in Seq(SUBSET Elements) /\ Len(Tail(calls)) = Len(calls) - 1
      /\ \A n \in 1..Len(Tail(calls)) : Tail(calls)[n] = calls[n + 1]
  BY DEF CutTypes
<1>2. rest \in SUBSET Elements /\ x \in ToMark /\ rest \cup {x} = calls[1]
  BY <1>1 DEF ToMark
<1>3. \A S \in SUBSET Elements :
         CallsFor(S) \in Seq(SUBSET Elements) /\ UNION Listed(CallsFor(S)) = S
  <2> SUFFICES ASSUME NEW S \in SUBSET Elements
               PROVE  CallsFor(S) \in Seq(SUBSET Elements) /\ UNION Listed(CallsFor(S)) = S
    OBVIOUS
  <2>1. CASE S = {}
    BY <2>1 DEF CallsFor, Listed
  <2>2. CASE S # {}
    <3>1. CallsFor(S) = <<S>> /\ <<S>> \in Seq(SUBSET Elements) /\ DOMAIN <<S>> = {1}
             /\ <<S>>[1] = S
      BY <2>2 DEF CallsFor
    <3>2. Listed(<<S>>) = {S}
      BY <3>1 DEF Listed
    <3> QED BY <3>1, <3>2
  <2> QED BY <2>1, <2>2
<1> HIDE DEF rest
<1>4. a \in Seq(SUBSET Elements) /\ Listed(a) = Listed(CallsFor(then)) \cup Listed(CallsFor(rest))
  BY <1>2, <1>3, SpliceLists
<1>5. UNION Listed(a) = then \cup rest
  BY <1>2, <1>3, <1>4
<1>6. calls' = a \o Tail(calls)
  BY DEF Call, rest
<1> HIDE DEF a
<1>7. calls' \in Seq(SUBSET Elements) /\ Listed(calls') = Listed(a) \cup Listed(Tail(calls))
  <2>1. a \o Tail(calls) \in Seq(SUBSET Elements)
           /\ Listed(a \o Tail(calls)) = Listed(a) \cup Listed(Tail(calls))
    <3>1. a \in Seq(SUBSET Elements) /\ Tail(calls) \in Seq(SUBSET Elements)
      BY <1>1, <1>4
    <3> QED BY ONLY <3>1, SpliceLists
  <2> QED BY <1>6, <2>1
<1>8. ToMark' = UNION Listed(calls')
  BY <1>7 DEF ToMark, Listed
<1>9. ToMark' = (then \cup rest) \cup UNION Listed(Tail(calls))
  BY <1>5, <1>7, <1>8
<1>10. UNION Listed(Tail(calls)) \subseteq ToMark
  <2> SUFFICES ASSUME NEW n \in 1..Len(Tail(calls)) PROVE Tail(calls)[n] \subseteq ToMark
    BY <1>1 DEF Listed
  <2>1. n + 1 \in 1..Len(calls) /\ Tail(calls)[n] = calls[n + 1]
    BY <1>1
  <2> QED BY <2>1 DEF ToMark
<1>11. rest \subseteq ToMark
  BY <1>1, <1>2 DEF ToMark
<1>12. ASSUME NEW y \in ToMark, y # x PROVE y \in rest \cup UNION Listed(Tail(calls))
  <2>1. PICK n \in 1..Len(calls) : y \in calls[n]
    BY <1>12 DEF ToMark
  <2>2. CASE n = 1
    BY <1>2, <1>12, <2>1, <2>2
  <2>3. CASE n # 1
    <3>1. n - 1 \in 1..Len(Tail(calls)) /\ Tail(calls)[n - 1] = calls[n]
      BY <1>1, <2>1, <2>3
    <3>2. n - 1 \in DOMAIN Tail(calls)
      BY <1>1, <3>1
    <3> QED BY <2>1, <3>1, <3>2 DEF Listed
  <2> QED BY <2>2, <2>3
<1> QED BY <1>2, <1>7, <1>9, <1>10, <1>11, <1>12

-----------------------------------------------------------------------------
(* The document and its blocks.                                            *)

\* The document does not change, nor how one gets about in it.
LEMMA SameScenario ==
    ASSUME UNCHANGED scenar
    PROVE  /\ Intervals' = Intervals /\ Elements' = Elements
           /\ \A i : startEvent(i)' = startEvent(i)
           /\ \A i : endTimeSync(i)' = endTimeSync(i)
           /\ \A tn : previousIntervals(tn)' = previousIntervals(tn)
BY DEF Intervals, Elements, startEvent, endTimeSync, endEvent, previousIntervals

\* The kinds of objects are distinct, and each of them is in its place.
LEMMA Document ==
    ASSUME scenar \in Scenarios
    PROVE  /\ Intervals \subseteq Elements /\ scenar.syncs \subseteq Elements
           /\ scenar.events \subseteq Elements /\ scenar.conditioned \subseteq scenar.events
           /\ Intervals \cap scenar.syncs = {} /\ Intervals \cap scenar.events = {}
           /\ scenar.events \cap scenar.syncs = {}
           /\ \A ev \in scenar.events : scenar.syncOf[ev] \in scenar.syncs
           /\ \A i \in Intervals : startEvent(i) \in scenar.events
           /\ \A i \in Intervals : endTimeSync(i) \in scenar.syncs
           /\ \A i \in Intervals : i \in previousIntervals(endTimeSync(i))
           /\ \A tn : previousIntervals(tn) \subseteq Intervals
           /\ scenar.syncs \subseteq Nat /\ IsFiniteSet(scenar.syncs)
           /\ scenar.events \subseteq Nat /\ IsFiniteSet(scenar.events)
<1>1. ScenarioOK(scenar)
  BY ScenariosAssumption
<1>2. Intervals \subseteq Elements /\ scenar.syncs \subseteq Elements
         /\ scenar.events \subseteq Elements
  BY DEF Elements
<1>3. /\ scenar.conditioned \subseteq scenar.events
      /\ Intervals \cap scenar.syncs = {} /\ Intervals \cap scenar.events = {}
      /\ scenar.events \cap scenar.syncs = {}
      /\ \A ev \in scenar.events : scenar.syncOf[ev] \in scenar.syncs
      /\ scenar.syncs \subseteq Nat /\ IsFiniteSet(scenar.syncs)
      /\ scenar.events \subseteq Nat /\ IsFiniteSet(scenar.events)
  BY <1>1 DEF ScenarioOK, Intervals
<1>4. \A i \in Intervals : startEvent(i) \in scenar.events /\ endTimeSync(i) \in scenar.syncs
  BY Accessors
<1>5. \A i \in Intervals : i \in previousIntervals(endTimeSync(i))
  BY DEF previousIntervals
<1>6. \A tn : previousIntervals(tn) \subseteq Intervals
  BY DEF previousIntervals
<1> QED BY <1>2, <1>3, <1>4, <1>5, <1>6

\* When the programs are found, an interval has the mark of its syncs.
LEMMA OneProgram ==
    ASSUME IInv, Marked, NEW i \in Intervals
    PROVE  mark[startTimeSync(i)] = mark[i] /\ mark[endTimeSync(i)] = mark[i]
BY DEF IInv, Marked, MarksAgree, Touched

\* Of any syncs, one is reached by no interval from another of them.
LEMMA FirstOf ==
    ASSUME scenar \in Scenarios, NEW S \in SUBSET scenar.syncs, S # {}
    PROVE  \E tn \in S : \A i \in previousIntervals(tn) : startTimeSync(i) \notin S
<1>1. Forward(scenar)
  BY ForwardAssumption
<1>2. PICK tn \in S : \A i \in scenar.intervals :
           scenar.syncOf[scenar.eventOf[scenar.endState[i]]] = tn =>
               scenar.syncOf[scenar.eventOf[scenar.startState[i]]] \notin S
  BY <1>1 DEF Forward
<1> QED BY <1>2 DEF previousIntervals, Intervals, startTimeSync, endTimeSync, startEvent, endEvent

\* The sync the block under way starts at.
Origin == IF start \in scenar.syncs THEN start ELSE scenar.syncOf[start]

\* The block under way never comes back to where it started: going back in time
\* from a sync it has flowed through, along its intervals, never ends.
LEMMA NeverBack ==
    ASSUME scenar \in Scenarios, CutTypes, Flows, BlockFlows, InBlockNow
    PROVE  /\ \A i \in previousIntervals(Origin) : blockOf[i] # maxMark
           /\ start \notin scenar.syncs =>
                 Origin \notin ToMark /\ blockOf[Origin] # maxMark
<1>1. /\ \A ev \in scenar.events : scenar.syncOf[ev] \in scenar.syncs
      /\ \A i \in Intervals : startEvent(i) \in scenar.events
      /\ \A tn : previousIntervals(tn) \subseteq Intervals
      /\ scenar.conditioned \subseteq scenar.events
  BY Document
<1>2. start \in scenar.syncs \/ start \in scenar.events
  BY <1>1 DEF BlockFlows
<1>3. Origin \in scenar.syncs /\ (start \in scenar.syncs => Origin = start)
         /\ (start \notin scenar.syncs => Origin = scenar.syncOf[start])
  BY <1>1, <1>2 DEF Origin
<1> DEFINE Through(tn) == blockOf[tn] = maxMark \/ tn \in ToMark \/ tn = Origin
           S == {tn \in scenar.syncs : Through(tn)}
<1>4. ASSUME NEW i \in Intervals, blockOf[i] = maxMark
      PROVE  startTimeSync(i) \in S
  <2>1. blockOf[startEvent(i)] = maxMark
    BY <1>4 DEF Flows
  <2>2. startEvent(i) = start \/ blockOf[scenar.syncOf[startEvent(i)]] = maxMark
    BY <1>1, <2>1 DEF BlockFlows
  <2>3. startTimeSync(i) = scenar.syncOf[startEvent(i)] /\ startTimeSync(i) \in scenar.syncs
    BY <1>1 DEF startTimeSync
  <2>4. CASE startEvent(i) = start /\ start \in scenar.syncs
    <3>1. scenar.events \cap scenar.syncs = {}
      BY Document
    <3> QED BY <1>1, <2>4, <3>1
  <2>5. CASE startEvent(i) = start /\ start \notin scenar.syncs
    BY <1>3, <2>3, <2>5
  <2> QED BY <2>2, <2>3, <2>4, <2>5
<1>5. ASSUME NEW tn \in scenar.syncs, tn # start, blockOf[tn] = maxMark \/ tn \in ToMark
      PROVE  \E i \in previousIntervals(tn) : blockOf[i] = maxMark
  BY <1>5 DEF BlockFlows
<1>6. ASSUME \E i \in previousIntervals(Origin) : blockOf[i] = maxMark
      PROVE  FALSE
  <2>1. ASSUME NEW tn \in S
        PROVE  \E i \in previousIntervals(tn) : startTimeSync(i) \in S
    <3>1. \E i \in previousIntervals(tn) : blockOf[i] = maxMark
      <4>1. CASE tn = Origin
        BY <1>6, <4>1
      <4>2. CASE tn # Origin
        BY <1>3, <1>5, <2>1, <4>2
      <4> QED BY <4>1, <4>2
    <3> HIDE DEF S
    <3> QED BY <1>1, <1>4, <3>1
  <2>2. S \in SUBSET scenar.syncs /\ S # {}
    BY <1>3
  <2> HIDE DEF S
  <2> QED BY <2>1, <2>2, FirstOf
<1>7. ASSUME start \notin scenar.syncs, Origin \in ToMark \/ blockOf[Origin] = maxMark
      PROVE  FALSE
  <2>1. Origin # start
    BY <1>3, <1>7
  <2> QED BY <1>3, <1>5, <1>6, <1>7, <2>1
<1> QED BY <1>6, <1>7

\* A sync that the block under way starts at or flows through is not in a block
\* that flows into it where it should start one.
LEMMA BlockStarts ==
    ASSUME scenar \in Scenarios, CutTypes, Flows, BlockFlows, InBlockNow,
           NEW tn \in scenar.syncs, blockOf[tn] = maxMark \/ tn \in ToMark
    PROVE  LET before == {blockOf[i] : i \in previousIntervals(tn)}
           IN  tn \in scenar.active \/ Cardinality(before) > 1 => maxMark \notin before
<1> DEFINE before == {blockOf[i] : i \in previousIntervals(tn)}
<1>1. CASE tn = start
  <2>1. Origin = tn
    BY <1>1 DEF Origin
  <2> QED BY <2>1, NeverBack
<1>2. CASE tn # start
  <2>1. tn \notin scenar.active /\ previousIntervals(tn) # {}
           /\ \A i \in previousIntervals(tn) : blockOf[i] = maxMark
    BY <1>2 DEF BlockFlows
  <2>2. before = {maxMark}
    BY <2>1
  <2>3. Cardinality(before) = 1
    BY <2>2, FS_Singleton
  <2> HIDE DEF before
  <2>4. ~(Cardinality(before) > 1)
    BY <2>3
  <2> QED BY <2>1, <2>4 DEF before
<1> QED BY <1>1, <1>2

-----------------------------------------------------------------------------
(* Steps that start or end no block.                                       *)

\* Nothing is cut at first.
LEMMA InitCut == Init => CutInv
<1> SUFFICES ASSUME Init PROVE CutInv
  OBVIOUS
<1>1. /\ scenar \in Scenarios /\ step = "programs" /\ calls = << >> /\ maxMark = 0
      /\ startingNodes = << >> /\ startingEvents = << >>
      /\ \A x \in Elements : blockOf[x] = NoMark /\ mark[x] = NoMark
  BY DEF Init, ProgramInit
<1>2. CutTypes
  BY DEF Init, CutTypes, NoMark
<1>3. MarkedTouched
  BY <1>1 DEF MarkedTouched
<1>4. Between
  BY <1>1 DEF Between, NoMark
<1>5. Flows
  <2>1. \A i \in Intervals : blockOf[i] = blockOf[startEvent(i)]
    BY <1>1, Document
  <2>2. \A ev \in scenar.events : blockOf[ev] = blockOf[scenar.syncOf[ev]]
    BY <1>1, Document
  <2>3. ToMark = {}
    BY <1>1 DEF ToMark
  <2> QED BY <2>1, <2>2, <2>3 DEF Flows
<1>6. ~Cutting /\ ~InBlockNow
  BY <1>1 DEF Cutting, InBlockNow
<1>7. OwnProgram /\ Follows /\ BlockFlows /\ StartsOrWaits
  BY <1>6 DEF OwnProgram, Follows, BlockFlows, StartsOrWaits
<1>8. Order
  BY <1>1 DEF Order
<1> QED BY <1>2, <1>3, <1>4, <1>5, <1>7, <1>8 DEF CutInv

\* What a step leaves as it is when it changes no block, no list and no call.
cutVars == <<scenar, program, blockOf, maxMark, startingNodes, startingEvents, start, calls,
             notSame, notSure, notSameEvent>>

\* What is said of blocks and calls is then as before.
LEMMA SameCut ==
    ASSUME CutInv, UNCHANGED cutVars, InBlockNow' <=> InBlockNow
    PROVE  /\ CutTypes' /\ Between' /\ Flows' /\ BlockFlows' /\ Waiting' = Waiting
           /\ \A tn : Starts(tn)' = Starts(tn)
<1>1. /\ Intervals' = Intervals /\ Elements' = Elements
      /\ \A i : startEvent(i)' = startEvent(i)
      /\ \A i : endTimeSync(i)' = endTimeSync(i)
      /\ \A tn : previousIntervals(tn)' = previousIntervals(tn)
  BY SameScenario DEF cutVars
<1>2. /\ scenar' = scenar /\ program' = program /\ blockOf' = blockOf /\ maxMark' = maxMark
      /\ startingNodes' = startingNodes /\ startingEvents' = startingEvents /\ start' = start
      /\ calls' = calls /\ notSame' = notSame /\ notSure' = notSure
      /\ notSameEvent' = notSameEvent
  BY DEF cutVars
<1>3. ToMark' = ToMark /\ Limits' = Limits
  BY <1>2 DEF ToMark, Limits
<1>4. CutTypes'
  BY <1>1, <1>2 DEF CutInv, CutTypes
<1>5. Between'
  BY <1>1, <1>2 DEF CutInv, Between
<1>6. Flows'
  BY <1>1, <1>2, <1>3 DEF CutInv, Flows
<1>7. BlockFlows'
  BY <1>1, <1>2, <1>3 DEF CutInv, BlockFlows
<1>8. Waiting' = Waiting
  BY <1>2, <1>3 DEF Waiting, Listed
<1>9. \A tn : Starts(tn)' = Starts(tn)
  BY <1>1, <1>2 DEF Starts
<1> QED BY <1>4, <1>5, <1>6, <1>7, <1>8, <1>9

\* The same for what is said of marks.
LEMMA SameMarks ==
    ASSUME CutInv, UNCHANGED programVars
    PROVE  MarkedTouched' /\ Marked' = Marked /\ \A m : startingtimeSyncs(m)' = startingtimeSyncs(m)
<1>1. Intervals' = Intervals /\ Elements' = Elements /\ mark' = mark /\ stack' = stack
         /\ scenar' = scenar
  BY SameScenario DEF programVars
<1>2. \A i : Touched(i)' = Touched(i)
  BY <1>1, SameDocument
<1>3. MarkedTouched'
  BY <1>1, <1>2 DEF CutInv, MarkedTouched
<1>4. \A m : startingtimeSyncs(m)' = startingtimeSyncs(m)
  BY <1>1, SameScenario DEF startingtimeSyncs, Program
<1> QED BY <1>1, <1>3, <1>4 DEF Marked

\* What waits is as before, and so are the blocks.
LEMMA SameWaits ==
    ASSUME CutInv, UNCHANGED cutVars, UNCHANGED programVars, Cutting, InBlockNow' <=> InBlockNow
    PROVE  OwnProgram' /\ Follows' /\ StartsOrWaits'
<1>1. /\ Intervals' = Intervals /\ \A i : endTimeSync(i)' = endTimeSync(i)
      /\ mark' = mark /\ scenar' = scenar /\ program' = program /\ blockOf' = blockOf
  BY SameScenario DEF programVars, cutVars
<1>2. Waiting' = Waiting /\ \A tn : Starts(tn)' = Starts(tn)
  BY SameCut
<1>3. startingtimeSyncs(program)' = startingtimeSyncs(program)
  BY <1>1, SameMarks
<1>4. OwnProgram'
  BY <1>1, <1>2 DEF CutInv, OwnProgram
<1>5. Follows'
  BY <1>1, <1>2, <1>3 DEF CutInv, Follows
<1>6. StartsOrWaits'
  BY <1>1, <1>2 DEF CutInv, StartsOrWaits
<1> QED BY <1>4, <1>5, <1>6

\* The program visitor marks an interval with all it touches.
LEMMA FindProgramsKeeps ==
    ASSUME IInv, CutInv, FindPrograms
    PROVE  CutInv'
<1>1. step = "programs" /\ step' \in {"programs", "next"} /\ UNCHANGED cutVars
  BY DEF FindPrograms, ProgramStep, MarkFirst, MarkAgain, MarkNext, Return, programVars,
         cutVars, lists, results, working
<1>2. ~Cutting' /\ ~InBlockNow /\ ~InBlockNow'
  BY <1>1 DEF Cutting, InBlockNow
<1>3. CutTypes' /\ Between' /\ Flows' /\ BlockFlows'
  BY <1>1, <1>2, SameCut
<1>4. OwnProgram' /\ Follows' /\ StartsOrWaits'
  BY <1>2 DEF OwnProgram, Follows, StartsOrWaits
<1>5. Order'
  <2>1. CASE step' = "programs"
    BY <2>1 DEF Order
  <2>2. CASE step' = "next"
    <3>1. Marked /\ UNCHANGED programVars
      BY <1>1, <2>2 DEF FindPrograms
    <3> QED BY <2>2, <3>1, SameMarks DEF Order
  <2> QED BY <1>1, <2>1, <2>2
<1>6. ASSUME NEW i \in Intervals, mark[i] = NoMark, Mark(i), UNCHANGED <<scenar, currentMark>>
      PROVE  MarkedTouched'
  <2>1. /\ Intervals' = Intervals /\ Elements' = Elements
        /\ \A j : Touched(j)' = Touched(j)
    BY <1>6, SameDocument
  <2>2. \A j \in Intervals : mark'[j] = IF j = i THEN currentMark ELSE mark[j]
    BY <1>6, MarkKeeps
  <2>3. \A x \in Elements : mark'[x] = IF x \in Touched(i) THEN currentMark ELSE mark[x]
    BY <1>6 DEF Mark, IInv, ProgramTypeOK
  <2>4. ASSUME NEW x \in Elements, mark'[x] # NoMark
        PROVE  \E j \in Intervals : x \in Touched(j) /\ mark'[j] = mark'[x]
    <3>1. CASE x \in Touched(i)
      BY <2>2, <2>3, <3>1
    <3>2. CASE x \notin Touched(i)
      <4>1. mark[x] = mark'[x]
        BY <2>3, <3>2
      <4>2. PICK j \in Intervals : x \in Touched(j) /\ mark[j] = mark[x]
        BY <2>4, <4>1 DEF CutInv, MarkedTouched
      <4>3. j # i
        BY <3>2, <4>2
      <4> QED BY <2>2, <4>1, <4>2, <4>3
    <3> QED BY <3>1, <3>2
  <2> QED BY <2>1, <2>4 DEF MarkedTouched
<1>7. MarkedTouched'
  <2>1. CASE UNCHANGED <<scenar, mark>>
    <3>1. Intervals' = Intervals /\ Elements' = Elements /\ \A j : Touched(j)' = Touched(j)
      BY <2>1, SameDocument
    <3> QED BY <2>1, <3>1 DEF CutInv, MarkedTouched
  <2>2. CASE \E i \in Intervals : MarkFirst(i)
    BY <1>6, <2>2 DEF MarkFirst
  <2>3. CASE \E i \in Intervals, k \in 1..4 : MarkNext(k, i)
    BY <1>6, <2>3 DEF MarkNext
  <2> QED BY <2>1, <2>2, <2>3
          DEF FindPrograms, ProgramStep, MarkAgain, Return, programVars
<1> QED BY <1>3, <1>4, <1>5, <1>7 DEF CutInv

\* A program is cut from its first syncs on.
LEMMA NextProgramKeeps ==
    ASSUME IInv, CutInv, NextProgram
    PROVE  CutInv'
<1>1. /\ step = "next" /\ step' = "nodes" /\ UNCHANGED programVars /\ program' = program
      /\ blockOf' = [x \in Elements |-> NoMark] /\ maxMark' = 0
      /\ startingNodes' = InOrder(startingtimeSyncs(program)) /\ startingEvents' = << >>
      /\ start' = start /\ calls' = calls /\ notSame' = notSame /\ notSure' = notSure
      /\ notSameEvent' = notSameEvent
  BY DEF NextProgram, working, results
<1>2. /\ Intervals' = Intervals /\ Elements' = Elements /\ scenar' = scenar /\ mark' = mark
      /\ \A i : startEvent(i)' = startEvent(i)
      /\ \A i : endTimeSync(i)' = endTimeSync(i)
  BY <1>1, SameScenario DEF programVars
<1>3. scenar \in Scenarios
  BY DEF IInv, ProgramTypeOK
<1>4. calls = << >> /\ ToMark' = {} /\ ~InBlockNow'
  BY <1>1 DEF CutInv, Between, InBlockNow, ToMark
<1>5. \A x \in Elements : blockOf'[x] = NoMark
  BY <1>1
<1>6. startingNodes' \in Seq(scenar.syncs) /\ Listed(startingNodes') = startingtimeSyncs(program)
  <2>1. startingtimeSyncs(program) \in SUBSET scenar.syncs
    BY DEF startingtimeSyncs
  <2>2. startingtimeSyncs(program) \in SUBSET Nat /\ IsFiniteSet(startingtimeSyncs(program))
    BY <1>3, <2>1, Document, FS_Subset
  <2>3. InOrder(startingtimeSyncs(program)) \in Seq(startingtimeSyncs(program))
           /\ Listed(InOrder(startingtimeSyncs(program))) = startingtimeSyncs(program)
    BY <2>2, InOrderLists
  <2> QED BY <1>1, <2>1, <2>3
<1>7. Waiting' = startingtimeSyncs(program)
  <2>1. Listed(startingEvents') = {}
    BY <1>1 DEF Listed
  <2> QED BY <1>4, <1>6, <2>1 DEF Waiting, Listed
<1>8. CutTypes'
  BY <1>1, <1>2, <1>6 DEF CutInv, CutTypes
<1>9. Between'
  BY <1>1, <1>2, <1>4, <1>5 DEF Between, NoMark
<1>10. Flows'
  <2>1. \A i \in Intervals : blockOf'[i] = blockOf'[startEvent(i)]
    BY <1>3, <1>5, Document
  <2>2. \A ev \in scenar.events : blockOf'[ev] = blockOf'[scenar.syncOf[ev]]
    BY <1>3, <1>5, Document
  <2> QED BY <1>2, <1>4, <2>1, <2>2 DEF Flows
<1>11. \A x \in startingtimeSyncs(program) : x \in scenar.syncs /\ mark[x] = program
  BY DEF startingtimeSyncs, Program
<1>12. OwnProgram'
  <2>1. \A x \in Intervals \cup scenar.syncs : blockOf'[x] = NoMark
    BY <1>3, <1>5, Document
  <2>2. \A ev \in scenar.events : blockOf'[ev] = NoMark /\ ev \notin Waiting'
    BY <1>3, <1>5, <1>7, <1>11, Document
  <2> QED BY <1>1, <1>2, <1>7, <1>11, <2>1, <2>2 DEF OwnProgram
<1>13. Follows'
  <2>1. startingtimeSyncs(program)' = startingtimeSyncs(program)
    BY <1>1, SameMarks
  <2>2. \A i \in Intervals : blockOf'[i] = NoMark
    BY <1>3, <1>5, Document
  <2>3. \A ev \in scenar.conditioned : blockOf'[scenar.syncOf[ev]] = NoMark
    BY <1>3, <1>5, Document
  <2> QED BY <1>2, <1>7, <2>1, <2>2, <2>3 DEF Follows
<1>14. BlockFlows'
  BY <1>4 DEF BlockFlows
<1>15. StartsOrWaits'
  <2>1. \A tn \in scenar.syncs : blockOf'[tn] = NoMark
    BY <1>3, <1>5, Document
  <2>2. \A ev \in scenar.conditioned : blockOf'[scenar.syncOf[ev]] = NoMark
    BY <1>3, <1>5, Document
  <2> QED BY <1>2, <2>1, <2>2 DEF StartsOrWaits
<1>16. MarkedTouched' /\ Marked'
  BY <1>1, SameMarks DEF CutInv, Order
<1>17. Order'
  BY <1>1, <1>16 DEF Order
<1> QED BY <1>8, <1>9, <1>10, <1>12, <1>13, <1>14, <1>15, <1>16, <1>17 DEF CutInv

\* A loop ends.
LEMMA EndOfListKeeps ==
    ASSUME IInv, CutInv, EndOfList
    PROVE  CutInv'
<1>1. /\ step \in {"nodes", "events"} /\ step' \in {"nodes", "events", "count"}
      /\ UNCHANGED programVars /\ UNCHANGED cutVars
      /\ step' = "count" => startingNodes = << >> /\ startingEvents = << >>
  BY DEF EndOfList, programVars, cutVars, lists, results, working
<1>2. Cutting /\ ~InBlockNow /\ ~InBlockNow'
  BY <1>1 DEF Cutting, InBlockNow
<1>3. CutTypes' /\ Between' /\ Flows' /\ BlockFlows'
  BY <1>1, <1>2, SameCut
<1>4. OwnProgram' /\ Follows' /\ StartsOrWaits'
  BY <1>1, <1>2, SameWaits
<1>5. MarkedTouched' /\ Marked'
  BY <1>1, SameMarks DEF CutInv, Order
<1>6. Order'
  BY <1>1, <1>5 DEF Order, cutVars
<1> QED BY <1>3, <1>4, <1>5, <1>6 DEF CutInv

\* The blocks of a program are counted, or there is no program left.
LEMMA BetweenProgramsKeeps ==
    ASSUME IInv, CutInv, Count \/ NoMoreProgram
    PROVE  CutInv'
<1>1. /\ step \in {"count", "next"} /\ step' \in {"next", "done"} /\ UNCHANGED programVars
      /\ program' \in {program, program + 1}
      /\ UNCHANGED <<blockOf, maxMark, startingNodes, startingEvents, start, calls, notSame,
                     notSure, notSameEvent>>
  BY DEF Count, NoMoreProgram, lists, results, working
<1>2. /\ Intervals' = Intervals /\ Elements' = Elements /\ scenar' = scenar
      /\ \A i : startEvent(i)' = startEvent(i)
  BY <1>1, SameScenario DEF programVars
<1>3. ~Cutting' /\ ~InBlockNow /\ ~InBlockNow'
  BY <1>1 DEF Cutting, InBlockNow
<1>4. CutTypes'
  BY <1>1, <1>2 DEF CutInv, CutTypes
<1>5. Between'
  BY <1>1, <1>2, <1>3 DEF CutInv, Between
<1>6. Flows'
  <2>1. ToMark' = ToMark
    BY <1>1 DEF ToMark
  <2> QED BY <1>1, <1>2, <2>1 DEF CutInv, Flows
<1>7. OwnProgram' /\ Follows' /\ BlockFlows' /\ StartsOrWaits'
  BY <1>3 DEF OwnProgram, Follows, BlockFlows, StartsOrWaits
<1>8. MarkedTouched' /\ Marked'
  BY <1>1, SameMarks DEF CutInv, Order
<1>9. Order'
  BY <1>1, <1>8 DEF Order
<1> QED BY <1>4, <1>5, <1>6, <1>7, <1>8, <1>9 DEF CutInv

-----------------------------------------------------------------------------
(* A block starts.                                                         *)

\* The head of a list is in it.
LEMMA HeadListed ==
    ASSUME NEW T, NEW list \in Seq(T), list # << >>
    PROVE  Head(list) \in T /\ Head(list) \in Listed(list)
<1>1. Head(list) \in T /\ Head(list) = list[1] /\ 1 \in DOMAIN list
  OBVIOUS
<1> QED BY <1>1 DEF Listed

\* Starting a block for a sync is a call for that sync.
LEMMA computeNodeKeeps ==
    ASSUME IInv, CutInv, computeNode
    PROVE  CutInv'
<1> DEFINE tn == Head(startingNodes)
<1>1. /\ step = "nodes" /\ step' = "block" /\ start' = tn /\ calls' = <<{tn}>>
      /\ notSame' = {} /\ notSure' = {} /\ notSameEvent' = {}
      /\ UNCHANGED programVars
      /\ UNCHANGED <<program, blockOf, maxMark, startingNodes, startingEvents>>
      /\ startingNodes # << >>
  BY DEF computeNode, Compute, lists
<1>2. /\ Intervals' = Intervals /\ Elements' = Elements /\ scenar' = scenar /\ mark' = mark
      /\ \A i : startEvent(i)' = startEvent(i)
      /\ \A i : endTimeSync(i)' = endTimeSync(i)
      /\ \A x : previousIntervals(x)' = previousIntervals(x)
  BY <1>1, SameScenario DEF programVars
<1>3. scenar \in Scenarios
  BY DEF IInv, ProgramTypeOK
<1>4. tn \in scenar.syncs /\ tn \in Listed(startingNodes)
  BY <1>1, HeadListed DEF CutInv, CutTypes
<1> HIDE DEF tn
<1>5. /\ Cutting /\ ~InBlockNow /\ Cutting' /\ InBlockNow' /\ ToMark = {}
      /\ \A x \in Elements : blockOf[x] # maxMark
  BY <1>1 DEF CutInv, Between, Cutting, InBlockNow, ToMark
<1>6. calls' \in Seq(SUBSET Elements) /\ ToMark' = {tn} /\ Limits' = {}
  <2>1. tn \in Elements
    BY <1>3, <1>4, Document
  <2>2. <<{tn}>> \in Seq(SUBSET Elements) /\ Len(<<{tn}>>) = 1 /\ <<{tn}>>[1] = {tn}
    BY <2>1
  <2>3. ToMark' = {tn}
    <3>1. \A x : x \in ToMark' <=> \E n \in 1..Len(calls') : x \in calls'[n]
      BY DEF ToMark
    <3> QED BY <1>1, <2>2, <3>1
  <2> QED BY <1>1, <2>2, <2>3 DEF Limits
<1>7. Waiting' = Waiting
  <2>1. Waiting = Listed(startingNodes) \cup Listed(startingEvents)
    BY <1>5 DEF Waiting
  <2>2. Waiting' = {tn} \cup Listed(startingNodes) \cup Listed(startingEvents)
    BY <1>1, <1>5, <1>6 DEF Waiting, Listed
  <2> QED BY <1>4, <2>1, <2>2
<1>8. CutTypes'
  BY <1>1, <1>2, <1>6 DEF CutInv, CutTypes
<1>9. Between'
  BY <1>5 DEF Between
<1>10. Flows'
  <2>1. \A i \in Intervals : i \notin ToMark'
    BY <1>3, <1>4, <1>6, Document
  <2>2. \A ev \in scenar.events : ev \notin ToMark'
    BY <1>3, <1>4, <1>6, Document
  <2> QED BY <1>1, <1>2, <1>5, <2>1, <2>2 DEF CutInv, Flows
<1>11. OwnProgram'
  BY <1>1, <1>2, <1>5, <1>7 DEF CutInv, OwnProgram
<1>12. Follows'
  <2>1. startingtimeSyncs(program)' = startingtimeSyncs(program)
    BY <1>1, SameMarks
  <2> QED BY <1>1, <1>2, <1>5, <1>7, <2>1 DEF CutInv, Follows
<1>13. BlockFlows'
  <2>1. \A x \in scenar.syncs : blockOf[x] # maxMark
    BY <1>3, <1>5, Document
  <2>2. \A ev \in scenar.events : blockOf[ev] # maxMark
    BY <1>3, <1>5, Document
  <2> QED BY <1>1, <1>2, <1>4, <1>6, <2>1, <2>2 DEF BlockFlows
<1>14. StartsOrWaits'
  <2>1. \A x : Starts(x)' = Starts(x)
    BY <1>1, <1>2 DEF Starts
  <2> QED BY <1>1, <1>2, <1>5, <1>7, <2>1 DEF CutInv, StartsOrWaits
<1>15. MarkedTouched' /\ Marked'
  BY <1>1, SameMarks DEF CutInv, Order
<1>16. Order'
  BY <1>1, <1>15 DEF Order
<1> QED BY <1>8, <1>9, <1>10, <1>11, <1>12, <1>13, <1>14, <1>15, <1>16 DEF CutInv

\* An event with a condition is put in the block it starts, and what leaves it
\* is called for.
LEMMA computeEventKeeps ==
    ASSUME IInv, CutInv, computeEvent
    PROVE  CutInv'
<1> DEFINE ev == Head(startingEvents)
<1>1. /\ step = "events" /\ step' = "block" /\ start' = ev /\ calls' = CallsFor(nextOfEvent(ev))
      /\ notSame' = {} /\ notSure' = {} /\ notSameEvent' = {}
      /\ blockOf' = [blockOf EXCEPT ![ev] = maxMark]
      /\ UNCHANGED programVars
      /\ UNCHANGED <<program, maxMark, startingNodes, startingEvents>>
      /\ startingEvents # << >>
  BY DEF computeEvent, Compute, lists
<1>2. /\ Intervals' = Intervals /\ Elements' = Elements /\ scenar' = scenar /\ mark' = mark
      /\ \A i : startEvent(i)' = startEvent(i)
      /\ \A i : endTimeSync(i)' = endTimeSync(i)
      /\ \A x : previousIntervals(x)' = previousIntervals(x)
  BY <1>1, SameScenario DEF programVars
<1>3. scenar \in Scenarios
  BY DEF IInv, ProgramTypeOK
<1>4. ev \in scenar.conditioned /\ ev \in Listed(startingEvents)
  BY <1>1, HeadListed DEF CutInv, CutTypes
<1> HIDE DEF ev
<1>5. ev \in scenar.events /\ ev \in Elements /\ ev \notin scenar.syncs /\ ev \notin Intervals
  BY <1>3, <1>4, Document
<1>6. /\ Cutting /\ ~InBlockNow /\ Cutting' /\ InBlockNow' /\ ToMark = {}
      /\ \A x \in Elements : blockOf[x] # maxMark
  BY <1>1 DEF CutInv, Between, Cutting, InBlockNow, ToMark
<1>7. /\ \A x \in Elements : blockOf'[x] = IF x = ev THEN maxMark ELSE blockOf[x]
      /\ blockOf' \in [Elements -> {NoMark} \cup (0..maxMark)]
      /\ maxMark \in Nat /\ maxMark # NoMark
  <2>1. blockOf \in [Elements -> {NoMark} \cup (0..maxMark)] /\ maxMark \in Nat
    BY DEF CutInv, CutTypes
  <2>2. maxMark # NoMark
    BY <2>1 DEF NoMark
  <2>3. maxMark \in 0..maxMark
    BY <2>1
  <2> QED BY <1>1, <2>1, <2>2, <2>3
<1>8. /\ \A i \in Intervals : blockOf'[i] = blockOf[i] /\ blockOf[i] # maxMark
      /\ \A x \in scenar.syncs : blockOf'[x] = blockOf[x] /\ blockOf[x] # maxMark
      /\ \A x \in scenar.events : blockOf'[x] = IF x = ev THEN maxMark ELSE blockOf[x]
      /\ \A x \in scenar.events : blockOf[x] # maxMark
  BY <1>3, <1>5, <1>6, <1>7, Document
<1>9. calls' \in Seq(SUBSET Elements) /\ ToMark' = nextOfEvent(ev) /\ Limits' = {}
  <2>1. nextOfEvent(ev) \subseteq Elements
    BY DEF nextOfEvent, Elements
  <2>2. \A x : x \in ToMark' <=> \E n \in 1..Len(calls') : x \in calls'[n]
    BY DEF ToMark
  <2>3. CASE nextOfEvent(ev) = {}
    BY <1>1, <2>2, <2>3 DEF CallsFor, Limits
  <2>4. CASE nextOfEvent(ev) # {}
    <3>1. calls' = <<nextOfEvent(ev)>>
      BY <1>1, <2>4 DEF CallsFor
    <3>2. Len(calls') = 1 /\ calls'[1] = nextOfEvent(ev)
      BY <3>1
    <3> QED BY <1>1, <2>1, <2>2, <3>1, <3>2 DEF Limits
  <2> QED BY <2>3, <2>4
<1>10. \A x : x \in Waiting' <=> x \in nextOfEvent(ev) \/ x \in Waiting
  BY <1>1, <1>6, <1>9 DEF Waiting, Listed
<1>11. \A i : i \in nextOfEvent(ev) <=> i \in Intervals /\ startEvent(i) = ev
  BY DEF nextOfEvent
<1>12. CutTypes'
  BY <1>1, <1>2, <1>7, <1>9 DEF CutInv, CutTypes
<1>13. Between'
  BY <1>6 DEF Between
<1>14. Flows'
  <2>1. ASSUME NEW i \in Intervals
        PROVE  /\ i \in ToMark' => blockOf'[startEvent(i)] = maxMark
               /\ blockOf'[i] = blockOf'[startEvent(i)] \/ i \in ToMark'
    <3>1. startEvent(i) \in scenar.events
      BY <1>3, Document
    <3> QED BY <1>6, <1>8, <1>9, <1>11, <3>1 DEF CutInv, Flows
  <2>2. ASSUME NEW x \in scenar.events
        PROVE  /\ x \notin ToMark'
               /\ x \in scenar.conditioned \/ blockOf'[x] = blockOf'[scenar.syncOf[x]]
    <3>1. scenar.syncOf[x] \in scenar.syncs /\ x \notin Intervals
      BY <1>3, Document
    <3> QED BY <1>4, <1>6, <1>8, <1>9, <1>11, <3>1 DEF CutInv, Flows
  <2> QED BY <1>1, <1>2, <2>1, <2>2 DEF Flows
<1>15. OwnProgram'
  <2>1. mark[scenar.syncOf[ev]] = program
    BY <1>4, <1>5, <1>6 DEF CutInv, OwnProgram, Waiting
  <2>2. ASSUME NEW i \in nextOfEvent(ev) PROVE mark[i] = program
    <3>1. i \in Intervals /\ startTimeSync(i) = scenar.syncOf[ev] /\ Marked
      BY <1>1, <1>11, <2>2 DEF CutInv, Order, startTimeSync
    <3> QED BY <2>1, <3>1, OneProgram
  <2>3. ASSUME NEW x \in Intervals \cup scenar.syncs, blockOf'[x] # NoMark \/ x \in Waiting'
        PROVE  mark[x] = program
    BY <1>6, <1>8, <1>10, <2>2, <2>3 DEF CutInv, OwnProgram
  <2>4. ASSUME NEW x \in scenar.events, blockOf'[x] # NoMark \/ x \in Waiting'
        PROVE  mark[scenar.syncOf[x]] = program
    <3>1. x \notin nextOfEvent(ev)
      BY <1>3, <1>11, Document
    <3> QED BY <1>6, <1>8, <1>10, <2>1, <2>4, <3>1 DEF CutInv, OwnProgram
  <2> QED BY <1>1, <1>2, <2>3, <2>4 DEF OwnProgram
<1>16. Follows'
  <2>1. startingtimeSyncs(program)' = startingtimeSyncs(program)
           /\ startingtimeSyncs(program) \subseteq scenar.syncs
    BY <1>1, SameMarks DEF startingtimeSyncs
  <2>2. \A x \in startingtimeSyncs(program) : blockOf'[x] # NoMark \/ x \in Waiting'
    BY <1>6, <1>8, <1>10, <2>1 DEF CutInv, Follows
  <2>3. ASSUME NEW i \in Intervals, blockOf'[i] # NoMark
        PROVE  blockOf'[endTimeSync(i)] # NoMark \/ endTimeSync(i) \in Waiting'
    <3>1. endTimeSync(i) \in scenar.syncs
      BY <1>3, Document
    <3> QED BY <1>6, <1>8, <1>10, <2>3, <3>1 DEF CutInv, Follows
  <2>4. ASSUME NEW x \in scenar.conditioned, blockOf'[scenar.syncOf[x]] # NoMark
        PROVE  blockOf'[x] # NoMark \/ x \in Waiting'
    <3>1. x \in scenar.events /\ scenar.syncOf[x] \in scenar.syncs
      BY <1>3, Document
    <3> QED BY <1>6, <1>7, <1>8, <1>10, <2>4, <3>1 DEF CutInv, Follows
  <2> QED BY <1>1, <1>2, <2>1, <2>2, <2>3, <2>4 DEF Follows
<1>17. BlockFlows'
  <2>1. \A x \in scenar.syncs : x \notin ToMark'
    BY <1>3, <1>9, <1>11, Document
  <2>2. blockOf'[ev] = maxMark
    BY <1>5, <1>8
  <2> QED BY <1>1, <1>2, <1>4, <1>8, <1>9, <2>1, <2>2 DEF BlockFlows
<1>18. StartsOrWaits'
  <2>1. \A x \in scenar.syncs : Starts(x)' <=> Starts(x)
    <3> SUFFICES ASSUME NEW x \in scenar.syncs PROVE Starts(x)' <=> Starts(x)
      OBVIOUS
    <3>1. {blockOf'[i] : i \in previousIntervals(x)} = {blockOf[i] : i \in previousIntervals(x)}
      BY <1>3, <1>8, Document
    <3> QED BY <1>2, <1>8, <3>1 DEF Starts
  <2>2. ASSUME NEW x \in scenar.conditioned, blockOf'[scenar.syncOf[x]] # NoMark
        PROVE  blockOf'[x] # blockOf'[scenar.syncOf[x]] \/ x \in Waiting'
    <3>1. x \in scenar.events /\ scenar.syncOf[x] \in scenar.syncs
      BY <1>3, Document
    <3> QED BY <1>6, <1>8, <1>10, <2>2, <3>1 DEF CutInv, StartsOrWaits
  <2>3. ASSUME NEW x \in scenar.syncs, blockOf'[x] # NoMark
        PROVE  Starts(x)' \/ x \in Waiting'
    BY <1>6, <1>8, <1>10, <2>1, <2>3 DEF CutInv, StartsOrWaits
  <2> QED BY <1>2, <2>2, <2>3 DEF StartsOrWaits
<1>19. MarkedTouched' /\ Marked'
  BY <1>1, SameMarks DEF CutInv, Order
<1>20. Order'
  BY <1>1, <1>19 DEF Order
<1> QED BY <1>12, <1>13, <1>14, <1>15, <1>16, <1>17, <1>18, <1>19, <1>20 DEF CutInv

-----------------------------------------------------------------------------
(* mark()                                                                  *)

\* What holds around every call.
InCall ==
    /\ step = "block" /\ calls # << >>
    /\ UNCHANGED <<programVars, step, program, maxMark, lists, start>>

\* What a call leaves as it is, and where it is made.
LEMMA CallFacts ==
    ASSUME IInv, CutInv, InCall
    PROVE  /\ UNCHANGED <<scenar, mark, step, program, maxMark, startingNodes, startingEvents,
                          start>>
           /\ Intervals' = Intervals /\ Elements' = Elements
           /\ \A i : startEvent(i)' = startEvent(i)
           /\ \A i : endTimeSync(i)' = endTimeSync(i)
           /\ \A tn : previousIntervals(tn)' = previousIntervals(tn)
           /\ startingtimeSyncs(program)' = startingtimeSyncs(program)
           /\ startingtimeSyncs(program) \subseteq scenar.syncs
           /\ scenar \in Scenarios /\ Marked
           /\ Cutting /\ InBlockNow /\ Cutting' /\ InBlockNow'
           /\ maxMark \in Nat /\ maxMark # NoMark
           /\ Between' /\ MarkedTouched' /\ Order'
<1>1. /\ UNCHANGED <<scenar, mark, step, program, maxMark, startingNodes, startingEvents, start>>
      /\ UNCHANGED programVars /\ step = "block"
  BY DEF InCall, programVars, lists
<1>2. /\ Intervals' = Intervals /\ Elements' = Elements
      /\ \A i : startEvent(i)' = startEvent(i)
      /\ \A i : endTimeSync(i)' = endTimeSync(i)
      /\ \A tn : previousIntervals(tn)' = previousIntervals(tn)
  BY <1>1, SameScenario
<1>3. scenar \in Scenarios /\ Marked
  BY <1>1 DEF IInv, ProgramTypeOK, CutInv, Order
<1>4. Cutting /\ InBlockNow /\ Cutting' /\ InBlockNow'
  BY <1>1 DEF Cutting, InBlockNow
<1>5. maxMark \in Nat /\ maxMark # NoMark
  BY DEF CutInv, CutTypes, NoMark
<1>6. MarkedTouched' /\ Marked' /\ startingtimeSyncs(program)' = startingtimeSyncs(program)
  BY <1>1, <1>3, SameMarks
<1>7. startingtimeSyncs(program) \subseteq scenar.syncs
  BY DEF startingtimeSyncs
<1>8. Between' /\ Order'
  BY <1>1, <1>4, <1>6 DEF Between, Order
<1> QED BY <1>1, <1>2, <1>3, <1>4, <1>5, <1>6, <1>7, <1>8

\* Putting an object in the block under way.
LEMMA InThisBlock ==
    ASSUME CutTypes, NEW x \in Elements, blockOf' = [blockOf EXCEPT ![x] = maxMark]
    PROVE  /\ blockOf' \in [Elements -> {NoMark} \cup (0..maxMark)]
           /\ \A y \in Elements : blockOf'[y] = IF y = x THEN maxMark ELSE blockOf[y]
<1>1. blockOf \in [Elements -> {NoMark} \cup (0..maxMark)] /\ maxMark \in Nat
  BY DEF CutTypes
<1>2. maxMark \in 0..maxMark
  BY <1>1
<1> QED BY <1>1, <1>2

\* A sync goes in the block, and its events are called for.
LEMMA MarkNodeKeeps ==
    ASSUME IInv, CutInv, InCall, NEW tn \in Head(calls), MarkNode(tn)
    PROVE  CutInv'
<1> DEFINE evs == {ev \in scenar.events : scenar.syncOf[ev] = tn}
<1>1. /\ UNCHANGED <<scenar, mark, step, program, maxMark, startingNodes, startingEvents, start>>
      /\ Intervals' = Intervals /\ Elements' = Elements
      /\ \A i : startEvent(i)' = startEvent(i)
      /\ \A i : endTimeSync(i)' = endTimeSync(i)
      /\ \A x : previousIntervals(x)' = previousIntervals(x)
      /\ startingtimeSyncs(program)' = startingtimeSyncs(program)
      /\ startingtimeSyncs(program) \subseteq scenar.syncs
      /\ scenar \in Scenarios /\ Marked
      /\ Cutting /\ InBlockNow /\ Cutting' /\ InBlockNow'
      /\ maxMark \in Nat /\ maxMark # NoMark
      /\ Between' /\ MarkedTouched' /\ Order'
  BY CallFacts
<1>2. /\ tn \in scenar.syncs /\ blockOf' = [blockOf EXCEPT ![tn] = maxMark]
      /\ UNCHANGED <<notSame, notSure, notSameEvent>>
  BY DEF MarkNode, results
<1>3. tn \in Elements /\ evs \subseteq scenar.events /\ evs \subseteq Elements
         /\ tn \notin scenar.events /\ tn \notin Intervals
  BY <1>1, <1>2, Document
<1>4. /\ blockOf' \in [Elements -> {NoMark} \cup (0..maxMark)]
      /\ \A y \in Elements : blockOf'[y] = IF y = tn THEN maxMark ELSE blockOf[y]
  BY <1>2, <1>3, InThisBlock DEF CutInv
<1>5. /\ \A i \in Intervals : blockOf'[i] = blockOf[i]
      /\ \A x \in scenar.events : blockOf'[x] = blockOf[x]
      /\ \A x \in scenar.syncs : blockOf'[x] = IF x = tn THEN maxMark ELSE blockOf[x]
  BY <1>1, <1>3, <1>4, Document
<1>6. /\ calls' \in Seq(SUBSET Elements) /\ tn \in ToMark
      /\ evs \subseteq ToMark' /\ ToMark \ {tn} \subseteq ToMark'
      /\ ToMark' \subseteq ToMark \cup evs
  <2>1. calls # << >> /\ Call(tn, evs) /\ CutTypes
    BY DEF InCall, MarkNode, CutInv
  <2> HIDE DEF evs
  <2> QED BY <1>3, <2>1, CallLists
<1>7. \A x : x \in evs <=> x \in scenar.events /\ scenar.syncOf[x] = tn
  OBVIOUS
<1> HIDE DEF evs
<1>8. Limits' = Limits /\ Listed(startingNodes)' = Listed(startingNodes)
         /\ Listed(startingEvents)' = Listed(startingEvents)
  BY <1>1, <1>2 DEF Limits, Listed
<1>9. /\ Waiting' \subseteq Waiting \cup evs /\ Waiting \ {tn} \subseteq Waiting'
      /\ evs \subseteq Waiting' /\ tn \in Waiting /\ ToMark' \subseteq Waiting'
  BY <1>1, <1>2, <1>6, <1>8 DEF Waiting, Listed
<1>10. CutTypes'
  BY <1>1, <1>2, <1>4, <1>6 DEF CutInv, CutTypes
<1>11. Flows'
  <2>1. ASSUME NEW i \in Intervals
        PROVE  /\ i \in ToMark' => blockOf'[startEvent(i)] = maxMark
               /\ blockOf'[i] = blockOf'[startEvent(i)] \/ i \in ToMark'
    <3>1. startEvent(i) \in scenar.events /\ i \notin evs /\ i # tn
      BY <1>1, <1>3, <1>7, Document
    <3> QED BY <1>5, <1>6, <3>1 DEF CutInv, Flows
  <2>2. ASSUME NEW x \in scenar.events
        PROVE  /\ x \in ToMark' => blockOf'[scenar.syncOf[x]] = maxMark
               /\ x \in scenar.conditioned \/ blockOf'[x] = blockOf'[scenar.syncOf[x]]
                     \/ x \in ToMark'
    <3>1. scenar.syncOf[x] \in scenar.syncs /\ x # tn
      BY <1>1, <1>3, Document
    <3> QED BY <1>5, <1>6, <1>7, <3>1 DEF CutInv, Flows
  <2> QED BY <1>1, <2>1, <2>2 DEF Flows
<1>12. OwnProgram'
  <2>1. mark[tn] = program
    BY <1>1, <1>2, <1>9 DEF CutInv, OwnProgram
  <2>2. ASSUME NEW x \in Intervals \cup scenar.syncs, blockOf'[x] # NoMark \/ x \in Waiting'
        PROVE  mark[x] = program
    <3>1. x \notin evs
      BY <1>1, <1>7, Document
    <3> QED BY <1>1, <1>5, <1>9, <2>1, <2>2, <3>1 DEF CutInv, OwnProgram
  <2>3. ASSUME NEW x \in scenar.events, blockOf'[x] # NoMark \/ x \in Waiting'
        PROVE  mark[scenar.syncOf[x]] = program
    BY <1>1, <1>5, <1>7, <1>9, <2>1, <2>3 DEF CutInv, OwnProgram
  <2> QED BY <1>1, <2>2, <2>3 DEF OwnProgram
<1>13. Follows'
  <2>1. \A x \in startingtimeSyncs(program) : blockOf'[x] # NoMark \/ x \in Waiting'
    BY <1>1, <1>5, <1>9 DEF CutInv, Follows
  <2>2. ASSUME NEW i \in Intervals, blockOf'[i] # NoMark
        PROVE  blockOf'[endTimeSync(i)] # NoMark \/ endTimeSync(i) \in Waiting'
    <3>1. endTimeSync(i) \in scenar.syncs
      BY <1>1, Document
    <3> QED BY <1>1, <1>5, <1>9, <2>2, <3>1 DEF CutInv, Follows
  <2>3. ASSUME NEW x \in scenar.conditioned, blockOf'[scenar.syncOf[x]] # NoMark
        PROVE  blockOf'[x] # NoMark \/ x \in Waiting'
    <3>1. x \in scenar.events /\ scenar.syncOf[x] \in scenar.syncs /\ x # tn
      BY <1>1, <1>3, Document
    <3> QED BY <1>1, <1>5, <1>7, <1>9, <2>3, <3>1 DEF CutInv, Follows
  <2> QED BY <1>1, <2>1, <2>2, <2>3 DEF Follows
<1>14. BlockFlows'
  <2>1. \/ start \in scenar.syncs /\ (start \in ToMark' \/ blockOf'[start] = maxMark)
        \/ start \in scenar.conditioned /\ blockOf'[start] = maxMark
    <3>1. scenar.conditioned \subseteq scenar.events
      BY <1>1, Document
    <3> QED BY <1>1, <1>5, <1>6, <3>1 DEF CutInv, BlockFlows
  <2>2. ASSUME NEW x \in scenar.syncs, x # start, blockOf'[x] = maxMark \/ x \in ToMark'
        PROVE  /\ x \notin scenar.active /\ previousIntervals(x) # {}
               /\ \A i \in previousIntervals(x) : blockOf'[i] = maxMark
    <3>1. x \notin evs /\ previousIntervals(x) \subseteq Intervals
      BY <1>1, <1>7, Document
    <3>2. blockOf[x] = maxMark \/ x \in ToMark
      BY <1>5, <1>6, <2>2, <3>1
    <3> QED BY <1>1, <1>5, <2>2, <3>1, <3>2 DEF CutInv, BlockFlows
  <2>3. \A x \in Limits : \E i \in previousIntervals(x) : blockOf'[i] = maxMark
    <3>1. \A x : previousIntervals(x) \subseteq Intervals
      BY <1>1, Document
    <3> QED BY <1>1, <1>5, <3>1 DEF CutInv, BlockFlows
  <2>4. ASSUME NEW x \in scenar.events, blockOf'[x] = maxMark
        PROVE  x = start \/ blockOf'[scenar.syncOf[x]] = maxMark
    <3>1. scenar.syncOf[x] \in scenar.syncs
      BY <1>1, Document
    <3> QED BY <1>1, <1>5, <2>4, <3>1 DEF CutInv, BlockFlows
  <2> QED BY <1>1, <1>8, <2>1, <2>2, <2>3, <2>4 DEF BlockFlows
<1>15. StartsOrWaits'
  <2>1. \A x : {blockOf'[i] : i \in previousIntervals(x)}
                = {blockOf[i] : i \in previousIntervals(x)}
    <3>1. \A x : previousIntervals(x) \subseteq Intervals
      BY <1>1, Document
    <3> QED BY <1>5, <3>1
  <2>2. Starts(tn)'
    <3>1. LET before == {blockOf[i] : i \in previousIntervals(tn)}
          IN  tn \in scenar.active \/ Cardinality(before) > 1 => maxMark \notin before
      BY <1>1, <1>2, <1>6, BlockStarts DEF CutInv
    <3>2. blockOf'[tn] = maxMark
      BY <1>2, <1>5
    <3> QED BY <1>1, <2>1, <3>1, <3>2 DEF Starts
  <2>3. ASSUME NEW x \in scenar.syncs, blockOf'[x] # NoMark
        PROVE  Starts(x)' \/ x \in Waiting'
    <3>1. CASE x = tn
      BY <2>2, <3>1
    <3>2. CASE x # tn
      <4>1. Starts(x)' <=> Starts(x)
        BY <1>1, <1>5, <2>1, <3>2 DEF Starts
      <4> QED BY <1>1, <1>5, <1>9, <2>3, <3>2, <4>1 DEF CutInv, StartsOrWaits
    <3> QED BY <3>1, <3>2
  <2>4. ASSUME NEW x \in scenar.conditioned, blockOf'[scenar.syncOf[x]] # NoMark
        PROVE  blockOf'[x] # blockOf'[scenar.syncOf[x]] \/ x \in Waiting'
    <3>1. x \in scenar.events /\ scenar.syncOf[x] \in scenar.syncs /\ x # tn
      BY <1>1, <1>3, Document
    <3> QED BY <1>1, <1>5, <1>7, <1>9, <2>4, <3>1 DEF CutInv, StartsOrWaits
  <2> QED BY <1>1, <2>3, <2>4 DEF StartsOrWaits
<1> QED BY <1>1, <1>10, <1>11, <1>12, <1>13, <1>14, <1>15 DEF CutInv

\* An event without condition goes in the block, and what leaves it is called
\* for; another one is kept for later.
LEMMA MarkEventKeeps ==
    ASSUME IInv, CutInv, InCall, NEW ev \in Head(calls), MarkEvent(ev)
    PROVE  CutInv'
<1> DEFINE next == IF ev \in scenar.conditioned THEN {} ELSE nextOfEvent(ev)
<1>1. /\ UNCHANGED <<scenar, mark, step, program, maxMark, startingNodes, startingEvents, start>>
      /\ Intervals' = Intervals /\ Elements' = Elements
      /\ \A i : startEvent(i)' = startEvent(i)
      /\ \A i : endTimeSync(i)' = endTimeSync(i)
      /\ \A x : previousIntervals(x)' = previousIntervals(x)
      /\ startingtimeSyncs(program)' = startingtimeSyncs(program)
      /\ startingtimeSyncs(program) \subseteq scenar.syncs
      /\ scenar \in Scenarios /\ Marked
      /\ Cutting /\ InBlockNow /\ Cutting' /\ InBlockNow'
      /\ maxMark \in Nat /\ maxMark # NoMark
      /\ Between' /\ MarkedTouched' /\ Order'
  BY CallFacts
<1>2. /\ ev \in scenar.events /\ UNCHANGED <<notSame, notSure>>
      /\ blockOf' = IF ev \in scenar.conditioned THEN blockOf ELSE [blockOf EXCEPT ![ev] = maxMark]
      /\ notSameEvent' = IF ev \in scenar.conditioned THEN notSameEvent \cup {ev}
                         ELSE notSameEvent
  BY DEF MarkEvent
<1>3. ev \in Elements /\ ev \notin scenar.syncs /\ ev \notin Intervals
         /\ scenar.syncOf[ev] \in scenar.syncs
  BY <1>1, <1>2, Document
<1>4. /\ blockOf' \in [Elements -> {NoMark} \cup (0..maxMark)]
      /\ \A y \in Elements :
            blockOf'[y] = IF y = ev /\ ev \notin scenar.conditioned THEN maxMark ELSE blockOf[y]
  <2>1. CASE ev \in scenar.conditioned
    BY <1>2, <2>1 DEF CutInv, CutTypes
  <2>2. CASE ev \notin scenar.conditioned
    <3>1. blockOf' = [blockOf EXCEPT ![ev] = maxMark]
      BY <1>2, <2>2
    <3> QED BY <1>3, <2>2, <3>1, InThisBlock DEF CutInv
  <2> QED BY <2>1, <2>2
<1>5. /\ \A i \in Intervals : blockOf'[i] = blockOf[i]
      /\ \A x \in scenar.syncs : blockOf'[x] = blockOf[x]
      /\ \A x \in scenar.events :
            blockOf'[x] = IF x = ev /\ ev \notin scenar.conditioned THEN maxMark ELSE blockOf[x]
  BY <1>1, <1>3, <1>4, Document
<1>6. \A i : i \in next <=> i \in Intervals /\ startEvent(i) = ev /\ ev \notin scenar.conditioned
  BY DEF nextOfEvent
<1>7. /\ calls' \in Seq(SUBSET Elements) /\ ev \in ToMark
      /\ next \subseteq ToMark' /\ ToMark \ {ev} \subseteq ToMark'
      /\ ToMark' \subseteq ToMark \cup next
  <2>1. calls # << >> /\ Call(ev, next) /\ CutTypes
    BY DEF InCall, MarkEvent, CutInv
  <2>2. next \subseteq Elements
    BY <1>1, <1>6, Document
  <2> HIDE DEF next
  <2> QED BY <2>1, <2>2, CallLists
<1> HIDE DEF next
<1>8. blockOf[scenar.syncOf[ev]] = maxMark
  BY <1>2, <1>7 DEF CutInv, Flows
<1>9. Limits' = Limits /\ Listed(startingNodes)' = Listed(startingNodes)
         /\ Listed(startingEvents)' = Listed(startingEvents)
  BY <1>1, <1>2 DEF Limits, Listed
<1>10. /\ Waiting' \subseteq Waiting \cup next /\ Waiting \ {ev} \subseteq Waiting'
       /\ next \subseteq Waiting' /\ ev \in Waiting /\ ToMark' \subseteq Waiting'
       /\ ev \in scenar.conditioned => ev \in Waiting'
  BY <1>1, <1>2, <1>7, <1>9 DEF Waiting, Listed
<1>11. CutTypes'
  BY <1>1, <1>2, <1>4, <1>7 DEF CutInv, CutTypes
<1>12. Flows'
  <2>1. ASSUME NEW i \in Intervals
        PROVE  /\ i \in ToMark' => blockOf'[startEvent(i)] = maxMark
               /\ blockOf'[i] = blockOf'[startEvent(i)] \/ i \in ToMark'
    <3>1. startEvent(i) \in scenar.events /\ i # ev
      BY <1>1, <1>3, Document
    <3> QED BY <1>5, <1>6, <1>7, <3>1 DEF CutInv, Flows
  <2>2. ASSUME NEW x \in scenar.events
        PROVE  /\ x \in ToMark' => blockOf'[scenar.syncOf[x]] = maxMark
               /\ x \in scenar.conditioned \/ blockOf'[x] = blockOf'[scenar.syncOf[x]]
                     \/ x \in ToMark'
    <3>1. scenar.syncOf[x] \in scenar.syncs /\ x \notin next
      BY <1>1, <1>6, Document
    <3>2. CASE x = ev
      BY <1>5, <1>8, <3>1, <3>2
    <3>3. CASE x # ev
      BY <1>5, <1>7, <3>1, <3>3 DEF CutInv, Flows
    <3> QED BY <3>2, <3>3
  <2> QED BY <1>1, <2>1, <2>2 DEF Flows
<1>13. OwnProgram'
  <2>1. mark[scenar.syncOf[ev]] = program
    BY <1>1, <1>2, <1>10 DEF CutInv, OwnProgram
  <2>2. ASSUME NEW i \in next PROVE mark[i] = program
    <3>1. i \in Intervals /\ startTimeSync(i) = scenar.syncOf[ev]
      BY <1>6, <2>2 DEF startTimeSync
    <3> QED BY <1>1, <2>1, <3>1, OneProgram
  <2>3. ASSUME NEW x \in Intervals \cup scenar.syncs, blockOf'[x] # NoMark \/ x \in Waiting'
        PROVE  mark[x] = program
    BY <1>1, <1>5, <1>10, <2>2, <2>3 DEF CutInv, OwnProgram
  <2>4. ASSUME NEW x \in scenar.events, blockOf'[x] # NoMark \/ x \in Waiting'
        PROVE  mark[scenar.syncOf[x]] = program
    <3>1. x \notin next
      BY <1>1, <1>6, Document
    <3> QED BY <1>1, <1>5, <1>10, <2>1, <2>4, <3>1 DEF CutInv, OwnProgram
  <2> QED BY <1>1, <2>3, <2>4 DEF OwnProgram
<1>14. Follows'
  <2>1. \A x \in startingtimeSyncs(program) : blockOf'[x] # NoMark \/ x \in Waiting'
    BY <1>1, <1>3, <1>5, <1>10 DEF CutInv, Follows
  <2>2. ASSUME NEW i \in Intervals, blockOf'[i] # NoMark
        PROVE  blockOf'[endTimeSync(i)] # NoMark \/ endTimeSync(i) \in Waiting'
    <3>1. endTimeSync(i) \in scenar.syncs
      BY <1>1, Document
    <3> QED BY <1>1, <1>3, <1>5, <1>10, <2>2, <3>1 DEF CutInv, Follows
  <2>3. ASSUME NEW x \in scenar.conditioned, blockOf'[scenar.syncOf[x]] # NoMark
        PROVE  blockOf'[x] # NoMark \/ x \in Waiting'
    <3>1. x \in scenar.events /\ scenar.syncOf[x] \in scenar.syncs
      BY <1>1, Document
    <3> QED BY <1>1, <1>5, <1>10, <2>3, <3>1 DEF CutInv, Follows
  <2> QED BY <1>1, <2>1, <2>2, <2>3 DEF Follows
<1>15. BlockFlows'
  <2>1. \/ start \in scenar.syncs /\ (start \in ToMark' \/ blockOf'[start] = maxMark)
        \/ start \in scenar.conditioned /\ blockOf'[start] = maxMark
    <3>1. scenar.conditioned \subseteq scenar.events
      BY <1>1, Document
    <3> QED BY <1>1, <1>3, <1>5, <1>7, <3>1 DEF CutInv, BlockFlows
  <2>2. ASSUME NEW x \in scenar.syncs, x # start, blockOf'[x] = maxMark \/ x \in ToMark'
        PROVE  /\ x \notin scenar.active /\ previousIntervals(x) # {}
               /\ \A i \in previousIntervals(x) : blockOf'[i] = maxMark
    <3>1. x \notin next /\ previousIntervals(x) \subseteq Intervals
      BY <1>1, <1>6, Document
    <3>2. blockOf[x] = maxMark \/ x \in ToMark
      BY <1>5, <1>7, <2>2, <3>1
    <3> QED BY <1>1, <1>5, <2>2, <3>1, <3>2 DEF CutInv, BlockFlows
  <2>3. \A x \in Limits : \E i \in previousIntervals(x) : blockOf'[i] = maxMark
    <3>1. \A x : previousIntervals(x) \subseteq Intervals
      BY <1>1, Document
    <3> QED BY <1>1, <1>5, <3>1 DEF CutInv, BlockFlows
  <2>4. ASSUME NEW x \in scenar.events, blockOf'[x] = maxMark
        PROVE  x = start \/ blockOf'[scenar.syncOf[x]] = maxMark
    <3>1. scenar.syncOf[x] \in scenar.syncs
      BY <1>1, Document
    <3> QED BY <1>1, <1>5, <1>8, <2>4, <3>1 DEF CutInv, BlockFlows
  <2> QED BY <1>1, <1>9, <2>1, <2>2, <2>3, <2>4 DEF BlockFlows
<1>16. StartsOrWaits'
  <2>1. \A x : {blockOf'[i] : i \in previousIntervals(x)}
                = {blockOf[i] : i \in previousIntervals(x)}
    <3>1. \A x : previousIntervals(x) \subseteq Intervals
      BY <1>1, Document
    <3> QED BY <1>5, <3>1
  <2>2. ASSUME NEW x \in scenar.syncs, blockOf'[x] # NoMark
        PROVE  Starts(x)' \/ x \in Waiting'
    <3>1. Starts(x)' <=> Starts(x)
      BY <1>1, <1>5, <2>1 DEF Starts
    <3> QED BY <1>1, <1>3, <1>5, <1>10, <2>2, <3>1 DEF CutInv, StartsOrWaits
  <2>3. ASSUME NEW x \in scenar.conditioned, blockOf'[scenar.syncOf[x]] # NoMark
        PROVE  blockOf'[x] # blockOf'[scenar.syncOf[x]] \/ x \in Waiting'
    <3>1. x \in scenar.events /\ scenar.syncOf[x] \in scenar.syncs
      BY <1>1, Document
    <3> QED BY <1>1, <1>5, <1>10, <2>3, <3>1 DEF CutInv, StartsOrWaits
  <2> QED BY <1>1, <2>2, <2>3 DEF StartsOrWaits
<1> QED BY <1>1, <1>11, <1>12, <1>13, <1>14, <1>15, <1>16 DEF CutInv

\* A sync that is in the same block has no trigger, and the block under way has
\* flowed through all that comes before.
LEMMA SameBlock ==
    ASSUME NEW tn, NEW b, InSameBlock(tn, b) = "Same"
    PROVE  tn \notin scenar.active /\ \A i \in previousIntervals(tn) : b[i] = maxMark
<1> DEFINE others == {b[i] : i \in previousIntervals(tn)} \ {maxMark}
<1>1. ~(tn \in scenar.active \/ others \ {NoMark} # {}) /\ NoMark \notin others
  BY DEF InSameBlock
<1>2. others = {}
  BY <1>1
<1> QED BY <1>1, <1>2

\* It is in the block, or not, or not yet.
LEMMA InSameBlockType ==
    ASSUME NEW tn, NEW b
    PROVE  InSameBlock(tn, b) \in {"Same", "NotSure", "NotSame"}
BY DEF InSameBlock

\* An interval goes in the block, and the sync it leads to is called for when it
\* is in it as well, and else kept for later.
LEMMA MarkIntervalKeeps ==
    ASSUME IInv, CutInv, InCall, NEW i \in Head(calls), MarkInterval(i)
    PROVE  CutInv'
<1> DEFINE tn == endTimeSync(i)
           same == InSameBlock(tn, blockOf')
           then == IF same = "Same" THEN {tn} ELSE {}
<1>1. /\ UNCHANGED <<scenar, mark, step, program, maxMark, startingNodes, startingEvents, start>>
      /\ Intervals' = Intervals /\ Elements' = Elements
      /\ \A x : startEvent(x)' = startEvent(x)
      /\ \A x : endTimeSync(x)' = endTimeSync(x)
      /\ \A x : previousIntervals(x)' = previousIntervals(x)
      /\ startingtimeSyncs(program)' = startingtimeSyncs(program)
      /\ startingtimeSyncs(program) \subseteq scenar.syncs
      /\ scenar \in Scenarios /\ Marked
      /\ Cutting /\ InBlockNow /\ Cutting' /\ InBlockNow'
      /\ maxMark \in Nat /\ maxMark # NoMark
      /\ Between' /\ MarkedTouched' /\ Order'
  BY CallFacts
<1>2. /\ i \in Intervals /\ blockOf' = [blockOf EXCEPT ![i] = maxMark]
      /\ Call(i, then) /\ notSameEvent' = notSameEvent
      /\ notSure' = IF same = "NotSure" THEN notSure \cup {tn} ELSE notSure
      /\ notSame' = IF same = "NotSame" THEN notSame \cup {tn} ELSE notSame
  BY DEF MarkInterval
<1>3. /\ i \in Elements /\ i \notin scenar.syncs /\ i \notin scenar.events
      /\ tn \in scenar.syncs /\ tn \in Elements /\ i \in previousIntervals(tn)
      /\ \A x : i \in previousIntervals(x) => x = tn
  <2>1. \A x : i \in previousIntervals(x) => x = tn
    BY DEF previousIntervals
  <2> QED BY <1>1, <1>2, <2>1, Document
<1>4. same \in {"Same", "NotSure", "NotSame"}
         /\ (same = "Same" => /\ tn \notin scenar.active
                              /\ \A x \in previousIntervals(tn) : blockOf'[x] = maxMark)
  BY InSameBlockType, SameBlock
<1> HIDE DEF same
<1>5. /\ blockOf' \in [Elements -> {NoMark} \cup (0..maxMark)]
      /\ \A y \in Elements : blockOf'[y] = IF y = i THEN maxMark ELSE blockOf[y]
  BY <1>2, <1>3, InThisBlock DEF CutInv
<1>6. /\ \A x \in Intervals : blockOf'[x] = IF x = i THEN maxMark ELSE blockOf[x]
      /\ \A x \in scenar.events : blockOf'[x] = blockOf[x]
      /\ \A x \in scenar.syncs : blockOf'[x] = blockOf[x]
  BY <1>1, <1>3, <1>5, Document
<1>7. /\ calls' \in Seq(SUBSET Elements) /\ i \in ToMark
      /\ then \subseteq ToMark' /\ ToMark \ {i} \subseteq ToMark'
      /\ ToMark' \subseteq ToMark \cup then
  <2>1. calls # << >> /\ CutTypes /\ then \subseteq Elements
    BY <1>3 DEF InCall, CutInv
  <2> HIDE DEF then
  <2> QED BY <1>2, <2>1, CallLists
<1>8. /\ ToMark' \subseteq ToMark \cup {tn} /\ ToMark \ {i} \subseteq ToMark'
      /\ tn \in ToMark' /\ tn \notin ToMark => same = "Same"
      /\ same = "Same" => tn \in ToMark'
  BY <1>7
<1> HIDE DEF then, tn
<1>9. /\ Limits' = IF same = "Same" THEN Limits ELSE Limits \cup {tn}
      /\ Listed(startingNodes)' = Listed(startingNodes)
      /\ Listed(startingEvents)' = Listed(startingEvents)
  BY <1>1, <1>2, <1>4 DEF Limits, Listed
<1>10. /\ Waiting' \subseteq Waiting \cup {tn} /\ Waiting \ {i} \subseteq Waiting'
       /\ tn \in Waiting' /\ i \in Waiting
  BY <1>1, <1>2, <1>7, <1>8, <1>9 DEF Waiting, Listed
<1>11. CutTypes'
  BY <1>1, <1>2, <1>3, <1>5, <1>7 DEF CutInv, CutTypes
<1>12. Flows'
  <2>1. ASSUME NEW x \in Intervals
        PROVE  /\ x \in ToMark' => blockOf'[startEvent(x)] = maxMark
               /\ blockOf'[x] = blockOf'[startEvent(x)] \/ x \in ToMark'
    <3>1. startEvent(x) \in scenar.events /\ x # tn
      BY <1>1, <1>3, Document
    <3> QED BY <1>6, <1>7, <1>8, <3>1 DEF CutInv, Flows
  <2>2. ASSUME NEW x \in scenar.events
        PROVE  /\ x \in ToMark' => blockOf'[scenar.syncOf[x]] = maxMark
               /\ x \in scenar.conditioned \/ blockOf'[x] = blockOf'[scenar.syncOf[x]]
                     \/ x \in ToMark'
    <3>1. scenar.syncOf[x] \in scenar.syncs /\ x # tn /\ x # i
      BY <1>1, <1>3, Document
    <3> QED BY <1>6, <1>8, <3>1 DEF CutInv, Flows
  <2> QED BY <1>1, <2>1, <2>2 DEF Flows
<1>13. OwnProgram'
  <2>1. mark[i] = program
    BY <1>1, <1>2, <1>10 DEF CutInv, OwnProgram
  <2>2. mark[tn] = program
    BY <1>1, <1>2, <2>1, OneProgram DEF tn
  <2>3. ASSUME NEW x \in Intervals \cup scenar.syncs, blockOf'[x] # NoMark \/ x \in Waiting'
        PROVE  mark[x] = program
    BY <1>1, <1>6, <1>10, <2>1, <2>2, <2>3 DEF CutInv, OwnProgram
  <2>4. ASSUME NEW x \in scenar.events, blockOf'[x] # NoMark \/ x \in Waiting'
        PROVE  mark[scenar.syncOf[x]] = program
    <3>1. x # tn
      BY <1>1, <1>3, Document
    <3> QED BY <1>1, <1>6, <1>10, <2>4, <3>1 DEF CutInv, OwnProgram
  <2> QED BY <1>1, <2>3, <2>4 DEF OwnProgram
<1>14. Follows'
  <2>1. \A x \in startingtimeSyncs(program) : blockOf'[x] # NoMark \/ x \in Waiting'
    BY <1>1, <1>3, <1>6, <1>10 DEF CutInv, Follows
  <2>2. ASSUME NEW x \in Intervals, blockOf'[x] # NoMark
        PROVE  blockOf'[endTimeSync(x)] # NoMark \/ endTimeSync(x) \in Waiting'
    <3>1. endTimeSync(x) \in scenar.syncs
      BY <1>1, Document
    <3>2. CASE x = i
      BY <1>10, <3>2 DEF tn
    <3>3. CASE x # i
      BY <1>1, <1>3, <1>6, <1>10, <2>2, <3>1, <3>3 DEF CutInv, Follows
    <3> QED BY <3>2, <3>3
  <2>3. ASSUME NEW x \in scenar.conditioned, blockOf'[scenar.syncOf[x]] # NoMark
        PROVE  blockOf'[x] # NoMark \/ x \in Waiting'
    <3>1. x \in scenar.events /\ scenar.syncOf[x] \in scenar.syncs
      BY <1>1, Document
    <3> QED BY <1>1, <1>3, <1>6, <1>10, <2>3, <3>1 DEF CutInv, Follows
  <2> QED BY <1>1, <2>1, <2>2, <2>3 DEF Follows
<1>15. BlockFlows'
  <2>1. \/ start \in scenar.syncs /\ (start \in ToMark' \/ blockOf'[start] = maxMark)
        \/ start \in scenar.conditioned /\ blockOf'[start] = maxMark
    <3>1. scenar.conditioned \subseteq scenar.events
      BY <1>1, Document
    <3> QED BY <1>1, <1>3, <1>6, <1>8, <3>1 DEF CutInv, BlockFlows
  <2>2. ASSUME NEW x \in scenar.syncs, x # start, blockOf'[x] = maxMark \/ x \in ToMark'
        PROVE  /\ x \notin scenar.active /\ previousIntervals(x) # {}
               /\ \A j \in previousIntervals(x) : blockOf'[j] = maxMark
    <3>1. previousIntervals(x) \subseteq Intervals
      BY <1>1, Document
    <3>2. CASE blockOf[x] = maxMark \/ x \in ToMark
      BY <1>1, <1>6, <2>2, <3>1, <3>2 DEF CutInv, BlockFlows
    <3>3. CASE ~(blockOf[x] = maxMark \/ x \in ToMark)
      <4>1. x = tn /\ same = "Same"
        BY <1>6, <1>8, <2>2, <3>3
      <4> QED BY <1>3, <1>4, <4>1
    <3> QED BY <3>2, <3>3
  <2>3. ASSUME NEW x \in Limits' PROVE \E j \in previousIntervals(x) : blockOf'[j] = maxMark
    <3>1. previousIntervals(x) \subseteq Intervals
      BY <1>1, Document
    <3>2. CASE x = tn
      BY <1>2, <1>3, <1>6, <3>2
    <3>3. CASE x # tn
      <4>1. x \in Limits
        BY <1>9, <2>3, <3>3
      <4> QED BY <1>1, <1>6, <3>1, <4>1 DEF CutInv, BlockFlows
    <3> QED BY <3>2, <3>3
  <2>4. ASSUME NEW x \in scenar.events, blockOf'[x] = maxMark
        PROVE  x = start \/ blockOf'[scenar.syncOf[x]] = maxMark
    <3>1. scenar.syncOf[x] \in scenar.syncs
      BY <1>1, Document
    <3> QED BY <1>1, <1>6, <2>4, <3>1 DEF CutInv, BlockFlows
  <2> QED BY <1>1, <2>1, <2>2, <2>3, <2>4 DEF BlockFlows
<1>16. StartsOrWaits'
  <2>1. ASSUME NEW x \in scenar.syncs, blockOf'[x] # NoMark
        PROVE  Starts(x)' \/ x \in Waiting'
    <3>1. CASE x = tn
      BY <1>10, <3>1
    <3>2. CASE x # tn
      <4>1. previousIntervals(x) \subseteq Intervals /\ i \notin previousIntervals(x)
        BY <1>1, <1>3, <3>2, Document
      <4>2. {blockOf'[j] : j \in previousIntervals(x)} = {blockOf[j] : j \in previousIntervals(x)}
        BY <1>6, <4>1
      <4>3. Starts(x)' <=> Starts(x)
        BY <1>1, <1>6, <4>2 DEF Starts
      <4> QED BY <1>1, <1>3, <1>6, <1>10, <2>1, <4>3 DEF CutInv, StartsOrWaits
    <3> QED BY <3>1, <3>2
  <2>2. ASSUME NEW x \in scenar.conditioned, blockOf'[scenar.syncOf[x]] # NoMark
        PROVE  blockOf'[x] # blockOf'[scenar.syncOf[x]] \/ x \in Waiting'
    <3>1. x \in scenar.events /\ scenar.syncOf[x] \in scenar.syncs
      BY <1>1, Document
    <3> QED BY <1>1, <1>3, <1>6, <1>10, <2>2, <3>1 DEF CutInv, StartsOrWaits
  <2> QED BY <1>1, <2>1, <2>2 DEF StartsOrWaits
<1> QED BY <1>1, <1>11, <1>12, <1>13, <1>14, <1>15, <1>16 DEF CutInv

-----------------------------------------------------------------------------
(* iterate()                                                               *)

\* A pass begins, or finds nothing new about a sync.
LEMMA PassKeeps ==
    ASSUME IInv, CutInv, Pass \/ \E tn \in notSure : StillNotSure(tn)
    PROVE  CutInv'
<1>1. step = "block" /\ step' = step /\ UNCHANGED programVars /\ UNCHANGED cutVars
  BY DEF Pass, StillNotSure, Visit, Iterating, programVars, cutVars, lists, results
<1>2. Cutting /\ InBlockNow /\ InBlockNow'
  BY <1>1 DEF Cutting, InBlockNow
<1>3. CutTypes' /\ Between' /\ Flows' /\ BlockFlows'
  BY <1>1, <1>2, SameCut
<1>4. OwnProgram' /\ Follows' /\ StartsOrWaits'
  BY <1>1, <1>2, SameWaits
<1>5. MarkedTouched' /\ Marked'
  BY <1>1, SameMarks DEF CutInv, Order
<1>6. Order'
  BY <1>1, <1>5 DEF Order
<1> QED BY <1>3, <1>4, <1>5, <1>6 DEF CutInv

\* It finds that a sync is in the block, or that it is not.
LEMMA DecidedKeeps ==
    ASSUME IInv, CutInv, NEW tn \in notSure, Decided(tn)
    PROVE  CutInv'
<1> DEFINE same == InSameBlock(tn, blockOf)
<1>1. /\ step = "block" /\ calls = << >> /\ step' \in {"block", "crashed"}
      /\ UNCHANGED programVars
      /\ UNCHANGED <<scenar, mark, program, blockOf, maxMark, startingNodes, startingEvents,
                     start, notSameEvent>>
      /\ same # "NotSure"
      /\ notSure' = notSure \ {tn}
      /\ notSame' = IF same = "NotSame" THEN notSame \cup {tn} ELSE notSame
      /\ calls' = IF same = "Same" THEN <<{tn}>> ELSE << >>
  BY DEF Decided, Visit, Iterating, lists, programVars
<1>2. same \in {"Same", "NotSure", "NotSame"}
         /\ (same = "Same" => /\ tn \notin scenar.active
                              /\ \A x \in previousIntervals(tn) : blockOf[x] = maxMark)
  BY InSameBlockType, SameBlock
<1> HIDE DEF same
<1>3. /\ Intervals' = Intervals /\ Elements' = Elements
      /\ \A x : startEvent(x)' = startEvent(x)
      /\ \A x : endTimeSync(x)' = endTimeSync(x)
      /\ \A x : previousIntervals(x)' = previousIntervals(x)
      /\ startingtimeSyncs(program)' = startingtimeSyncs(program)
      /\ MarkedTouched' /\ Marked'
  BY <1>1, SameScenario, SameMarks DEF CutInv, Order
<1>4. scenar \in Scenarios /\ Cutting /\ InBlockNow /\ Cutting' /\ InBlockNow'
  BY <1>1 DEF Cutting, InBlockNow, IInv, ProgramTypeOK
<1>5. tn \in scenar.syncs /\ tn \in Elements /\ tn \in Limits
  BY <1>4, Document DEF CutInv, CutTypes, Limits
<1>6. /\ ToMark = {} /\ calls' \in Seq(SUBSET Elements)
      /\ ToMark' = IF same = "Same" THEN {tn} ELSE {}
  <2>1. \A x : x \in ToMark' <=> \E n \in 1..Len(calls') : x \in calls'[n]
    BY DEF ToMark
  <2>2. CASE same = "Same"
    <3>1. Len(calls') = 1 /\ calls'[1] = {tn} /\ calls' = <<{tn}>>
      BY <1>1, <2>2
    <3> QED BY <1>1, <1>5, <2>1, <2>2, <3>1 DEF ToMark
  <2>3. CASE same # "Same"
    BY <1>1, <2>1, <2>3 DEF ToMark
  <2> QED BY <2>2, <2>3
<1>7. Limits' = IF same = "Same" THEN Limits' ELSE Limits
  BY <1>1, <1>2, <1>5 DEF Limits
<1>8. Limits' \subseteq Limits /\ Limits \ {tn} \subseteq Limits'
  BY <1>1, <1>5 DEF Limits
<1>9. Waiting' = Waiting
  <2>1. Listed(startingNodes)' = Listed(startingNodes)
           /\ Listed(startingEvents)' = Listed(startingEvents)
    BY <1>1 DEF Listed
  <2> QED BY <1>1, <1>4, <1>5, <1>6, <1>7, <1>8, <2>1 DEF Waiting, Listed
<1>10. CutTypes'
  BY <1>1, <1>3, <1>5, <1>6 DEF CutInv, CutTypes
<1>11. Between'
  BY <1>4 DEF Between
<1>12. Flows'
  <2>1. \A i \in Intervals : i \notin ToMark'
    BY <1>4, <1>5, <1>6, Document
  <2>2. \A ev \in scenar.events : ev \notin ToMark'
    BY <1>4, <1>5, <1>6, Document
  <2> QED BY <1>1, <1>3, <1>6, <2>1, <2>2 DEF CutInv, Flows
<1>13. OwnProgram'
  BY <1>1, <1>3, <1>4, <1>9 DEF CutInv, OwnProgram
<1>14. Follows'
  BY <1>1, <1>3, <1>4, <1>9 DEF CutInv, Follows
<1>15. BlockFlows'
  <2>1. \/ start \in scenar.syncs /\ (start \in ToMark' \/ blockOf[start] = maxMark)
        \/ start \in scenar.conditioned /\ blockOf[start] = maxMark
    BY <1>4, <1>6 DEF CutInv, BlockFlows
  <2>2. ASSUME NEW x \in scenar.syncs, x # start, blockOf[x] = maxMark \/ x \in ToMark'
        PROVE  /\ x \notin scenar.active /\ previousIntervals(x) # {}
               /\ \A j \in previousIntervals(x) : blockOf[j] = maxMark
    <3>1. CASE blockOf[x] = maxMark
      BY <1>4, <2>2, <3>1 DEF CutInv, BlockFlows
    <3>2. CASE x = tn /\ same = "Same"
      <4>1. previousIntervals(tn) # {}
        BY <1>4, <1>5 DEF CutInv, BlockFlows
      <4> QED BY <1>2, <3>2, <4>1
    <3> QED BY <1>6, <2>2, <3>1, <3>2
  <2>3. \A x \in Limits' : \E i \in previousIntervals(x) : blockOf[i] = maxMark
    BY <1>4, <1>8 DEF CutInv, BlockFlows
  <2>4. \A x \in scenar.events :
           blockOf[x] = maxMark => x = start \/ blockOf[scenar.syncOf[x]] = maxMark
    BY <1>4 DEF CutInv, BlockFlows
  <2> QED BY <1>1, <1>3, <2>1, <2>2, <2>3, <2>4 DEF BlockFlows
<1>16. StartsOrWaits'
  <2>1. \A x : Starts(x)' <=> Starts(x)
    BY <1>1, <1>3 DEF Starts
  <2> QED BY <1>1, <1>3, <1>4, <1>9, <2>1 DEF CutInv, StartsOrWaits
<1>17. Order'
  BY <1>1, <1>3 DEF Order
<1> QED BY <1>3, <1>10, <1>11, <1>12, <1>13, <1>14, <1>15, <1>16, <1>17 DEF CutInv

\* A block ends: what it has reached waits for one of its own, but for what it
\* started at, to which it has not come back.
LEMMA EndBlockKeeps ==
    ASSUME IInv, CutInv, EndBlock
    PROVE  CutInv'
<1>1. /\ step = "block" /\ calls = << >> /\ step' \in {"nodes", "events"}
      /\ UNCHANGED programVars
      /\ UNCHANGED <<scenar, mark, program, blockOf, start, calls, notSameEvent>>
      /\ startingNodes' = Without(startingNodes \o InOrder(Limits), start)
      /\ startingEvents' = Without(startingEvents \o InOrder(notSameEvent), start)
      /\ notSame' = Limits /\ notSure' = {} /\ maxMark' = maxMark + 1
  BY DEF EndBlock, Iterating, programVars
<1>2. /\ Intervals' = Intervals /\ Elements' = Elements
      /\ \A x : startEvent(x)' = startEvent(x)
      /\ \A x : endTimeSync(x)' = endTimeSync(x)
      /\ \A x : previousIntervals(x)' = previousIntervals(x)
      /\ startingtimeSyncs(program)' = startingtimeSyncs(program)
      /\ startingtimeSyncs(program) \subseteq scenar.syncs
      /\ MarkedTouched' /\ Marked'
  BY <1>1, SameScenario, SameMarks DEF CutInv, Order, startingtimeSyncs
<1>3. scenar \in Scenarios /\ Cutting /\ InBlockNow /\ Cutting' /\ ~InBlockNow'
  BY <1>1 DEF Cutting, InBlockNow, IInv, ProgramTypeOK
<1>4. ToMark = {} /\ ToMark' = {}
  BY <1>1 DEF ToMark
<1>5. /\ maxMark \in Nat /\ maxMark # NoMark
      /\ blockOf \in [Elements -> {NoMark} \cup (0..maxMark)]
  BY DEF CutInv, CutTypes, NoMark
<1>6. Limits \subseteq scenar.syncs /\ notSameEvent \subseteq scenar.conditioned
  BY DEF CutInv, CutTypes, Limits
<1>7. /\ startingNodes' \in Seq(scenar.syncs)
      /\ Listed(startingNodes') = (Listed(startingNodes) \cup Limits) \ {start}
  <2>1. Limits \in SUBSET Nat /\ IsFiniteSet(Limits)
    BY <1>3, <1>6, Document, FS_Subset
  <2>2. InOrder(Limits) \in Seq(Limits) /\ Listed(InOrder(Limits)) = Limits
    BY <2>1, InOrderLists
  <2>3. InOrder(Limits) \in Seq(scenar.syncs) /\ startingNodes \in Seq(scenar.syncs)
    BY <1>6, <2>2 DEF CutInv, CutTypes
  <2>4. /\ startingNodes \o InOrder(Limits) \in Seq(scenar.syncs)
        /\ Listed(startingNodes \o InOrder(Limits)) = Listed(startingNodes) \cup Limits
    BY ONLY <2>2, <2>3, SpliceLists
  <2>5. /\ Without(startingNodes \o InOrder(Limits), start) \in Seq(scenar.syncs)
        /\ Listed(Without(startingNodes \o InOrder(Limits), start))
              = (Listed(startingNodes) \cup Limits) \ {start}
    BY ONLY <2>4, WithoutLists
  <2> QED BY <1>1, <2>5
<1>8. /\ startingEvents' \in Seq(scenar.conditioned)
      /\ Listed(startingEvents') = (Listed(startingEvents) \cup notSameEvent) \ {start}
  <2>1. notSameEvent \in SUBSET Nat /\ IsFiniteSet(notSameEvent)
    <3>1. notSameEvent \subseteq scenar.events
      BY <1>3, <1>6, Document
    <3> QED BY <1>3, <3>1, Document, FS_Subset
  <2>2. InOrder(notSameEvent) \in Seq(notSameEvent)
           /\ Listed(InOrder(notSameEvent)) = notSameEvent
    BY <2>1, InOrderLists
  <2>3. InOrder(notSameEvent) \in Seq(scenar.conditioned)
           /\ startingEvents \in Seq(scenar.conditioned)
    BY <1>6, <2>2 DEF CutInv, CutTypes
  <2>4. /\ startingEvents \o InOrder(notSameEvent) \in Seq(scenar.conditioned)
        /\ Listed(startingEvents \o InOrder(notSameEvent))
              = Listed(startingEvents) \cup notSameEvent
    BY ONLY <2>2, <2>3, SpliceLists
  <2>5. /\ Without(startingEvents \o InOrder(notSameEvent), start) \in Seq(scenar.conditioned)
        /\ Listed(Without(startingEvents \o InOrder(notSameEvent), start))
              = (Listed(startingEvents) \cup notSameEvent) \ {start}
    BY ONLY <2>4, WithoutLists
  <2> QED BY <1>1, <2>5
<1>9. \A x : x \in Waiting' <=> x \in Waiting /\ x # start
  <2>1. Waiting = Listed(startingNodes) \cup Listed(startingEvents) \cup Limits \cup notSameEvent
    BY <1>3, <1>4 DEF Waiting
  <2>2. Waiting' = Listed(startingNodes') \cup Listed(startingEvents')
    BY <1>3, <1>4 DEF Waiting, Listed
  <2> QED BY <1>7, <1>8, <2>1, <2>2
<1>10. /\ blockOf[start] = maxMark
       /\ start \in scenar.syncs \/ (start \in scenar.conditioned /\ start \notin scenar.syncs)
  <2>1. \A x \in scenar.conditioned : x \notin scenar.syncs
    BY <1>3, Document
  <2>2. \/ start \in scenar.syncs /\ (start \in ToMark \/ blockOf[start] = maxMark)
        \/ start \in scenar.conditioned /\ blockOf[start] = maxMark
    BY <1>3 DEF CutInv, BlockFlows
  <2>3. start \notin ToMark
    BY <1>4
  <2> QED BY <2>1, <2>2, <2>3
<1>11. CutTypes'
  <2>1. program' \in Nat /\ maxMark' \in Nat /\ calls' \in Seq(SUBSET Elements)
    BY <1>1, <1>5 DEF CutInv, CutTypes
  <2>2. blockOf' \in [Elements -> {NoMark} \cup (0..(maxMark + 1))]
    BY <1>1, <1>5
  <2>3. notSame' \subseteq scenar.syncs /\ notSure' \subseteq scenar.syncs
           /\ notSameEvent' \subseteq scenar.conditioned
    BY <1>1, <1>6
  <2> QED BY <1>1, <1>2, <1>7, <1>8, <2>1, <2>2, <2>3 DEF CutTypes
<1>12. Between'
  <2>1. \A x \in Elements : blockOf[x] # maxMark + 1
    BY <1>5 DEF NoMark
  <2> QED BY <1>1, <1>2, <2>1 DEF Between
<1>13. Flows'
  BY <1>1, <1>2, <1>4 DEF CutInv, Flows
<1>14. OwnProgram'
  BY <1>1, <1>2, <1>3, <1>9 DEF CutInv, OwnProgram
<1>15. Follows'
  BY <1>1, <1>2, <1>3, <1>5, <1>9, <1>10 DEF CutInv, Follows
<1>16. BlockFlows'
  BY <1>3 DEF BlockFlows
<1>17. StartsOrWaits'
  <2>1. \A x : Starts(x)' <=> Starts(x)
    BY <1>1, <1>2 DEF Starts
  <2>2. start \in scenar.syncs => Starts(start)
    BY <1>3, <1>10, BlockStarts DEF CutInv, Starts
  <2>3. start \notin scenar.syncs => blockOf[scenar.syncOf[start]] # blockOf[start]
    BY <1>3, <1>10, NeverBack DEF CutInv, Origin
  <2>4. ASSUME NEW x \in scenar.syncs, blockOf[x] # NoMark
        PROVE  Starts(x) \/ x \in Waiting'
    BY <1>3, <1>9, <2>2, <2>4 DEF CutInv, StartsOrWaits
  <2>5. ASSUME NEW x \in scenar.conditioned, blockOf[scenar.syncOf[x]] # NoMark
        PROVE  blockOf[x] # blockOf[scenar.syncOf[x]] \/ x \in Waiting'
    <3>1. x \notin scenar.syncs
      BY <1>3, Document
    <3> QED BY <1>3, <1>9, <2>3, <2>5, <3>1 DEF CutInv, StartsOrWaits
  <2> QED BY <1>1, <2>1, <2>4, <2>5 DEF StartsOrWaits
<1>18. Order'
  BY <1>1, <1>2 DEF Order
<1> QED BY <1>2, <1>11, <1>12, <1>13, <1>14, <1>15, <1>16, <1>17, <1>18 DEF CutInv

-----------------------------------------------------------------------------
(* The invariant.                                                          *)

\* To the program visitor, what is done with its programs is a stutter.
LEMMA StepsOfVisitor == [Next]_vars => [ProgramStep]_programVars
BY DEF Next, vars, FindPrograms, NextProgram, NoMoreProgram, computeNode, computeEvent, Compute,
       EndOfList, MarkCall, Pass, StillNotSure, Decided, Visit, EndBlock, Count, Finished,
       programVars

\* Every step keeps the invariant.
LEMMA NextCut == IInv /\ CutInv /\ [Next]_vars => CutInv'
<1> SUFFICES ASSUME IInv, CutInv, [Next]_vars PROVE CutInv'
  OBVIOUS
<1>1. CASE FindPrograms
  BY <1>1, FindProgramsKeeps
<1>2. CASE NextProgram
  BY <1>2, NextProgramKeeps
<1>3. CASE NoMoreProgram \/ Count
  BY <1>3, BetweenProgramsKeeps
<1>4. CASE computeNode
  BY <1>4, computeNodeKeeps
<1>5. CASE computeEvent
  BY <1>5, computeEventKeeps
<1>6. CASE EndOfList
  BY <1>6, EndOfListKeeps
<1>7. CASE MarkCall
  <2>1. InCall
    BY <1>7 DEF MarkCall, InCall
  <2>2. PICK x \in Head(calls) : MarkNode(x) \/ MarkEvent(x) \/ MarkInterval(x)
    BY <1>7 DEF MarkCall
  <2> QED BY <2>1, <2>2, MarkNodeKeeps, MarkEventKeeps, MarkIntervalKeeps
<1>8. CASE Pass \/ \E tn \in notSure : StillNotSure(tn)
  BY <1>8, PassKeeps
<1>9. CASE \E tn \in notSure : Decided(tn)
  BY <1>9, DecidedKeeps
<1>10. CASE EndBlock
  BY <1>10, EndBlockKeeps
<1>11. CASE UNCHANGED vars
  <2>1. UNCHANGED programVars /\ UNCHANGED cutVars /\ step' = step
    BY <1>11 DEF vars, programVars, cutVars, lists, working, results
  <2>2. CutTypes' /\ Between' /\ Flows' /\ BlockFlows' /\ (InBlockNow' <=> InBlockNow)
           /\ (Cutting' <=> Cutting)
    BY <2>1, SameCut DEF InBlockNow, Cutting
  <2>3. OwnProgram' /\ Follows' /\ StartsOrWaits'
    <3>1. CASE Cutting
      BY <2>1, <2>2, <3>1, SameWaits
    <3>2. CASE ~Cutting
      BY <2>2, <3>2 DEF OwnProgram, Follows, StartsOrWaits
    <3> QED BY <3>1, <3>2
  <2>4. MarkedTouched' /\ (Marked' <=> Marked)
    BY <2>1, SameMarks
  <2>5. Order'
    BY <2>1, <2>4 DEF CutInv, Order, cutVars
  <2> QED BY <2>2, <2>3, <2>4, <2>5 DEF CutInv
<1> QED BY <1>1, <1>2, <1>3, <1>4, <1>5, <1>6, <1>7, <1>8, <1>9, <1>10, <1>11 DEF Next, Finished

\* In every state of the two visitors their invariants hold.
THEOREM CutInvariance == Spec => [](IInv /\ CutInv)
<1>1. Init => IInv /\ CutInv
  BY InitInv, InitCut DEF Init
<1>2. IInv /\ CutInv /\ [Next]_vars => IInv' /\ CutInv'
  BY NextInv, NextCut, StepsOfVisitor
<1> QED BY <1>1, <1>2, PTL DEF Spec

-----------------------------------------------------------------------------
(* The properties.                                                         *)

\* An interval is in the block of its start event, and an event without
\* condition in the block of its sync, however often mark() has moved the sync:
\* what a call puts elsewhere it calls for again.
THEOREM BlocksAlwaysFlow == Spec => []BlocksFlow
<1>1. ASSUME IInv, CutInv PROVE BlocksFlow
  <2> SUFFICES ASSUME step = "count" PROVE BlocksFlow
    BY DEF BlocksFlow
  <2>1. ToMark = {}
    BY <1>1 DEF CutInv, Between, InBlockNow, ToMark
  <2> QED BY <1>1, <2>1 DEF CutInv, Flows, BlocksFlow, Mine
<1> QED BY <1>1, CutInvariance, PTL

\* When the blocks are counted nothing waits any more.
LEMMA NothingWaits == ASSUME CutInv, step = "count" PROVE Cutting /\ ToMark = {} /\ Waiting = {}
<1>1. Cutting /\ ~InBlockNow /\ startingNodes = << >> /\ startingEvents = << >> /\ calls = << >>
  BY DEF Cutting, InBlockNow, CutInv, Order, Between
<1> QED BY <1>1 DEF ToMark, Listed, Waiting

\* Everything of the program is then in a block: of the syncs that are not, the
\* first one would start the program, or follow an interval that has a block.
LEMMA AllInBlocks ==
    ASSUME IInv, CutInv, step = "count"
    PROVE  \A x \in Intervals \cup scenar.syncs : blockOf[x] # NoMark <=> mark[x] = program
<1>1. Cutting /\ ToMark = {} /\ Waiting = {} /\ scenar \in Scenarios /\ Marked
  BY NothingWaits DEF IInv, ProgramTypeOK, CutInv, Order
<1>2. ASSUME NEW x \in Intervals \cup scenar.syncs, blockOf[x] # NoMark PROVE mark[x] = program
  BY <1>1, <1>2 DEF CutInv, OwnProgram
<1> DEFINE left == {tn \in scenar.syncs : mark[tn] = program /\ blockOf[tn] = NoMark}
<1>3. ASSUME NEW i \in Intervals, mark[i] = program, startTimeSync(i) \notin left
      PROVE  blockOf[i] # NoMark
  <2>1. startTimeSync(i) = scenar.syncOf[startEvent(i)] /\ startTimeSync(i) \in scenar.syncs
           /\ startEvent(i) \in scenar.events
    BY <1>1, Accessors DEF startTimeSync
  <2>2. blockOf[scenar.syncOf[startEvent(i)]] # NoMark
    BY <1>1, <1>3, <2>1, OneProgram
  <2>3. blockOf[startEvent(i)] # NoMark
    BY <1>1, <2>1, <2>2 DEF CutInv, Flows, Follows
  <2> QED BY <1>1, <2>3 DEF CutInv, Flows
<1>4. left = {}
  <2> SUFFICES ASSUME left # {} PROVE FALSE
    OBVIOUS
  <2>1. left \in SUBSET scenar.syncs
    OBVIOUS
  <2> HIDE DEF left
  <2>2. PICK tn \in left : \A i \in previousIntervals(tn) : startTimeSync(i) \notin left
    BY <1>1, <2>1, FirstOf
  <2>3. tn \in scenar.syncs /\ mark[tn] = program /\ blockOf[tn] = NoMark
    BY DEF left
  <2>4. CASE previousIntervals(tn) = {}
    <3>1. tn \in startingtimeSyncs(program)
      BY <1>1, <2>3, <2>4, Document DEF startingtimeSyncs, Program
    <3> QED BY <1>1, <2>3, <3>1 DEF CutInv, Follows
  <2>5. CASE previousIntervals(tn) # {}
    <3>1. PICK i \in previousIntervals(tn) : TRUE
      BY <2>5
    <3>2. i \in Intervals /\ endTimeSync(i) = tn
      BY <3>1 DEF previousIntervals
    <3>3. mark[i] = program
      BY <1>1, <2>3, <3>2, OneProgram
    <3>4. blockOf[i] # NoMark
      BY <1>3, <2>2, <3>1, <3>2, <3>3
    <3> QED BY <1>1, <2>3, <3>2, <3>4 DEF CutInv, Follows
  <2> QED BY <2>4, <2>5
<1>5. ASSUME NEW x \in Intervals \cup scenar.syncs, mark[x] = program PROVE blockOf[x] # NoMark
  <2>1. CASE x \in scenar.syncs
    BY <1>4, <1>5, <2>1
  <2>2. CASE x \in Intervals
    BY <1>3, <1>4, <1>5, <2>2
  <2> QED BY <2>1, <2>2
<1> QED BY <1>2, <1>5

\* Once a program is cut, its intervals and syncs, and no others, are in a block.
THEOREM BlocksAlwaysCover == Spec => []BlocksCoverProgram
<1>1. IInv /\ CutInv => BlocksCoverProgram
  BY AllInBlocks DEF BlocksCoverProgram
<1> QED BY <1>1, CutInvariance, PTL

\* A trigger, a condition and a sync where blocks meet each start a block, though
\* the intervals before them are moved to other blocks later: a sync one of them
\* leads to is looked at again.
THEOREM BlocksStartAnew == Spec => []NewBlocks
<1>1. ASSUME IInv, CutInv PROVE NewBlocks
  <2> SUFFICES ASSUME step = "count" PROVE NewBlocks
    BY DEF NewBlocks
  <2>1. Cutting /\ Waiting = {} /\ scenar \in Scenarios
    BY <1>1, NothingWaits DEF IInv, ProgramTypeOK
  <2>2. \A x \in scenar.syncs : mark[x] = program => blockOf[x] # NoMark
    BY <1>1, AllInBlocks
  <2>3. \A tn \in Mine(scenar.syncs) : Starts(tn)
    BY <1>1, <2>1, <2>2 DEF CutInv, StartsOrWaits, Mine
  <2>4. ASSUME NEW ev \in Mine(scenar.conditioned)
        PROVE  blockOf[ev] # blockOf[scenar.syncOf[ev]]
    <3>1. ev \in scenar.conditioned /\ ev \in scenar.events /\ ev \in Elements
             /\ mark[ev] = program
      BY <2>1, Document DEF Mine
    <3>2. program # NoMark
      BY <1>1 DEF CutInv, CutTypes, NoMark
    <3>3. PICK i \in Intervals : ev \in Touched(i) /\ mark[i] = program
      BY <1>1, <3>1, <3>2 DEF CutInv, MarkedTouched
    <3>4. ev = startEvent(i) \/ ev = endEvent(i)
      <4>1. ScenarioOK(scenar)
        BY <2>1, ScenariosAssumption
      <4> QED BY <2>1, <3>1, <3>3, <4>1, Accessors DEF Touched, ScenarioOK, Intervals
    <3>5. mark[scenar.syncOf[ev]] = program
      BY <1>1, <3>3, <3>4, OneProgram DEF CutInv, Order, startTimeSync, endTimeSync
    <3>6. blockOf[scenar.syncOf[ev]] # NoMark
      BY <2>1, <2>2, <3>1, <3>5, Document
    <3> QED BY <1>1, <2>1, <3>1, <3>6 DEF CutInv, StartsOrWaits
  <2> QED BY <2>3, <2>4 DEF NewBlocks, Starts
<1> QED BY <1>1, CutInvariance, PTL

-----------------------------------------------------------------------------
(* The counts.                                                             *)

\* The sum of ComputeFactors over the programs is the size of what is in one.
LEMMA SizesAre ==
    ASSUME IInv, NEW S, IsFiniteSet(S), S \subseteq Elements
    PROVE  Sizes(S) = Cardinality({x \in S : mark[x] \in 0..(currentMark - 1)})
<1> DEFINE M == 0..(currentMark - 1)
           A == [m \in M |-> S \cap Program(m)]
           f == [m \in M |-> Cardinality(A[m])]
           Fold(h) == h = [T \in SUBSET M |->
                              IF T = {} THEN 0
                              ELSE Cardinality(S \cap Program(CHOOSE m \in T : TRUE))
                                      + h[T \ {CHOOSE m \in T : TRUE}]]
           h0 == [T \in SUBSET M |-> SumOver(f, T)]
<1>1. IsFiniteSet(M)
  <2>1. 0 \in Int /\ currentMark - 1 \in Int
    BY DEF IInv, ProgramTypeOK
  <2> QED BY <2>1, FS_Interval
<1>2. \A m \in M : IsFiniteSet(A[m]) /\ f[m] = Cardinality(S \cap Program(m)) /\ f[m] \in Nat
  BY FS_Subset, FS_CardinalityType
<1>3. ASSUME NEW T \in SUBSET M, T # {}
      PROVE  SumOver(f, T) = Cardinality(S \cap Program(CHOOSE m \in T : TRUE))
                                + SumOver(f, T \ {CHOOSE m \in T : TRUE})
  <2>1. PICK m : m = CHOOSE x \in T : TRUE
    OBVIOUS
  <2>2. m \in T /\ m \in M
    BY <1>3, <2>1
  <2>3. IsFiniteSet(T) /\ \A x \in T : f[x] \in Nat
    BY <1>1, <1>2, FS_Subset
  <2> HIDE DEF f
  <2>4. SumOver(f, T) = f[m] + SumOver(f, T \ {m})
    BY <2>2, <2>3, SumStep
  <2> QED BY <1>2, <2>1, <2>2, <2>4
<1>4. Fold(h0)
  <2>1. ASSUME NEW T \in SUBSET M
        PROVE  h0[T] = IF T = {} THEN 0
                       ELSE Cardinality(S \cap Program(CHOOSE m \in T : TRUE))
                               + h0[T \ {CHOOSE m \in T : TRUE}]
    <3> HIDE DEF f, M
    <3> QED BY <1>3, SumOfNone
  <2> HIDE DEF M
  <2>2. DOMAIN h0 = SUBSET M /\ h0 = [T \in SUBSET M |-> h0[T]]
    OBVIOUS
  <2> HIDE DEF h0
  <2> QED BY <2>1, <2>2
<1>5. Sizes(S) = (CHOOSE h : Fold(h))[M]
  BY DEF Sizes, MapThenSumSet, MapThenFoldSet
<1>6. Fold(CHOOSE h : Fold(h))
  <2> HIDE DEF Fold, h0
  <2> QED BY <1>4
<1> DEFINE h1 == CHOOSE h : Fold(h)
<1>7. h1 = [T \in SUBSET M |->
               IF T = {} THEN 0
               ELSE Cardinality(S \cap Program(CHOOSE m \in T : TRUE))
                       + h1[T \ {CHOOSE m \in T : TRUE}]]
  BY <1>6
<1> HIDE DEF h1
<1>8. h1[{}] = 0
  BY <1>7
<1>9. ASSUME NEW T \in SUBSET M, T # {} PROVE \E m \in T : h1[T] = f[m] + h1[T \ {m}]
  <2>1. PICK m : m = CHOOSE x \in T : TRUE
    OBVIOUS
  <2>2. m \in T /\ m \in M
    BY <1>9, <2>1
  <2> HIDE DEF M, f
  <2>3. h1[T] = Cardinality(S \cap Program(m)) + h1[T \ {m}]
    BY <1>7, <1>9, <2>1
  <2> QED BY <1>2, <2>2, <2>3
<1>10. Sizes(S) = SumOver(f, M)
  <2>1. h1[M] = SumOver(f, M)
    <3> HIDE DEF M, f
    <3> QED BY <1>1, <1>2, <1>8, <1>9, SumIs
  <2> QED BY <1>5, <2>1 DEF h1
<1>11. SumOver(f, M) = Cardinality({x \in S : mark[x] \in M})
  <2> DEFINE U == {x \in S : mark[x] \in M}
  <2>1. \A m, n \in M : m # n => A[m] \cap A[n] = {}
    BY DEF Program
  <2>2. \A m \in M : f[m] = Cardinality(A[m])
    OBVIOUS
  <2>3. \A m \in M : IsFiniteSet(A[m])
    BY <1>2
  <2>4. \A y : y \in U <=> \E m \in M : y \in A[m]
    BY DEF Program
  <2> HIDE DEF M, f, A, U
  <2>5. SumOver(f, M) = Cardinality(U)
    BY <1>1, <2>1, <2>2, <2>3, <2>4, SumOfParts
  <2> QED BY <2>5 DEF U
<1> QED BY <1>10, <1>11

\* What has a mark once all intervals have one: what some interval touches.
LEMMA MarkedAre ==
    ASSUME IInv, MarkedTouched, Marked
    PROVE  /\ \A i \in Intervals : mark[i] \in 0..(currentMark - 1)
           /\ \A x \in Elements : mark[x] \in 0..(currentMark - 1)
                                     <=> \E i \in Intervals : x \in Touched(i)
<1>1. currentMark \in Nat /\ scenar \in Scenarios /\ \A x \in Elements : mark[x] \in Marks
  BY DEF IInv, ProgramTypeOK
<1>2. ASSUME NEW i \in Intervals PROVE mark[i] \in 0..(currentMark - 1)
  <2>1. mark[i] # NoMark /\ mark[i] # currentMark /\ mark[i] \in Marks
    BY <1>1 DEF Marked, IInv, FreshMark, Elements
  <2> QED BY <1>1, <2>1 DEF Marks
<1>3. ASSUME NEW i \in Intervals, NEW x \in Touched(i) PROVE mark[x] \in 0..(currentMark - 1)
  <2>1. mark[x] = mark[i]
    BY DEF Marked, IInv, MarksAgree
  <2> QED BY <1>2, <2>1
<1>4. ASSUME NEW x \in Elements, mark[x] \in 0..(currentMark - 1)
      PROVE  \E i \in Intervals : x \in Touched(i)
  <2>1. mark[x] # NoMark
    BY <1>4 DEF NoMark
  <2> QED BY <2>1 DEF MarkedTouched
<1> QED BY <1>2, <1>3, <1>4

\* The objects of one kind are finitely many.
LEMMA FiniteKinds ==
    ASSUME IInv
    PROVE  /\ IsFiniteSet(Intervals) /\ IsFiniteSet(scenar.events) /\ IsFiniteSet(scenar.syncs)
           /\ Intervals \subseteq Elements /\ scenar.events \subseteq Elements
           /\ scenar.syncs \subseteq Elements
<1>1. ScenarioOK(scenar)
  BY ScenariosAssumption DEF IInv, ProgramTypeOK
<1> QED BY <1>1 DEF ScenarioOK, Intervals, Elements

\* Every object of a kind is counted if an interval touches it, and once.
LEMMA SizesTouched ==
    ASSUME IInv, MarkedTouched, Marked
    PROVE  /\ Sizes(Intervals) = Cardinality(Intervals)
           /\ Sizes(scenar.events)
                 = Cardinality(UNION {{startEvent(i), endEvent(i)} : i \in Intervals})
           /\ Sizes(scenar.syncs)
                 = Cardinality(UNION {{startTimeSync(i), endTimeSync(i)} : i \in Intervals})
<1> DEFINE InOne(S) == {x \in S : mark[x] \in 0..(currentMark - 1)}
<1>1. scenar \in Scenarios /\ ScenarioOK(scenar)
  BY ScenariosAssumption DEF IInv, ProgramTypeOK
<1>2. InOne(Intervals) = Intervals
  BY MarkedAre
<1>3. InOne(scenar.events) = UNION {{startEvent(i), endEvent(i)} : i \in Intervals}
  <2>1. ASSUME NEW ev \in scenar.events, NEW i \in Intervals
        PROVE  ev \in Touched(i) <=> ev \in {startEvent(i), endEvent(i)}
    BY <1>1, Accessors DEF Touched, ScenarioOK, Intervals
  <2>2. \A i \in Intervals : startEvent(i) \in scenar.events /\ endEvent(i) \in scenar.events
    BY <1>1, Accessors
  <2>3. \A ev \in scenar.events :
            mark[ev] \in 0..(currentMark - 1) <=> \E i \in Intervals : ev \in Touched(i)
    BY MarkedAre, FiniteKinds
  <2> QED BY <2>1, <2>2, <2>3
<1>4. InOne(scenar.syncs) = UNION {{startTimeSync(i), endTimeSync(i)} : i \in Intervals}
  <2>1. ASSUME NEW tn \in scenar.syncs, NEW i \in Intervals
        PROVE  tn \in Touched(i) <=> tn \in {startTimeSync(i), endTimeSync(i)}
    BY <1>1, Accessors DEF Touched, ScenarioOK, Intervals
  <2>2. \A i \in Intervals :
            startTimeSync(i) \in scenar.syncs /\ endTimeSync(i) \in scenar.syncs
    BY <1>1, Accessors
  <2>3. \A tn \in scenar.syncs :
            mark[tn] \in 0..(currentMark - 1) <=> \E i \in Intervals : tn \in Touched(i)
    BY MarkedAre, FiniteKinds
  <2> QED BY <2>1, <2>2, <2>3
<1>5. /\ Sizes(Intervals) = Cardinality(InOne(Intervals))
      /\ Sizes(scenar.events) = Cardinality(InOne(scenar.events))
      /\ Sizes(scenar.syncs) = Cardinality(InOne(scenar.syncs))
  BY FiniteKinds, SizesAre
<1> HIDE DEF InOne
<1> QED BY <1>2, <1>3, <1>4, <1>5

\* Every program has an interval, and so has the one under way.
NoneEmpty ==
    /\ \A m \in 0..(currentMark - 1) : \E i \in Intervals : mark[i] = m
    /\ stack # << >> => \E i \in Intervals : mark[i] = currentMark

LEMMA NoneEmptyNext == IInv /\ NoneEmpty /\ [ProgramStep]_programVars => NoneEmpty'
<1> SUFFICES ASSUME IInv, NoneEmpty, [ProgramStep]_programVars PROVE NoneEmpty'
  OBVIOUS
<1>1. currentMark \in Nat
  BY DEF IInv, ProgramTypeOK
<1>2. ASSUME NEW i \in Intervals, mark[i] = NoMark, Mark(i), UNCHANGED <<scenar, currentMark>>
      PROVE  NoneEmpty'
  <2>1. /\ \A j \in Intervals : mark'[j] = IF j = i THEN currentMark ELSE mark[j]
        /\ Intervals' = Intervals /\ currentMark' = currentMark
    BY <1>2, MarkKeeps, SameDocument
  <2>2. mark'[i] = currentMark
    BY <2>1
  <2>3. ASSUME NEW m \in 0..(currentMark - 1) PROVE \E j \in Intervals : mark'[j] = m
    <3>1. PICK j \in Intervals : mark[j] = m
      BY DEF NoneEmpty
    <3>2. j # i
      BY <1>2, <3>1 DEF NoMark
    <3> QED BY <2>1, <3>1, <3>2
  <2> QED BY <2>1, <2>2, <2>3 DEF NoneEmpty
<1>3. CASE \E i \in Intervals : MarkFirst(i)
  BY <1>2, <1>3 DEF MarkFirst
<1>4. CASE \E i \in Intervals, k \in 1..4 : MarkNext(k, i)
  BY <1>2, <1>4 DEF MarkNext
<1>5. CASE \E i \in Intervals, k \in 1..4 : MarkAgain(k, i)
  BY <1>5, SameDocument DEF MarkAgain, NoneEmpty
<1>6. CASE Return
  <2>1. mark' = mark /\ scenar' = scenar /\ Intervals' = Intervals /\ stack # << >>
    BY <1>6, SameDocument DEF Return
  <2>2. CASE Len(stack) = 1
    <3>1. currentMark' = currentMark + 1 /\ stack' = << >>
      <4>1. stack \in Seq(Frames)
        BY DEF IInv, ProgramTypeOK, Frames
      <4>2. Len(stack') = 0 /\ stack' \in Seq(Frames)
        BY <1>6, <2>1, <2>2, <4>1 DEF Return
      <4> QED BY <1>6, <2>2, <4>2 DEF Return
    <3> QED BY <1>1, <2>1, <3>1 DEF NoneEmpty
  <2>3. CASE Len(stack) # 1
    <3>1. currentMark' = currentMark
      BY <1>6, <2>3 DEF Return
    <3> QED BY <2>1, <3>1 DEF NoneEmpty
  <2> QED BY <2>2, <2>3
<1>7. CASE UNCHANGED programVars
  BY <1>7, SameDocument DEF programVars, NoneEmpty
<1> QED BY <1>3, <1>4, <1>5, <1>6, <1>7 DEF ProgramStep

\* The connected parts of the scenario are its programs, one for each mark.
LEMMA PartsAreMarks ==
    ASSUME IInv, NoneEmpty, MarkedTouched, Marked
    PROVE  Cardinality(Parts) = currentMark
<1> DEFINE M == 0..(currentMark - 1)
           P == [m \in M |-> {i \in Intervals : mark[i] = m}]
<1>1. currentMark \in Nat /\ \A i \in Intervals : mark[i] \in M
  BY MarkedAre DEF IInv, ProgramTypeOK
<1>2. ASSUME NEW m \in M
      PROVE  P[m] # {} /\ P[m] \in SUBSET Intervals /\ Closed(P[m])
  <2>1. P[m] # {} /\ P[m] \in SUBSET Intervals
    BY DEF NoneEmpty
  <2>2. ASSUME NEW i \in Intervals, NEW j \in Intervals, i \in P[m], Meets(i, j)
        PROVE  j \in P[m]
    BY <2>2 DEF IInv, EarlierAlone
  <2> HIDE DEF P
  <2> QED BY <2>1, <2>2 DEF Closed
<1>3. ASSUME NEW S \in SUBSET Intervals, Closed(S), NEW m \in M, NEW i \in S, i \in P[m]
      PROVE  P[m] \subseteq S
  BY <1>3 DEF IInv, ProgramsConnected, NoMark
<1>4. ASSUME NEW m \in M PROVE P[m] \in Parts
  <2>1. ASSUME NEW T \in SUBSET P[m], T # {}, Closed(T) PROVE T = P[m]
    <3>1. PICK i \in T : TRUE
      BY <2>1
    <3>2. T \in SUBSET Intervals /\ i \in P[m]
      BY <1>2
    <3> HIDE DEF P
    <3> QED BY <1>3, <2>1, <3>1, <3>2
  <2> HIDE DEF P
  <2> QED BY <1>2, <2>1 DEF Parts
<1>5. ASSUME NEW S \in Parts PROVE \E m \in M : P[m] = S
  <2>1. S \in SUBSET Intervals /\ S # {} /\ Closed(S)
           /\ \A T \in SUBSET S : T # {} /\ Closed(T) => T = S
    BY DEF Parts
  <2>2. PICK i \in S : TRUE
    BY <2>1
  <2>3. PICK m \in M : m = mark[i] /\ i \in P[m]
    BY <1>1, <2>1
  <2>4. P[m] \subseteq S
    BY <1>3, <2>1, <2>3
  <2> HIDE DEF P
  <2> QED BY <1>2, <2>1, <2>4
<1>6. ASSUME NEW m \in M, NEW n \in M, P[m] = P[n] PROVE m = n
  <2>1. PICK i : i \in P[m]
    BY <1>2
  <2> QED BY <1>6, <2>1
<1>7. IsFiniteSet(M) /\ Cardinality(M) = currentMark
  <2>1. 0 \in Int /\ currentMark - 1 \in Int
    BY <1>1
  <2> QED BY <1>1, <2>1, FS_Interval
<1>8. P \in Bijection(M, Parts)
  <2>1. P \in [M -> Parts]
    <3>1. P = [m \in M |-> P[m]]
      OBVIOUS
    <3> HIDE DEF P, M
    <3> QED BY <1>4, <3>1
  <2> HIDE DEF P, M
  <2> QED BY <1>5, <1>6, <2>1 DEF Bijection, Injection, Surjection, IsInjective
<1> HIDE DEF P, M
<1>9. ExistsBijection(M, Parts)
  BY <1>8 DEF ExistsBijection
<1> QED BY <1>7, <1>9, FS_Bijection

\* The programs that are cut, and the blocks counted for them.
Counting ==
    /\ factors.N \in Nat /\ factors.N >= program /\ program <= currentMark
    /\ step = "programs" => program = 0
    /\ Cutting => program < currentMark
    /\ step = "done" => program = currentMark

\* A program that is cut has an interval, and so a block.
LEMMA OneBlock ==
    ASSUME IInv, CutInv, NoneEmpty, step = "count", program < currentMark
    PROVE  maxMark >= 1
<1>1. program \in Nat /\ maxMark \in Nat /\ currentMark \in Nat
         /\ blockOf \in [Elements -> {NoMark} \cup (0..maxMark)]
  BY DEF CutInv, CutTypes, IInv, ProgramTypeOK
<1>2. PICK i \in Intervals : mark[i] = program
  BY <1>1 DEF NoneEmpty
<1>3. blockOf[i] # NoMark /\ i \in Elements
  BY <1>2, AllInBlocks DEF Elements, Intervals
<1>4. blockOf[i] # maxMark
  BY <1>3 DEF CutInv, Between, InBlockNow
<1> QED BY <1>1, <1>3, <1>4

LEMMA CountingNext ==
    IInv /\ CutInv /\ NoneEmpty /\ Counting /\ [Next]_vars => Counting'
<1> SUFFICES ASSUME IInv, CutInv, NoneEmpty, Counting, [Next]_vars PROVE Counting'
  OBVIOUS
<1>1. program \in Nat /\ maxMark \in Nat /\ currentMark \in Nat
  BY DEF CutInv, CutTypes, IInv, ProgramTypeOK
<1>2. CASE FindPrograms
  <2>1. step = "programs" /\ step' \in {"programs", "next"} /\ program' = program
           /\ factors' = factors
    BY <1>2 DEF FindPrograms
  <2>2. currentMark' \in Nat
    BY NextInv, StepsOfVisitor DEF IInv, ProgramTypeOK
  <2> QED BY <2>1, <2>2 DEF Counting, Cutting
<1>3. CASE NextProgram
  BY <1>3 DEF NextProgram, Counting, Cutting, programVars
<1>4. CASE NoMoreProgram
  BY <1>4 DEF NoMoreProgram, Counting, Cutting, programVars
<1>5. CASE Count
  <2>1. step = "count" /\ Cutting /\ program < currentMark
    BY <1>5 DEF Count, Counting, Cutting
  <2>2. maxMark >= 1
    BY <2>1, OneBlock
  <2>3. step' = "next" /\ program' = program + 1 /\ currentMark' = currentMark
           /\ factors'.N = factors.N + maxMark
    BY <1>5 DEF Count, programVars
  <2> QED BY <1>1, <2>1, <2>2, <2>3 DEF Counting, Cutting
<1>6. CASE \/ computeNode \/ computeEvent \/ EndOfList \/ MarkCall \/ Pass
           \/ (\E tn \in notSure : StillNotSure(tn) \/ Decided(tn)) \/ EndBlock
           \/ UNCHANGED vars
  <2>1. program' = program /\ factors' = factors /\ currentMark' = currentMark
    BY <1>6 DEF computeNode, computeEvent, Compute, EndOfList, MarkCall, Pass, StillNotSure,
                Decided, Visit, EndBlock, vars, programVars
  <2>2. step' = step \/ (Cutting /\ Cutting' /\ step' # "programs" /\ step' # "done")
    BY <1>6 DEF computeNode, computeEvent, Compute, EndOfList, MarkCall, Pass, StillNotSure,
                Decided, Visit, Iterating, EndBlock, vars, Cutting
  <2> QED BY <2>1, <2>2 DEF Counting, Cutting
<1> QED BY <1>2, <1>3, <1>4, <1>5, <1>6 DEF Next, Finished

\* ComputeFactors counts what there is, and ComputeFactors2 no fewer parts: every
\* interval has a mark in the end, no mark is left out, and the intervals of one
\* mark are a connected part of the scenario.
THEOREM PartsAreCounted == Spec => []CountsParts
<1>1. Init => NoneEmpty /\ Counting
  <2> SUFFICES ASSUME Init PROVE NoneEmpty /\ Counting
    OBVIOUS
  <2>1. stack = << >> /\ currentMark = 0 /\ step = "programs" /\ program = 0
           /\ factors = [E |-> 0, N |-> 0]
    BY DEF Init, ProgramInit
  <2> QED BY <2>1 DEF NoneEmpty, Counting, Cutting
<1>2. IInv /\ CutInv /\ NoneEmpty /\ Counting /\ [Next]_vars => NoneEmpty' /\ Counting'
  BY NoneEmptyNext, CountingNext, StepsOfVisitor
<1>3. ASSUME IInv, CutInv, NoneEmpty, Counting PROVE CountsParts
  <2> SUFFICES ASSUME step = "done" PROVE CountsParts
    BY DEF CountsParts
  <2>1. Marked /\ MarkedTouched
    BY <1>3 DEF CutInv, Order
  <2>2. /\ Sizes(Intervals) = Cardinality(Intervals)
        /\ Sizes(scenar.events)
              = Cardinality(UNION {{startEvent(i), endEvent(i)} : i \in Intervals})
        /\ Sizes(scenar.syncs)
              = Cardinality(UNION {{startTimeSync(i), endTimeSync(i)} : i \in Intervals})
    BY <1>3, <2>1, SizesTouched
  <2>3. Cardinality(Parts) = currentMark
    BY <1>3, <2>1, PartsAreMarks
  <2>4. factors.N >= currentMark
    BY <1>3 DEF Counting
  <2> QED BY <2>2, <2>3, <2>4 DEF CountsParts, ComputeFactors, Vertices
<1> QED BY <1>1, <1>2, <1>3, CutInvariance, PTL DEF Spec
=============================================================================
