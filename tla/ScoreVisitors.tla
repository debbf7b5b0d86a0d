---------------------------- MODULE ScoreVisitors ----------------------------
(***************************************************************************)
(* The visitors that go through a score once and write or count something  *)
(* for each object: LanguageVisitor and HalsteadVisitor ("metrics"),       *)
(* MLVisitor ("ml"), CPPVisitor ("cpp") and GlobalStatistics               *)
(* ("statistics").                                                         *)
(*                                                                         *)
(* All of them go through the containers of a scenario one after the       *)
(* other, and, but for CPPVisitor, enter the scenarios an interval holds   *)
(* before they go on.  A visitor that is at work on a scenario is a frame  *)
(* of the stack.  Text is the bag of its words: layout is left out, and    *)
(* containers are gone through in any order.                               *)
(***************************************************************************)
EXTENDS Integers, Sequences, FiniteSets, SequencesExt, DeviceStatistics

CONSTANT Scores    \* the documents

\* An object is <<kind, scenario, id>>, as an id is that of one object of its
\* kind in its scenario only.  A process is a number.
Base == <<"base", 0, 0>>

OfKind(s, kind, scenar) == {x \in s.objects : x[1] = kind /\ x[2] = scenar}

ScoreOK(s) ==
    LET all(kind) == {x \in s.objects : x[1] = kind}
    IN  /\ \A x \in s.objects :
              /\ x = <<x[1], x[2], x[3]>>
              /\ x[1] \in {"interval", "event", "timeSync", "state"}
              /\ x[2] \in DOMAIN s.holder /\ s.kind[x[2]] = "scenario"
        /\ IsFiniteSet(s.objects) /\ IsFiniteSet(DOMAIN s.kind)
        /\ s.holder \in [DOMAIN s.kind -> all("interval") \cup {Base}]
        \* no scenario is held by an interval of its own, or of one within it
        /\ \A S \in SUBSET {p \in DOMAIN s.kind : s.kind[p] = "scenario"} :
              S # {} => \E p \in S : s.holder[p] = Base \/ s.holder[p][2] \notin S
        /\ s.startState \in [all("interval") -> all("state")]
        /\ s.endState \in [all("interval") -> all("state")]
        /\ s.eventOf \in [all("state") -> all("event")]
        /\ s.syncOf \in [all("event") -> all("timeSync")]
        \* those whose condition, or whose expression, has a child
        /\ s.conditioned \subseteq all("event") /\ s.triggered \subseteq all("timeSync")
        \* the intervals whose duration is fixed
        /\ s.rigid \subseteq all("interval")
        \* an object refers to objects of its scenario
        /\ \A f \in {s.startState, s.endState, s.eventOf, s.syncOf} :
              \A x \in DOMAIN f : f[x][2] = x[2]
        /\ s.start \in [{p \in DOMAIN s.kind : s.kind[p] = "scenario"} -> all("event")]
        /\ s.first \in DOMAIN s.kind /\ s.holder[s.first] = Base
        /\ s.kind[s.first] = "scenario"
        /\ \A d \in s.devices : DeviceOK(d)

ASSUME ScoresAssumption == \A s \in Scores : ScoreOK(s)

VARIABLES
    score,      \* the document
    visitor,    \* the visitor at work
    roots,      \* the scenarios of the base interval it is still to enter
    stack,      \* the scenarios being visited, the innermost last
    words,      \* LanguageVisitor::text, a bag
    factors,    \* ScenarioFactors f, of every scenario being visited
    ids,        \* the maps itv_ids, ev_ids, trig_ids; the names C++ has declared
    unknown,    \* what was looked up there in vain
    stats       \* GlobalStatistics

vars == <<score, visitor, roots, stack, words, factors, ids, unknown, stats>>

-----------------------------------------------------------------------------
(* Accessors of the score library.                                         *)

scenariosOf(c) == {p \in DOMAIN score.kind : score.kind[p] = "scenario" /\ score.holder[p] = c}
parentEvent(st) == score.eventOf[st]
startEvent(c) == parentEvent(score.startState[c])
endEvent(c)   == parentEvent(score.endState[c])
parentTimeSync(ev) == score.syncOf[ev]
events(tn) == {ev \in DOMAIN score.syncOf : score.syncOf[ev] = tn}
previousIntervals(ev) == {c \in DOMAIN score.endState : endEvent(c) = ev}
nextIntervals(ev)     == {c \in DOMAIN score.startState : startEvent(c) = ev}
hasPrevious(st)      == \E c \in DOMAIN score.endState : score.endState[c] = st
previousInterval(st) == CHOOSE c \in DOMAIN score.endState : score.endState[c] = st

-----------------------------------------------------------------------------
(* The walk.                                                               *)

\* Faulty: time syncs before the intervals.
ContainersTurned(v) ==
    CASE v = "metrics"    -> <<"interval", "event", "timeSync", "state">>
      [] v = "ml"         -> <<"timeSync", "interval">>
      [] v = "cpp"        -> <<"timeSync", "interval", "event">>
      [] v = "statistics" -> <<"interval">>

\* The containers a visitor goes through.
Containers(v) ==
    CASE v = "metrics"    -> <<"interval", "event", "timeSync", "state">>
      [] v = "ml"         -> <<"interval", "timeSync">>
      [] v = "cpp"        -> <<"timeSync", "event", "interval">>
      [] v = "statistics" -> <<"interval">>

\* At work on scenario p: the container, what is left of it, the interval whose
\* processes are being visited, if any, and the scenarios left among these.
Frame(p) == [scenar |-> p, loop |-> 1, left |-> OfKind(score, Containers(visitor)[1], p),
             at |-> Base, held |-> {}]

top == stack[Len(stack)]
Working == stack # <<>>
ReplaceTop(frame) == stack' = [stack EXCEPT ![Len(stack)] = frame]

Visit(x) ==
    /\ Working /\ top.at = Base /\ x \in top.left
    /\ ReplaceTop([top EXCEPT
           !.left = @ \ {x},
           !.at = IF x[1] = "interval" /\ visitor # "cpp" THEN x ELSE Base,
           !.held = IF x[1] = "interval" /\ visitor # "cpp" THEN scenariosOf(x) ELSE {}])
    /\ UNCHANGED roots

\* A scenario of the base interval, or of the interval being visited.
Enter(p) ==
    \/ /\ ~Working /\ p \in roots
       /\ stack' = <<Frame(p)>> /\ roots' = roots \ {p}
    \/ /\ Working /\ p \in top.held
       /\ stack' = Append([stack EXCEPT ![Len(stack)].held = @ \ {p}], Frame(p))
       /\ UNCHANGED roots

LeaveInterval ==
    /\ Working /\ top.at # Base /\ top.held = {}
    /\ ReplaceTop([top EXCEPT !.at = Base])
    /\ UNCHANGED roots

LoopOver == Working /\ top.at = Base /\ top.left = {}

NextContainer ==
    /\ LoopOver /\ top.loop < Len(Containers(visitor))
    /\ ReplaceTop([top EXCEPT
           !.loop = @ + 1, !.left = OfKind(score, Containers(visitor)[top.loop + 1], top.scenar)])
    /\ UNCHANGED <<score, visitor, roots, words, factors, ids, unknown, stats>>

LeaveScenario ==
    /\ LoopOver /\ top.loop = Len(Containers(visitor))
    /\ stack' = Front(stack)
    /\ UNCHANGED roots

-----------------------------------------------------------------------------
(* LanguageVisitor: the words it adds for an object.                       *)

Name(x) == <<x[1], x[3]>>
ProcessName(p) == <<"Scenario", score.id[p]>>

Expression(x, exists) ==
    IF exists THEN << <<"expression">>, <<"text">>, <<"of">>, Name(x)>> ELSE <<>>

\* duration(c): a time, or "[min; max]", two times within one operator.
Duration(c) == IF c \in score.rigid THEN << <<"time">> >> ELSE << <<"[;]">>, <<"time">>, <<"time">> >>

Line(x) ==
    CASE x[1] = "interval" ->
            << <<"interval">>, Name(x), <<"after">>, Name(score.startState[x]), <<"duration">> >>
                \o Duration(x) \o << <<"of">>, Name(x)>>
      [] x[1] = "event" ->
            << <<"event">>, Name(x), <<"of">>, Name(parentTimeSync(x))>>
                \o Expression(x, x \in score.conditioned)
      [] x[1] = "timeSync" ->
            << <<"timeSync">>, Name(x)>> \o Expression(x, x \in score.triggered)
      [] x[1] = "state" ->
            (IF hasPrevious(x)
             THEN << <<"state">>, Name(x), <<"after">>, Name(previousInterval(x))>> ELSE <<>>)
                \o << <<"state">>, Name(x), <<"of">>, Name(parentEvent(x))>>

-----------------------------------------------------------------------------
(* HalsteadVisitor.  duration(c), which would count the operands that are  *)
(* times, has no caller: there are none.  Nothing counts the brackets of   *)
(* LanguageVisitor::duration.                                              *)

\* The operators it has a counter for.
operators_t == {"interval", "event", "timeSync", "state", "scenario", "after", "of",
                "duration", "expression", "{", "}"}

NoFactors == [operators |-> EmptyBag, variables |-> EmptyBag,
              subprocesses_variables |-> <<>>, expressions |-> 0]

\* The increments of visit(x).
Counts(x) ==
    CASE x[1] = "interval" ->
            [operators |-> <<"interval", "after", "duration", "of">>,
             variables |-> <<x, score.startState[x], x>>, expressions |-> 0]
      [] x[1] = "event" /\ x \in score.conditioned ->
            [operators |-> <<"event", "of", "expression", "of">>,
             variables |-> <<x, parentTimeSync(x), x>>, expressions |-> 1]
      [] x[1] = "event" /\ x \notin score.conditioned ->
            [operators |-> <<"event", "of">>,
             variables |-> <<x, parentTimeSync(x)>>, expressions |-> 0]
      [] x[1] = "timeSync" /\ x \in score.triggered ->
            [operators |-> <<"timeSync", "expression", "of">>,
             variables |-> <<x, x>>, expressions |-> 1]
      [] x[1] = "timeSync" /\ x \notin score.triggered ->
            [operators |-> <<"timeSync">>, variables |-> <<x>>, expressions |-> 0]
      [] x[1] = "state" /\ hasPrevious(x) ->
            [operators |-> <<"state", "after", "state", "of">>,
             variables |-> <<x, previousInterval(x), x, parentEvent(x)>>,
             expressions |-> 0]
      [] OTHER ->
            [operators |-> <<"state", "of">>, variables |-> <<x, parentEvent(x)>>,
             expressions |-> 0]

Counted(f, operators, names, expressions) ==
    [f EXCEPT !.operators = @ (+) ToBag(operators),
              !.variables = @ (+) ToBag(names),
              !.expressions = @ + expressions]

\* Faulty: the names of the scenario within are taken for names of this one;
\* or its operators are lost.
PlusMixed(f, other) ==
    [operators |-> f.operators (+) other.operators,
     variables |-> f.variables (+) other.variables,
     subprocesses_variables |-> f.subprocesses_variables \o other.subprocesses_variables,
     expressions |-> f.expressions + other.expressions]
PlusForgets(f, other) ==
    [operators |-> f.operators,
     variables |-> f.variables,
     subprocesses_variables |-> Append(f.subprocesses_variables, other.variables),
     expressions |-> f.expressions + other.expressions]

\* operator+=
Plus(f, other) ==
    [operators |-> f.operators (+) other.operators,
     variables |-> f.variables,
     subprocesses_variables |-> Append(f.subprocesses_variables, other.variables)
                                    \o other.subprocesses_variables,
     expressions |-> f.expressions + other.expressions]

MetricsVisit(x) ==
    /\ visitor = "metrics" /\ Visit(x)
    /\ words' = words (+) ToBag(Line(x))
    /\ LET n == Counts(x)
       IN  factors' = [factors EXCEPT ![Len(factors)] =
               Counted(@, n.operators, [k \in DOMAIN n.variables |-> Name(n.variables[k])],
                       n.expressions)]
    /\ UNCHANGED <<score, visitor, ids, unknown, stats>>

MetricsEnter(p) ==
    /\ visitor = "metrics" /\ Enter(p)
    /\ LET named == IF Working THEN << <<"scenario">>, ProcessName(p)>> ELSE <<>>
       IN  words' = words (+) ToBag(Append(named, <<"{">>))
    /\ LET outer == IF Working
                    THEN [factors EXCEPT ![Len(factors)] =
                             Counted(@, <<"scenario">>, <<ProcessName(p)>>, 0)]
                    ELSE <<>>
       IN  factors' = Append(outer, Counted(NoFactors, <<"{">>, <<>>, 0))
    /\ UNCHANGED <<score, visitor, ids, unknown, stats>>

\* The scenario is over, and the interval that holds it, if any, is named.
MetricsLeave ==
    /\ visitor = "metrics" /\ LeaveScenario
    /\ LET nested == Len(stack) > 1
           holder == score.holder[top.scenar]
           done   == Counted(Last(factors), <<"}">>, <<>>, 0)
           outer  == factors[Len(factors) - 1]
       IN  /\ words' = words (+) ToBag(
                  << <<"}">> >> \o (IF nested THEN << <<"of">>, Name(holder)>> ELSE <<>>))
           /\ factors' = IF nested
                 THEN Append(SubSeq(factors, 1, Len(factors) - 2),
                             Counted(Plus(outer, done), <<"of">>, <<Name(holder)>>, 0))
                 ELSE <<done>>
    /\ UNCHANGED <<score, visitor, ids, unknown, stats>>

MetricsLeaveInterval ==
    /\ visitor = "metrics" /\ LeaveInterval
    /\ UNCHANGED <<score, visitor, words, factors, ids, unknown, stats>>

\* sum_unique, of what is counted more than never, and sum_all.
eta1(f) == Cardinality(DOMAIN f.operators)
eta2(f) ==
    FoldLeft(LAMBDA n, variables : n + Cardinality(DOMAIN variables),
             Cardinality(DOMAIN f.variables) + (IF f.expressions > 0 THEN 1 ELSE 0),
             f.subprocesses_variables)
N1(f) == BagCardinality(f.operators)
N2(f) ==
    FoldLeft(LAMBDA n, variables : n + BagCardinality(variables),
             BagCardinality(f.variables) + f.expressions, f.subprocesses_variables)

-----------------------------------------------------------------------------
(* MLVisitor and CPPVisitor.  An interval, sync or event gets a number, or *)
(* is declared, when it is visited; ids is the set of those that were.     *)

MLNames(x) == IF x[1] = "timeSync" THEN {x} \cup events(x) ELSE {x}

\* itv_ids.at, for the two lists of each event.
MLLooksUp(x) ==
    IF x[1] = "timeSync"
    THEN UNION {previousIntervals(ev) \cup nextIntervals(ev) : ev \in events(x)} ELSE {}

MLVisit(x) ==
    /\ visitor = "ml" /\ Visit(x)
    /\ ids' = ids \cup MLNames(x)
    /\ unknown' = unknown \cup (MLLooksUp(x) \ ids)
    /\ UNCHANGED <<score, visitor, words, factors, stats>>

\* The C++ variables that the lines for x use; the start event is taken from
\* the scenario.
CPPLooksUp(x) ==
    CASE x[1] = "timeSync" -> {}
      [] x[1] = "event"    -> IF x = score.start[x[2]] THEN {} ELSE {parentTimeSync(x)}
      [] x[1] = "interval" -> {startEvent(x), endEvent(x)}

CPPVisit(x) ==
    /\ visitor = "cpp" /\ Visit(x)
    /\ ids' = ids \cup {x}
    /\ unknown' = unknown \cup (CPPLooksUp(x) \ ids)
    /\ UNCHANGED <<score, visitor, words, factors, stats>>

ExportWalks ==
    /\ visitor \in {"ml", "cpp"}
    /\ LeaveInterval \/ LeaveScenario \/ \E p \in DOMAIN score.kind : Enter(p)
    /\ UNCHANGED <<score, visitor, words, factors, ids, unknown, stats>>

-----------------------------------------------------------------------------
(* GlobalStatistics, and the ScenarioStatistics it adds up.                *)

\* What a scenario is said to contain.
ScenarioStatistics(p) ==
    LET itvs  == OfKind(score, "interval", p)
        procs == {q \in DOMAIN score.kind : score.holder[q] \in itvs}
    IN  [intervals |-> Cardinality(itvs),
         empty_intervals |->
             Cardinality({c \in itvs : \A q \in procs : score.holder[q] # c}),
         events |-> Cardinality(OfKind(score, "event", p)),
         nodes |-> Cardinality(OfKind(score, "timeSync", p)),
         states |-> Cardinality(OfKind(score, "state", p)),
         conditions |-> Cardinality(OfKind(score, "event", p) \cap score.conditioned),
         triggers |-> Cardinality(OfKind(score, "timeSync", p) \cap score.triggered),
         processes |-> Cardinality(procs)]

Kinds(procs) == ToBag([k \in 1..Cardinality(procs) |-> score.kind[SetToSeq(procs)[k]]])
KindsWithin(p) ==
    Kinds({q \in DOMAIN score.kind : score.holder[q] \in OfKind(score, "interval", p)})

NoStatistics ==
    [sums |-> [k \in {"intervals", "empty_intervals", "events", "nodes", "states",
                      "conditions", "triggers", "processes"} |-> 0],
     kinds |-> EmptyBag, curDepth |-> 0, maxDepth |-> 0]

StatisticsEnter(p) ==
    /\ visitor = "statistics" /\ Enter(p)
    /\ stats' = [stats EXCEPT
           !.sums = [k \in DOMAIN @ |-> @[k] + ScenarioStatistics(p)[k]],
           !.kinds = @ (+) KindsWithin(p)]
    /\ UNCHANGED <<score, visitor, words, factors, ids, unknown>>

StatisticsVisit(x) ==
    /\ visitor = "statistics" /\ Visit(x)
    /\ stats' = [stats EXCEPT !.curDepth = @ + 1,
                   !.maxDepth = IF stats.curDepth + 1 > @ THEN stats.curDepth + 1 ELSE @]
    /\ UNCHANGED <<score, visitor, words, factors, ids, unknown>>

\* Faulty: the depth is never decreased.
StatisticsStayDeep ==
    /\ visitor = "statistics" /\ LeaveInterval
    /\ UNCHANGED <<score, visitor, words, factors, ids, unknown, stats>>

StatisticsLeaveInterval ==
    /\ visitor = "statistics" /\ LeaveInterval
    /\ stats' = [stats EXCEPT !.curDepth = @ - 1]
    /\ UNCHANGED <<score, visitor, words, factors, ids, unknown>>

StatisticsLeave ==
    /\ visitor = "statistics" /\ LeaveScenario
    /\ UNCHANGED <<score, visitor, words, factors, ids, unknown, stats>>

-----------------------------------------------------------------------------
Visitors == {"metrics", "ml", "cpp", "statistics"}

\* Statistics are about the base interval; the others about its first process.
Init ==
    /\ score \in Scores /\ visitor \in Visitors
    /\ roots = IF visitor = "statistics" THEN scenariosOf(Base) ELSE {score.first}
    /\ stack = <<>> /\ words = EmptyBag /\ factors = <<>>
    /\ ids = {} /\ unknown = {}
    /\ stats = [NoStatistics EXCEPT
           !.kinds = Kinds({q \in DOMAIN score.kind : score.holder[q] = Base})]

Done == roots = {} /\ ~Working

Next ==
    \/ \E x \in score.objects :
          MetricsVisit(x) \/ MLVisit(x) \/ CPPVisit(x) \/ StatisticsVisit(x)
    \/ \E p \in DOMAIN score.kind : MetricsEnter(p) \/ StatisticsEnter(p)
    \/ NextContainer
    \/ MetricsLeaveInterval \/ MetricsLeave
    \/ StatisticsLeaveInterval \/ StatisticsLeave
    \/ ExportWalks
    \/ Done /\ UNCHANGED vars

Spec == Init /\ [][Next]_vars

-----------------------------------------------------------------------------
\* How many intervals hold an interval, itself included.
Depth[c \in {x \in score.objects : x[1] = "interval"} \cup {Base}] ==
    IF c = Base THEN 0 ELSE 1 + Depth[score.holder[c[2]]]

\* The scenarios within the first process, the one that is measured: those of any
\* set that has this one and all that is held by the intervals of its scenarios.
HoldsAll(S) ==
    /\ score.first \in S
    /\ \A p \in DOMAIN score.kind : score.holder[p] # Base /\ score.holder[p][2] \in S => p \in S
Reached(p) == \A S \in SUBSET DOMAIN score.kind : HoldsAll(S) => p \in S

-----------------------------------------------------------------------------
\* An operator that HalsteadVisitor has a counter for is counted each time the text
\* of LanguageVisitor has it: the two visitors are written apart, and agree at any
\* depth of scenarios within scenarios.  One operator of the list at
\* ScenarioMetrics.cpp:259-260 has no counter, "[;]": WordsAreCounted is about it.
OperatorsAreWords ==
    visitor = "metrics" /\ Done =>
        \A op \in operators_t : Copies(op, factors[1].operators) = Copies(<<op>>, words)

\* An object is an operand of its own, named as often as the text names it,
\* though objects of different scenarios have the same id and so the same name:
\* what subprocesses_variables is for, at any depth.
ObjectNames(variables) == {n \in DOMAIN variables : n[1] # "Scenario"}
NamesKeptApart ==
    visitor = "metrics" /\ Done =>
        LET maps  == <<factors[1].variables>> \o factors[1].subprocesses_variables
            names == UNION {DOMAIN maps[k] : k \in DOMAIN maps}
        IN  /\ FoldLeft(LAMBDA n, m : n + Cardinality(ObjectNames(m)), 0, maps)
                  = Cardinality({x \in score.objects : Reached(x[2])})
            /\ \A name \in names :
                  FoldLeft(LAMBDA n, m : n + Copies(name, m), 0, maps) = Copies(name, words)

\* All words of the text are counted, as operators or operands: "duration [2, oo] of
\* c1" has two times and, of the list "after, of, duration, expression, {}, [;], ...",
\* three operators (ScenarioMetrics.cpp:259-264).
WordsAreCounted ==
    visitor = "metrics" /\ Done => N1(factors[1]) + N2(factors[1]) = BagCardinality(words)

\* No number is looked up before it was given (itv_ids.at would throw), and no
\* C++ variable used before it is declared; in the end the ML text has every
\* interval, sync and event of all scenarios within the first, and the C++
\* text those of the first.
NothingUnknown == unknown = {}
IdsKnown ==
    /\ NothingUnknown
    /\ visitor \in {"ml", "cpp"} /\ Done =>
          ids = {x \in score.objects : x[1] # "state" /\
                    IF visitor = "ml" THEN Reached(x[2]) ELSE x[2] = score.first}

\* A device: each node is counted once and in one type, the depth is that of the
\* deepest, and the children counted are all the nodes but those of the root.
\* An average is of something wherever there is something to count.
Above(d, node) == {n \in DOMAIN d.children : node \in d.children[n]}
Level(d) ==
    LET level[n \in DOMAIN d.children] ==
            IF n = d.root THEN 0 ELSE 1 + level[CHOOSE m \in Above(d, n) : TRUE]
    IN  level
DeviceAddsUp(d) ==
    LET nodes == DOMAIN d.children \ {d.root}
        st    == Statistics(d)
    IN  /\ st.nodes = Cardinality(nodes) /\ BagCardinality(st.types) = st.nodes
        /\ st.max_depth = Max({Level(d)[n] : n \in DOMAIN d.children})
        /\ st.avg_child_count =
              [sum |-> Cardinality(nodes \ d.children[d.root]), over |-> Cardinality(nodes)]
        /\ st.avg_non_leaf_child_count.sum >= st.avg_non_leaf_child_count.over
        /\ BagCardinality(st.tuples) <= st.avg_tuple_size.over

\* Each node of each device is counted once, whatever the shape of its tree.
DevicesAddUp == visitor = "statistics" /\ Done => \A d \in score.devices : DeviceAddsUp(d)

\* The depth is that of where the walk is: it is 0 again when the walk is over.
DepthReturns == visitor = "statistics" /\ Done => stats.curDepth = 0

\* Statistics count each object and process of the score once, and the depth is
\* that of the intervals held most deeply, whatever was visited before.
StatisticsAddUp ==
    /\ DepthReturns
    /\ visitor = "statistics" /\ Done =>
        LET itvs == {x \in score.objects : x[1] = "interval"}
            used == {score.holder[q] : q \in DOMAIN score.holder}
        IN  /\ \A c \in itvs : Depth[c] <= stats.maxDepth
            /\ stats.maxDepth # 0 => \E c \in itvs : Depth[c] = stats.maxDepth
            /\ stats.sums["intervals"] = Cardinality(itvs)
            /\ stats.sums["empty_intervals"] = Cardinality(itvs \ used)
            /\ stats.sums["intervals"] + stats.sums["events"] + stats.sums["nodes"]
                  + stats.sums["states"] = Cardinality(score.objects)
            /\ stats.sums["conditions"] = Cardinality(score.conditioned)
            /\ stats.sums["triggers"] = Cardinality(score.triggered)
            /\ BagCardinality(stats.kinds) = Cardinality(DOMAIN score.kind)
            /\ stats.sums["processes"] =
                  Cardinality({q \in DOMAIN score.kind : score.holder[q] # Base})
=============================================================================
