# Verification of iscore-addon-staticanalysis

This directory holds TLA+ models of the static-analysis add-on for i-score, TLC
configurations that check them on small instances, and proofs checked by TLAPS. Line
numbers refer to `src/StaticAnalysis/`; `PROJECT.json` maps every definition that
translates code to the lines it stands for. (`ScorePlay`, the abstract specification,
translates none.)

## The system

The add-on adds menu actions to i-score. Each one reads or writes the current
document, a *score*: an interval that holds a scenario process, whose time syncs carry
events, whose events carry states, and whose intervals go from a state to a later one
and may hold scenarios themselves.

| Component | State it keeps | Operations | Interacts with |
|---|---|---|---|
| Conversion to timed automata (`TAConversion.cpp/.hpp`) | the lists of structures and the sets of channel names of a `ScenarioContent`, built in one walk | `makeScenario`, the `visit` of syncs, events, intervals, `print` | reads the document; its text is spliced into the UPPAAL template |
| UPPAAL templates (`Resources/model-uppaal.xml.in`) | locations, clocks, counters and flags of every automaton of the printed network | the edges of Event, Event_ND, Mix, Rigid, Flexible, Control, Point | broadcast channels, shared `int &msg` and `bool &en` |
| Random generator (`generateScenario`, `ScenarioGenerator.cpp` 451-516) | the score under construction and the position in three loops | create a state, grow an interval, add a state, link two states, set a trigger | submits commands to the scenario process; menu actions convert and measure what it makes |
| Petri-net import (`ScenarioGenerator.cpp` 84-449) | the parsed net, the score | `loadJsonFile`, `generateScenarioFromPetriNet` and helpers | as above |
| Program visitor (`ScenarioMetrics.cpp` 818-979) | the mark of every object, the next mark, the recursion of `mark` | mark all that is connected to an interval that has no mark; list programs | reads the document |
| Cyclomatic complexity (`ScenarioMetrics.cpp` 981-1414) | the block of every object, two lists of what is to start a block, three sets of limits of the block under way | cut each program in blocks, count blocks and edges | uses the program visitor; reads the document and sets its labels |
| Language, ML, Halstead metrics (`ScenarioMetrics.cpp` 15-656) | text; maps of the numbers given to objects; sums of operators and operands | one visit per object, scenarios within intervals included | reads the document |
| C++ export (`CppGenerator.cpp`) | text; the variables it has declared | one visit per object | reads the document |
| Statistics (`Statistics.hpp/.cpp`) | sums, and the depth of where the walk is | a recursion between scenarios and intervals; another through each device | reads the document and the tree of devices |
| ReactiveIS export (`ReactiveIS.cpp`) | the text so far | one structure per interval, one within the other | reads the document |
| TikZ export (`TIKZConversion.cpp`) | the text so far | drawing coordinates | reads the document, writes a file |
| Application plug-in (`ScenarioVisitor.cpp`) | the menu actions | one handler per action; two of them change the score | runs all the above on the current document |

**Hard behaviours.** The program is sequential; the concurrency is in what it
generates: a network of some forty automata for five intervals, in which a broadcast
may or may not find its listeners ready, several elements emit on one channel,
committed locations order what happens at one date, a trigger may come at any date,
and a kill must stop everything wherever it is. The converter never runs that network:
no test of the repository does either. The generator is a long random sequence of
edits, each legal only because of the guards before it; imports and generations may
follow each other in one document. The metrics walk a graph whose order is that of
containers, and the exports look up what earlier steps of their walk have left,
through scenarios within scenarios.

**What makes each part correct.**

- Templates: a Control counts up to the number of intervals it waits for, never
  beyond, and says *skipped* only when all were; clocks never pass a bound; a minimum
  is never cut short except by a kill; a Point that is enabled has its flag up.
- Conversion: the network plays the score. Intervals that leave an event start
  together, after those that reach it have passed their minimum; without triggers,
  each at its date; with triggers, never before them; a kill reaches the whole of a
  scenario; nothing is skipped or lost; every channel is declared.
- Generator: no state has two next or two previous intervals, the start sync keeps
  date 0 and no predecessor, every other sync is reached, there are no cycles, dates
  are bounded, and the converter accepts the result.
- Program visitor: programs are the connected parts of a scenario, whatever the order
  of its containers, and the assertion of line 920 holds.
- Cyclomatic complexity: every object of a program ends in a block; triggers,
  conditions and merges of blocks start one; what does not split a block stays in it;
  it ends. What is counted is the number of connected parts, and each object once,
  intervals as edges.
- Language and Halstead: two visitors that say the same grammar agree, on operators as
  on operands; names of different scenarios are never taken for one another.
- ML and C++: nothing is used before it is there.
- Statistics: everything is counted once, and the depth comes back to 0.
- ReactiveIS: an interval may start when the automata start it.

`PROJECT.json` lists the hazards line by line.

## The modules

| Module | Models |
|---|---|
| `TANetwork` | the seven templates that are instantiated, and UPPAAL's rules for running them: broadcast, committed and urgent locations, invariants, delays |
| `MCTemplates` | a network written by hand for TLC, with what the converter never prints: a Point that skips, a kill at any date |
| `TAConversion` | the network `makeScenario` prints for a score |
| `ScorePlay` | the abstract specification: what playing a score means, with neither channels nor points |
| `ScoreNetwork` | the composition of `TAConversion` and `TANetwork`: what the printed network does; the refinement mapping to `ScorePlay`, and the properties |
| `MCScores` | the scores TLC checks |
| `ReactiveIS` | the structures of the ReactiveIS export, beside the network that `ScoreNetwork` runs |
| `ScoreGenerator` | the two menu actions that change the document, `generateScenario` and `generateScenarioFromPetriNet` |
| `GeneratedScore` | the generator composed with the converter |
| `ProgramVisitor` | the walk that finds the programs of a scenario |
| `CyclomaticVisitor` | the walk that cuts each program in blocks, after `ProgramVisitor`, and the counts of `ComputeFactors2` and `ComputeFactors` |
| `MCScenarios` | the scenarios TLC gives both |
| `ScoreVisitors` | the walks of `LanguageVisitor`, `HalsteadVisitor`, `MLVisitor`, `CPPVisitor` and `GlobalStatistics` |
| `DeviceStatistics` | what is counted in the tree of a device, as operators |
| `MCDocuments` | the documents TLC gives these |
| `TANetworkProofs` | proofs about any network of the templates |
| `ScoreNetworkProofs`, `ScoreCueProofs` | proofs about the network of a score: who says what, and the refinement; when things happen |
| `ScoreGeneratorProofs` | proofs about `ScoreGenerator` and `GeneratedScore` |
| `ProgramVisitorProofs`, `CyclomaticVisitorProofs` | proofs about programs and about blocks |
| `ScoreVisitorsProofs` | proofs about the exports and metrics of a document |
| `SumProofs` | lemmas about sums over finite sets, which the other proofs use |

### TANetwork

`Decl` maps the name of each element to the structure of `TAConversion.hpp` it was
printed from, with the same field names; `loc` holds the location of each element with
the names of the template (`id7`, `id15`, `id22`, `id26`, `id28` for the ones the
template leaves unnamed). Input edges are the tuples of `RigidInputs`,
`FlexibleInputs`, ...; each emitting or silent edge is an action (`RigidEnds`,
`FlexibleReachesMax`, `ControlReleases`, ...). `Broadcast` moves the sender and every
listener in one step, applies the assignments of the edges (`counter`, `skip_v`, `en`,
`msg`, clock resets), and is blocked, as in UPPAAL, when a listener would enter a
location whose invariant is false (`cond_true`).

What is abstracted, and why it loses nothing:

- *Clocks.* The template's clock `t` of an interval is `now - started`, where
  `started` is the date of its last reset that a guard or an invariant still reads. A
  started value of -1 means *never*.
- *Dense time.* All constants are integers and no guard or invariant is strict, so
  that unit delays reach every location that dense time reaches.
- *The variable `cond`* of a Point is written just before it is read, and is replaced
  by the value of the call, `Condition`.
- *`en` and `msg`.* The templates take them by reference; the converter gives each
  Point a flag of its own, and so the flag is indexed by Point. A message stays shared
  between its Event and its Point.
- *Horizon.* The only bound added: time stops at `Horizon`. A state that can neither
  act nor let time pass before that is a timelock, and TLC reports it as a deadlock,
  which every run checks.

`DeclAssumption` says what the converter guarantees of the structures (durations from
zero, a Control waits for at least one interval and counts ends and skips on two
different channels), `DistinctInputs` that no location listens twice to one channel,
so that what an element does on a broadcast is determined. TLC evaluates both for
every network it runs.

### TAConversion

`Score` is the document flattened to functions: which interval holds a scenario, which
sync an event is on, the durations. A name the code builds by concatenation is a tuple
`<<prefix, owner>>`. The converter only appends to lists and inserts in sets, in a
walk whose order changes nothing but the order of the printed lines, so it is given by
the set of structures it leaves (`Printed`) and the set of channels it declares
(`Broadcasts`). Division by `uppaal_division_factor` is kept, for times and for
conditions, towards zero as in C++. `Self` is the set of channels a scenario takes
from the interval that holds it.

`ScoreAssumption` is what the document of i-score guarantees of a score: it is finite,
references inside it lead to objects of it, an interval starts and ends in one
scenario, times are from zero and a minimum is not above its maximum. `NamesDistinct`
says that `name()`, the path of an object with a letter for its kind, names one object
only.

### ScorePlay and ScoreNetwork

In `ScorePlay` an interval is waiting, running, past its minimum or over. An event may
start its intervals when every interval that reaches its sync is past its minimum and,
for the first event of a nested scenario, when the holder has started; an interval may
end once past its minimum and time may not pass its maximum; a scenario may be stopped
as a whole: `Level`
gives what holds it. `ScoreNetwork` reads these
phases off the automata (`Phase`) and checks that every step of the network is one of
these or a stutter (`PlaysScore`). It is a safety property: what must happen
eventually is `AllPlayed`, `StartedEnds` and `KillReaches`.

### ScoreGenerator and GeneratedScore

`Generate` and `Import` are the two menu actions that change the document, taken any
number of times in any order once the first process is a scenario (`first` is what the
early returns of the handlers look at). `generateScenario` has one action per branch
of its three loops, with the loop index `i`, and `rand()` as a choice. A state, a sync
or an interval is its number in the order of creation; the event and its sync, which
the code creates together, share a number. The scenario the code starts from has a
start sync with its start event and no state. The scenario library's commands are
modelled from how the code uses them: an interval created from a state gets a new
state, event and sync at its end date. Durations are drawn from `Offsets`, multiples
of nothing in particular: only their order matters, and 0 is included, as `rand() %
20000` includes it.

The import is what the commented loops over places (391-448) leave of it: it takes the
first state of a container, `createInterval` makes a state on the same event and an
interval from there, `createTrigger` makes the end sync active and bounds the
interval. When there is no state yet, the first one of an empty container is
undefined: `ImportFails`, after which nothing more happens. The nodes it adds to the
explorer of devices are left out.

In `GeneratedScore` every intermediate document is handed to `TAConversion`. The
bounds an import gives its intervals, 3000 and 5000 msec in the code (360-361), are
`ImportMin` and `ImportMax`, of which only the order is assumed.

### ReactiveIS

`ReactiveIS` extends `TAConversion`, so that both exports read one `Score`: a
structure has the waits of line 211 for the intervals that reach the sync it starts
on, and contains those of the scenarios it holds. `ScoreNetwork` extends it, and
`ReactiveAgrees` compares, each time the network starts an interval, what these waits
ask with what was played.

### ScoreVisitors and DeviceStatistics

A frame of `stack` is a scenario being visited: the container it is gone through
(`Containers` has the order of each visitor), what is left of it, and the interval
whose processes are being visited with the scenarios left among them. `Visit`,
`Enter`, `LeaveInterval`, `NextContainer` and `LeaveScenario` are the steps of any
walk; each visitor adds what it writes or counts. Text is the bag of its words,
`words`: an object is written as its kind and id, and so objects of different
scenarios may have the same name, as in the code. `Duration` is
`LanguageVisitor::duration`: one time for a rigid interval, and for any other the
operator `[;]` around two. `factors` holds the `ScenarioFactors` of each scenario
being visited; `Plus` is its `operator+=`. For ML and C++ `ids` is what has a number
or is declared, and `unknown` what was looked up there in vain (where `itv_ids.at`
would throw). `operators_t` is the set of the eleven operators `HalsteadVisitor` has a
counter for; `[;]` is not among them. `Statistics` of a device is a fold over its tree
(`visit`, whose depth is an argument, as it is put back on the way out); an average is
the sum with what it is divided by, as a double may be divided by 0 and is then
printed "nan".

`ScoreOK` says what i-score guarantees of a document: it is finite, an object is a
kind, a scenario and an id, and refers to objects of its own scenario, scenarios and
the intervals that hold them form a tree below the base interval, and the first
process of that is the scenario measured; `DeviceOK` that the nodes of a device are a
tree. That each address has an access mode (`Statistics.hpp` 207) is taken for granted.

### ProgramVisitor

The document is a record of functions that follow the accessors of the score
(`startState`, `eventOf`, `syncOf`), and the four maps of marks are one function, as
ids of different kinds are different. The recursion of `mark` is the variable `stack`:
a frame holds, for each of the four loops, the intervals it is still to call `mark`
for, and the loops of a frame are gone through one after the other. `MarkFirst` is the
loop of the constructor, `MarkAgain` the early return, `MarkNext` a call that marks
and goes deeper, `Return` the end of a call. A call that would break `SCORE_ASSERT`
has no action, and `AssertionHolds` says that none is to come. Vectors are gone
through in any order, which covers the order of the scenario's containers.

### CyclomaticVisitor

`step` says where the algorithm is: `FindPrograms` runs `ProgramVisitor`, then for
each program `computeNode` and `computeEvent` start blocks from the two lists,
`MarkCall` makes one call of the three mutually recursive `mark`, whose pending calls
are the stack `calls`; `Pass`, `StillNotSure` and `Decided` are the loop of `iterate`,
`EndBlock` what happens once it is over, `Count` the loop of `ComputeFactors2`. Ids
are numbers, so that `std::set` goes through them in order; `visited` is where its
iterator stands, as the body of the loop inserts into the set it goes through.

`Decided` erases from `notSure` the element that both the iterator and `id` refer to,
and both are used afterwards (1166-1167, 1174). That is undefined behaviour, and any
merge inside a block leads to it: `step'` is then either `"block"`, when the freed
node still holds what it did, or `"crashed"`. All other properties are about the first
outcome.

Scenarios are assumed to go forward in time (`ForwardAssumption`, no cycles), as those
of the generator do.

No menu action calls `ComputeFactors2`: they use `ComputeFactors` (1302-1335), three
sums of sizes, the operator of that name. `CountsParts` says that its three numbers are
those of the intervals, of the events and syncs, and of the connected parts, and not
which of the first two counts edges: `IntervalsAreEdges`, of the run `edges`, does.

## The runs

| Run | Instance | Question, and answer |
|---|---|---|
| `templates` | 12 elements, horizon 6 | Do counts, flags and clocks keep their meaning when skips, kills, cues and ends come at any date? Yes: `ControlCounts`, `ClocksInBounds`, `EnabledHasFlag`, `ControlTellsSkipFromPlay`, `MinimumRespected`. |
| `rigidity` | 7 intervals without triggers: chain, fork, merge, condition, durations that 100 does not divide | Does each interval start at the date the score shows, within a tick per link? Yes: `OnSchedule`. (`PlaysScore` of a score without triggers is a theorem.) |
| `interactive` | 6 intervals, 3 triggers: one before an interval that holds a scenario, one where it meets another interval, one inside; the play ends in the middle | Does the network wait for its triggers, never break its Control, open what is held with its holder, and stop whole at the end, level by level? Yes: `WaitsForTrigger`, `NoControlError`, `OpensWithHolder`, `StoppedAtEnd`, `PlaysScore` and, under fairness, `KillReaches`. |
| `bounded` | 4 intervals, 3 triggers, each after an interval with a maximum | Is everything played and ended whatever the triggers do? Yes, under fairness: `AllPlayed`, `StartedEnds`; nothing is skipped: `NeverSkipped`; and the ReactiveIS export of the score agrees: `ReactiveAgrees`. |
| `generator` | generations of 2 or 5 growing steps, with a link and a trigger, and imports, 5 new syncs in all, durations 0 and 1 | Is every intermediate score well formed and convertible? Yes: `StatesSingle`, `StartIsFirst`, `OthersReached`, `Forward`, `DatesBounded`, `GeneratedConverts`. |
| `metrics` | 75 scenarios: five shapes, triggers on five sets of syncs, conditions on none or one | Are programs the connected parts of the scenario, and blocks cut where the comment at 981-985 says? Yes: `AssertionHolds`, `MarksAgree`, `ProgramsSeparate`, `ProgramsConnected`, `BlocksCoverProgram`, `NewBlocks`, `BlocksFlow`; both counts give the parts, whichever are called edges: `CountsParts`; and both visitors end: `Ends`. |
| `visitors` | three documents: a chain, scenarios within scenarios, scenarios beside each other, with equal ids, some intervals flexible; three devices | Do the two visitors of the grammar agree on the operators both know, are names kept apart, is nothing used before it is there, is everything counted once? Yes: `OperatorsAreWords`, `NamesKeptApart`, `IdsKnown`, `StatisticsAddUp`, `DevicesAddUp`. |
| `merge` | two rigid branches of one length | Can a Control reach its location `error`? **It can.** |
| `triggered_merge` | two flexible branches into a trigger | Does a merge wait for all its branches? **It does not.** |
| `conditioned` | a trigger on `message < 50` | Does the printed condition compare as the score does? **It does not.** |
| `words` | the documents of `visitors` | Are all words of the text counted, as operators or operands (`WordsAreCounted`)? **Times are not, nor is the operator `[;]`.** |
| `edges` | the scenarios of `metrics` | Does `ComputeFactors` count intervals as edges, events and syncs as vertices, as the comment at 1310 says (`IntervalsAreEdges`)? **It is the other way round.** |

**Bounds.** Durations are 100 to 300 msec, two of them 150, and the division factor is
the code's 100, so a unit of model time is a tick of the printed model. Two ticks of
difference are enough to order any two ends, and 0 appears as a minimum. `EndDate`,
18000 in the code, is brought down to lie after the longest play (600 to 800), out of
reach (`bounded`, 2000), or in the middle of it: in `interactive`, at 400, the
scenario that is held may have started or not, run or be over, and what follows the
merge may run. `Horizon` lies one tick past `EndDate`, or past the longest play, so
that no run is cut short. Networks have up to 56 elements. The generator's N is 5, the
smallest for which all three loops iterate, in particular `N / 5`, or 2, which only
grows; `MaxGrowth` is 5, so that a document may be imported into up to five times, or
before and after a generation of 2; more growth adds only the interleavings of the
same guards. Documents of `visitors` nest three levels, and have two scenarios with
the same id, in one interval and in two: the least for a name to be taken for another,
and for the list of variables of scenarios within to be handed on twice. The device of
three levels is the least where a parent's depth matters. The scenarios of `metrics`
have up to four syncs and four intervals: a chain whose ids are not in order, two
branches that meet, a sync with three ways out whose ids go backwards, two intervals
between the same syncs, and two separate parts. Two branches are the least for a sync
that is unsure, then decided; ids against the direction of play are what makes
`std::set` visit syncs before those they depend on; two parts are the least for two
programs.

**Fairness.** `FairSpec` adds `WF_vars(ElementStep \/ Delay)`: something happens as
long as something can. It is not fairness of each element, and asks for no trigger to
come. It stands for a UPPAAL run that does not stop of its own accord; the deadlines
come from the invariants of locations, as they do in UPPAAL. Liveness of networks is
checked in `bounded` and `interactive` alone. In `CyclomaticVisitor` fairness is
`WF_vars(Next)`: a sequential program goes on running.

**What the violations show.**

1. *merge*: a Rigid emits `event_e1` and then `event_e2` (template, lines 168-202),
   which at a merge are `event_s1` and `event_s2` of the Control (`TAConversion.cpp`
   614-615, 676). While another branch has not ended the Control is idle again and
   `event_s2` takes it to `error`.
2. *triggered_merge*: the `event_s2` of the Control is also the end event of the
   sync's Point, and what the Points of its events listen to (`TAConversion.cpp` 404,
   530). A Flexible at its maximum emits it directly (673), and what follows starts
   without the others.
3. *conditioned*: the value a message is compared with is divided by 100, as if it
   were a time (77), while the values of messages are not (176).
4. *words*: for the time of an interval the language writes one word or, when it is not
   rigid, `[`, `; ` and `]` around two (`ScenarioMetrics.cpp` 320-342, called at 348).
   `HalsteadVisitor::duration()` (558-568), which counts the operands that are times, is
   called by nobody; and the comment at 259-260 lists `[;]` among the operators, "after,
   of, duration, expression, {}, [;], interval, state, event, timeSync, scenario, loop,
   automation", but `operators_t` (400-432) has no counter for it. Times are missing from
   `eta2` and `N2`, `[;]` from `eta1` and `N1`, and all that is derived from them. What
   the eleven counters count is right: `OperatorsAreWords`.
5. *edges*: the comment of `ComputeFactors` (1310) says "each interval is an edge, each
   node / event is a vertice", but line 1334 gives the events and syncs as the first
   argument of `Factors`, which is `edgeCount` (`ScenarioMetrics.hpp` 58-59), and the
   intervals as the second, `nodeCount`. `Complexity` (72) subtracts the
   second from the first, and is another number the other way round.

Other things seen in the models or while writing them contradict nothing the
repository says, and no run is devoted to them:

- On the start sync `event_s` and `event_e` are one channel (`TAConversion.cpp`
  425-427): a trigger there is not waited for.
- A root interval without a scenario prints a network whose channel `global_start` is
  not declared; a held interval without a maximum outlives a holder that ends by
  itself, since `kill` is emitted only when the holder is killed.
- `ComputeFactors2`, which has no caller, collects booleans in its set of next blocks
  (`ScenarioMetrics.cpp` 1372), so that two blocks ahead make one edge; and a trigger
  that two blocks lead to at different times (intervals 1-2, 1-3, 3-2, triggers on 2
  and 3) is given a block twice, and the first one, left empty, counts in `N`.
- The table of statistics shows `processesPerInterval` (`ScenarioVisitor.cpp` 302),
  which `GlobalStatistics` never sets; the averages of an empty or flat device are 0 /
  0 (`Statistics.hpp` 231-234).
- The ReactiveIS export prints an infinite maximum converted to `int`
  (`ReactiveIS.cpp` 214).
- Handlers that measure or export cast the first process to a scenario unchecked
  (`ScenarioVisitor.cpp` 168, 201, 325, 342), where those that edit look first.

## The proofs

A module of proofs has one subject and the hypotheses of each theorem are stated with
it. All of them are about the specification without fairness.

### Networks, whatever they are made of: `TANetworkProofs`

For every network that satisfies `DeclAssumption` and `DistinctInputs`, every horizon
and every number of elements:

- `TypeCorrect`, `ControlsCount`, `ClocksBounded`, `EnabledFlagged` (invariants) and
  `MinimumIsRespected` (action property).
- The inductive invariant `IInv` is the conjunction of the type invariant, the counts,
  the bounds on clocks and the flags, with what each needs of the others: the bound on
  `counter` depends on the location of the Control, that of clocks on whether the
  interval has started, and the dead edge of Point on its flag. None is inductive
  alone, because one broadcast moves many elements at once.
- One lemma per template says where a broadcast can take it (`RigidAfter`,
  `FlexibleAfter`, ...). `BroadcastKeeps` then treats any sender: given that the
  sender itself arrives in a place its template allows, all listeners keep the
  invariant. Each sending action is a use of that lemma; silent edges and delays have
  their own (`InternalKeeps`, `DelayKeeps`).
- `ControlsTellSkipFromPlay`, for networks that are `Wired`: what a Control hears
  comes from intervals of its own alone, as many as it waits for. `Begun` says that
  only an interval that was played has a date in `started`; `Tallied` that a Control
  has counted as many intervals as are in some set of its own that are past their end,
  all of them skipped as long as `skip_v` is up. The set is what is missing in the
  counter: which intervals have been counted, and that none was counted twice.

### The network of a score: `ScoreNetworkProofs`, `ScoreCueProofs`

For every score that can be converted (`ScoreAssumption`, `Convertible`,
`NamesDistinct`), every division factor, `EndDate` and `Horizon`: any number of syncs,
events and intervals, scenarios nested to any depth, any durations.

The first part of `ScoreNetworkProofs` says who can say what: for each prefix of a
channel, the elements that emit on it and the locations they do it from (`Speaks`,
`WhoSays` and the lemmas after them). From it follow:

- `NothingIsSkipped`: no element of a printed network originates a skip, so that every
  `skip` edge of the templates is dead there.
- `ConvertedIsWired`: every network the converter makes is `Wired`, hence
  `MergesTellSkipFromPlay`. `templates` checks the same property on a network that
  does skip.

The second part is the refinement:

- `NetworkPlaysScore`: under `TriggersUnforced`, `Spec => PlaysScore`. Every step of
  the network is a `Start`, a `Reach`, an `End`, a `Stop` or a `Tick` of `ScorePlay`,
  or a stutter. The invariant `PlayInv` has four parts. `OneCascade`: a kill and an
  ordinary sequence of events are never under way at once, since both live in
  committed locations; without it a Stop would leave out intervals about to start.
  `StartsOnCue`: an interval leaves `idle` with all that start on its event.
  `HeardWhenReady`: what listens to a sync has heard it only when all it waits for is
  past its minimum; `CountsPast`: a Control has counted no more intervals than have
  passed theirs.
- `MergesWaitForAll`: `WaitsForAll` under the same hypothesis.

`TriggersUnforced` says that no interval which reaches a merge with a trigger ends by
itself. It is needed: `triggered_merge` shows what happens without.

`ScoreCueProofs` has the rest, each with an invariant of its own:

- `TopIsStopped`, `PlayIsStopped`: after `EndDate` the intervals of the scenarios of
  the root are over, in a score without nested scenarios all of them. `EndInv` follows
  the end from `MainEndEvent` to the root interval, its Mix and the kill. `AllAtTop`
  is needed, since a held interval outlives a holder that ends by itself
  (`TAConversion.hpp` 235), and `Ticks(EndDate) > 0`, since a play that ends at date 0
  may end before it begins.
- `ControlsDoNotErr`: `NoControlError` when no merge is forced at all
  (`MergesUnforced`); `merge` shows the need. `ToldAfterControl` says that what can
  emit `event_s2` comes after the Control.
- `TriggersWaitedFor`: `WaitsForTrigger` when no scenario opens on a trigger
  (`NoOpeningTrigger`), where it is passed by (425). `SetOffByTrigger` follows the
  event of the trigger to the point, the intervals that end on it, and the points of
  the events.
- `NestedOpenInTime`: `OpensWithHolder` when nested scenarios open on a plain sync
  (`OpeningsPlain`): with a trigger or an expression there, dates of the inner
  scenario are compared with the clock of the play (554). `Opened` and
  `StartedTogether` say at each point of the way that no time has passed.
- `RigidsOnSchedule`: `OnSchedule` in a score without triggers or flexible intervals
  (`AllRigid`), whose dates are those of its intervals (`DatesAgree`), with all
  scenarios in the root, for every duration, every factor and every graph of intervals
  without cycles (`Layered`: a rank that grows along intervals). `DivisionFactor`
  rounds each duration down by itself, so that what is lost adds up along a chain:
  `Scheduled` says that it is never more than `DivisionFactor - 1` msec per link of
  the longest chain before the interval. `Links` is a recursive function over a graph,
  and `LinksAre` shows that it is well defined: it is built by ranks, each from the
  ranks below.
- `ExportsAgree`: `ReactiveAgrees` when no merge is forced (`MergesUnforced`), rigid
  intervals have the minimum and the maximum of their duration (`RigidsFixed`), and no
  event after an interval with a maximum has an expression (`EndsUnconditioned`): such
  an event waits for its own date as well, of which the ReactiveIS export says
  nothing.
- Both rest on `Timely`, an invariant of every score (`TimelyInvariance`): an interval
  is past its minimum only when it has run at least its shortest and at most its
  longest duration (`PastWithin`); what a sync sets going is set going when one of the
  intervals that reach it is in these bounds (`TimelySync`), and an event with an
  expression at its own date (`TimelyEvent`). `Timed` leaves out the merges that a
  trigger ends, where branches wait for one another. No step of the network reads the
  date at which a sync is due, and so each location on the way from the end of an
  interval to the start of the next has to carry it along: most of these are committed
  or urgent, and the proof is that no time passes in them.

The scores of the runs satisfy these hypotheses: `rigidity`, without triggers, those of
`RigidsOnSchedule` and of `PlayIsStopped`; `interactive`, with a merge that only its
trigger ends and a held scenario that opens on a plain sync, has `MergesUnforced`,
`TriggersUnforced`, `NoOpeningTrigger` and `OpeningsPlain`; `bounded`, with neither
merges nor expressions, those of `ExportsAgree`. `StoppedAtEnd` holds in `interactive`
without `AllAtTop`, since what is held there is over before its holder can end.

### Generated scores: `ScoreGeneratorProofs`

For every number of steps asked for, every sequence of generations and imports, and
every set of durations below the maximum:

- `TypeCorrect`, `StatesAreSingle`, `StartStaysFirst`, `OthersAreReached`,
  `GoesForward` and `DatesAreBounded`.
- `DatesBounded` is not inductive: it is strengthened in two parts: a date is bounded
  by the number of syncs made (`DatesByLength`), and that number by the growth asked
  for, less what is still to come in the loop under way (`SyncsBounded`).
  `StatesSingle` needs that `hasNext` and `hasPrevious` look at every interval, and
  `Forward` that a new sync has the greatest number.
- `GeneratedAlwaysConverts`: at every moment of that, the document is a score the
  converter accepts (`MadeIsScore`) and every channel of the network it prints is
  declared. `ConversionDeclares` is about the converter alone: any score with a
  scenario in the root declares all it uses. The hypothesis is not idle: without one,
  `global_start` is missing.

### Programs and blocks: `ProgramVisitorProofs`, `CyclomaticVisitorProofs`

For every set of documents that satisfies `ScenariosAssumption`: the accessors lead to
objects of the document, there are finitely many of these, ids are numbers and an id
is that of one object.

- `TypeCorrect`, `AssertionNeverFails`, `MarksAlwaysAgree`, `ProgramsAreConnected` and
  `ProgramsAreSeparate`.
- The inductive invariant says where the walk stands: what meets an interval of the
  current program has its mark or is still to be called for (`NeighboursToCall`), what
  is to be called for meets one (`ToCallMeets`), and an earlier program meets nothing
  outside it (`EarlierAlone`). The assertion follows from the last two: an interval of
  an earlier program that was to be called for would meet one of the current program.
  When the last call returns nothing is to be called for, and `NeighboursToCall` turns
  into `EarlierAlone` for the program just completed.
- `ToCallFirst`, `ToCallAgain`, `ToCallNext` and `ToCallReturn` say what each action
  does to the calls that are pending, so that the proofs about marks do not mention
  the stack.
- `BlocksAlwaysFlow`, `BlocksAlwaysCover` and `BlocksStartAnew`, for the algorithm
  that cuts the programs. Syncs are moved from block to block while it runs, and what
  holds in the end holds at no intermediate step. The invariant `CutInv` therefore
  says of each rule what is still to be done for it: what an object leads to without a
  split is in its block or about to be called for (`Flows`); what a block leads to is
  in a block or in one of the lists that will start one (`Follows`); a trigger, a
  condition or a merge of blocks starts a block or waits for one (`StartsOrWaits`).
  `BlockFlows` says what the block under way has flowed through, `OwnProgram` and
  `MarkedTouched` that it stays in one program, `Between` and `Order` that nothing is
  left to do when a block, and then the program, is done.
- The last two need the score to go forward (`ForwardAssumption`): around a cycle,
  blocks would wait for each other and be left out. The only code here that makes
  scores gives a new sync the highest date and links only forward
  (`ScenarioGenerator.cpp` 490-506), which is theorem `GoesForward`.
  `BlocksAlwaysFlow` does not use it.
- `PartsAreCounted`: `CountsParts`, what `ComputeFactors` and `ComputeFactors2` return.
  `Sizes`, the loop that adds up the sizes of the programs, is a sum over marks of sets
  that have nothing in common (`SumOfParts`); that the marks are as many as the
  connected parts needs that each is that of some interval (`NoneEmpty`), and that what
  is connected and what is separate are the same sets (`PartsAreMarks`). `Counting`
  follows the numbers of programs and blocks while `ComputeFactors2` goes through them.

### The exports and metrics of a document: `ScoreVisitorsProofs`

For every set of documents that satisfies `ScoresAssumption` (objects refer to objects
of their scenario, the accessors lead to objects of the document):

- `WalkInvariance`, `NothingIsUnknown` and `DepthAlwaysReturns`. The inductive
  invariant `WalkInv` says of each scenario being visited that what is left is of the
  container gone through, and that what the export visitors have gone past is in `ids`
  (`FrameOK`); and that the depth is the number of intervals the walk is in
  (`DepthOK`). Nothing about the scenarios in between is needed for the first: a visit
  only looks up objects of its own scenario, of containers that come earlier.
- One lemma per step of the walk (`VisitWalks`, `EnterWalks`, ...) serves the actions
  of all visitors; `OthersKept` and `FrameKept` treat the scenarios that a step leaves
  alone.
- `IdsAreKnown`, the whole of `IdsKnown`: in the end every object of the scenarios
  reached has its number or its variable, and nothing else has. `ExportInv` adds to
  the above that only what is reached gets one (`OnlyExported`), and that what is
  reached and has none is still ahead of a frame of the stack (`NoneForgotten`).
- `OperatorsMatchWords`: the counts of `HalsteadVisitor` are those of the words of
  `LanguageVisitor`, for each of the eleven operators it has a counter for. The
  twelfth that the text has, `[;]`, it never counts: the times of an interval,
  flexible or rigid, are shown to add none of the eleven (`IntervalLine`). In the
  middle of a walk the counts are spread over the factors of all the scenarios being
  visited, one within the other, and only their sum is that of the words.
  `FactorsTell` says so with a function of partial sums along the stack (`SumsTo`)
  that exists, is not computed, and is carried along by each step.
- `StatisticsAlwaysAddUp`: the whole of `StatisticsAddUp`. The invariant is about a set
  of scenarios, those entered so far: none of them is ahead of the walk again, and
  every other one is (`Entered`); the sums are the sizes of what is in them
  (`StatsTell`), the kinds those of the processes of the base interval and in them
  (`KindsTell`), and `maxDepth` is that of the intervals gone past (`DepthsTell`). A
  scenario that two intervals held, or that held itself, would be counted twice or for
  ever, which is where the proof needs the tree of `ScoreOK`. `Depth` is a recursive
  function, and `DepthIs` shows that it is well defined: the depth of an interval is the
  number of scenarios around it.
- `NamesAlwaysApart`: the whole of `NamesKeptApart`. In the middle of a walk the maps
  of names are spread over the factors of the scenarios being visited, each with a list
  of those of scenarios within. `NamesTell` says that they can be laid end to end in
  the order in which the scenarios were entered: `Laid` where the maps of each factor
  start, `Named` whose objects are in each map, all of them once the scenario is over,
  `Tallied` that together they have each name as often as the text, `InOrder` that the
  scenarios are those entered, each once. `operator+=` then moves a boundary and
  changes no map. Two scenarios may well give their objects the same names: it is the
  order that tells them apart.
- `DevicesAlwaysAddUp`: the whole of `DevicesAddUp`. It is about a recursion rather
  than a walk: `VisitIs` shows that `visit` is well defined, by building it for larger
  and larger subtrees, `LevelIs` the same of the levels of nodes, and `SubtreeTells`
  that what it finds from a node on is right about all that is under it, as the
  smallest subtree of which it were wrong would be put together from smaller ones.

### Sums: `SumProofs`

The folds of the community modules are recursive functions, and what one computes for
every input takes an induction. These lemmas avoid it: a sum of natural numbers is the
size of a disjoint union (`SumOver`), about which the theorems on finite sets say
enough, and a fold that differed from that would do so first on some smallest set
(`SumIs`, by `SmallestSet`). `SumOfParts`, `SumOfTwo` and `SumsAdd` are what the other
proofs use.

### Only model-checked

- Liveness (`StartedEnds`, `AllPlayed`, `KillReaches`, `Ends`): TLAPS has no proof of
  it here, nor of ENABLED. All other properties that a passing run checks are stated by
  a theorem, under the hypotheses given above.
- `NoControlError` where ends are forced but in an order that does no harm, as in
  `rigidity`.

## Not modelled

- The template Multimedia (61-129): the code never instantiates it.
- The layout of the printed text, comments, names of variables beyond identity.
- Places of a Petri net: the loops over them are commented out
  (`ScenarioGenerator.cpp` 391-448), and what is parsed of them (368-389) is not used.
  The device and the nodes that an import adds to the explorer (102-142) are commands
  to another plug-in.
- The TikZ export: floating-point coordinates and LaTeX, with nothing that one step
  leaves to the next.
- What the other handlers of the menu show: dialogs, files, the table of statistics.
  They read the document before the dialog opens, and so have no state of their own;
  but for the TikZ export, which runs its dialog first.
- The formulas of `ScenarioMetrics.hpp` (logarithms and quotients of Halstead's four
  numbers, and `e - n + 2p`).
- The labels `ComputeFactors2` writes on objects, for display; the average of extended
  attributes, the number of empty states and the assertion `SCORE_ASSERT(addr.ioType)`
  (`Statistics.hpp` 207) in Statistics.

## Plan

Done, in this order: `TANetwork` and its proofs; `TAConversion`; `ScorePlay` as the
abstract specification and `ScoreNetwork` as its implementation; `ScoreGenerator` and
its proofs; their composition `GeneratedScore`; `ProgramVisitor` and its proofs;
`CyclomaticVisitor`; drift and nested scenarios that start later; the menu actions and
the import in `ScoreGenerator`, with its proofs; `ReactiveIS`; `ScoreVisitors`,
`DeviceStatistics` and their proofs; `ComputeFactors`; the proofs about the network of
a score: nothing is skipped, the refinement, the end of the play, merges, triggers,
nested scenarios, dates, the ReactiveIS export; the proofs about blocks, the exports,
the grammar, and that generated scores convert; the proofs about what is counted:
connected parts, statistics of scores and devices, names.

Left:

1. Theorems: `OnSchedule` for nested scenarios, with the links of the intervals that
   hold them added up; `WaitsForAll` and `NoControlError` from a bound on the dates of
   the ends where these are forced.
2. Scores of three levels for the network, and generated scores played as well as
   converted: both are beyond the time the model checker has at present.
