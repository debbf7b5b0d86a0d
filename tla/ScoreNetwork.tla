---------------------------- MODULE ScoreNetwork ----------------------------
(***************************************************************************)
(* The network that TAConversion prints for a score, run as UPPAAL runs    *)
(* it: what the generated model says about the score.                      *)
(***************************************************************************)
EXTENDS ReactiveIS, TANetwork

ASSUME ScoreIsDocument == ScoreAssumption
ASSUME ScoreConverts == Convertible
ASSUME NamesAreDistinct == NamesDistinct
ASSUME DeclIsNetwork == Decl = Network

Interval(i) == loc[Name(i)]

\* How far an interval of the score has got, read off its automaton.
Phase(i) ==
    CASE Interval(i) = "idle" -> "waiting"
      [] Interval(i) \in {"wait", "wait_min"} -> "running"
      [] Interval(i) \in {"id7", "flexible", "semi_flexible", "id15"} -> "past"
      [] OTHER -> "over"

-----------------------------------------------------------------------------
\* The network implements the abstract play of the score: whatever the
\* points, mixes and controls do in between, the intervals of an event start
\* together and only after all the intervals that reach its sync are past
\* their minimum, none ends early or late, and a kill stops its scenario whole.
Opens(ev) == Previous(Score.syncOf[ev]) = {}
HolderOf(i) == Score.parent[ScenarioOfInterval(i)]

Play == INSTANCE ScorePlay WITH
    Parts    <- Score.intervals,
    Cues     <- Score.events,
    StartsOn <- Score.startEvent,
    Before   <- [ev \in Score.events |-> Previous(Score.syncOf[ev])],
    Holder   <- [ev \in Score.events |->
                    IF Opens(ev)
                    THEN {Score.parent[Score.scenarioOf[Score.syncOf[ev]]]} \ {Score.root}
                    ELSE {}],
    Level    <- [i \in Score.intervals |-> HolderOf(i)],
    Min      <- [i \in Score.intervals |->
                    Ticks(IF Score.rigid[i] THEN Score.dur[i] ELSE Score.min[i])],
    Max      <- [i \in Score.intervals |->
                    IF Score.rigid[i] THEN Ticks(Score.dur[i])
                    ELSE IF Score.infinite[i] THEN -1 ELSE Ticks(Score.max[i])],
    phase    <- [i \in Score.intervals |-> Phase(i)],
    since    <- [i \in Score.intervals |-> started[Name(i)]],
    date     <- now

PlaysScore == Play!PlaySpec

Sets == INSTANCE FiniteSetsExt

\* Without triggers and flexible intervals, an interval starts at the date the
\* score shows for its start sync, but for what the divisions lose: at most a
\* tick less 1 msec for each of the intervals in a row that lead there, and never later.
Links[tn \in Score.syncs] ==
    IF Previous(tn) = {} THEN 0 ELSE 1 + Sets!Max({Links[StartSync(i)] : i \in Previous(tn)})

OnSchedule ==
    \A i \in Score.intervals :
        Phase(i) \in {"running", "past"} =>
            LET late == Score.date[StartSync(i)] - DivisionFactor * started[Name(i)]
            IN  late \in 0..((DivisionFactor - 1) * Links[StartSync(i)])

\* The two exports of a score agree: when the network starts an interval, so
\* does its ReactiveIS structure, "Condition: all previous intervals finished"
\* (ReactiveIS.cpp:197), counted in ticks from the start of each of these.
StartsWhen(i) ==
    \A s \in {x \in Structures : x.name = i} : \A w \in s.start_when :
        /\ Phase(w.start) # "waiting"
        /\ ~Score.infinite[w.start] =>
              now - started[Name(w.start)] \in Ticks(w.min)..Ticks(w.max)

ReactiveAgrees ==
    [][\A i \in Score.intervals :
          Phase(i) = "waiting" /\ Phase(i)' = "running" => StartsWhen(i)]_vars

\* A scenario opens at the date at which the interval that holds it starts, and
\* not later, though its events are printed with dates of the scenario while
\* the clock of an Event runs from the start of the play (TAConversion.cpp:554).
OpensWithHolder ==
    \A i \in Score.intervals :
        LET holder == HolderOf(i)
        IN  holder # Score.root /\ Previous(StartSync(i)) = {} =>
                /\ Phase(i) \in {"running", "past"} =>
                      started[Name(i)] = started[Name(holder)]
                /\ Phase(holder) \in {"running", "past"} /\ now > started[Name(holder)] =>
                      Phase(i) # "waiting"

\* After MainEndEvent (TAConversion.cpp:294-298,335) has ended the root
\* interval, the kill that EndMix emits has left no interval of the score
\* waiting or running, wherever the play had got to.
StoppedAtEnd ==
    now > Ticks(EndDate) => \A i \in Score.intervals : Interval(i) = "finished"

\* A kill crosses the levels: "kill_p : kill parent" (TAConversion.cpp:636).
\* What an interval holds is over once the interval has been killed, though
\* each level only listens to the channel of the one above.
Held == {j \in Score.intervals : HolderOf(j) # Score.root}

KillReaches ==
    \A j \in Held : Interval(HolderOf(j)) = "killed" ~> Interval(j) = "finished"

\* Nothing is ever skipped: every Point is printed urgent, so that no element
\* of a generated network originates a skip, and the skip machinery of the
\* templates is unreachable.
NeverSkipped ==
    /\ \A n \in Elements : loc[n] # "skipped"
    /\ \A c \in Controls : counter[c] > 0 => ~skip_v[c]

\* A Control is never told that an interval ends while it still waits for
\* another: the location of model-uppaal.xml.in:366 is named "error".
NoControlError == \A c \in Controls : loc[c] # "error"

\* "If there are multiple intervals ending on this timenode, we put a Control
\* inbetween" (TAConversion.cpp:385-386): an interval starts only when every
\* interval that reaches its start sync has reached its own end or minimum.
WaitsForAll ==
    [][\A i \in Score.intervals : Phase(i) = "waiting" /\ Phase(i)' = "running" =>
          \A j \in Previous(StartSync(i)) : Phase(j) \in {"past", "over"}]_vars

\* "If there is a trigger we create a corresponding event"
\* (TAConversion.cpp:434): what follows a trigger that nothing else can force,
\* since the intervals before it have no maximum, starts after its event.
WaitsForTrigger ==
    [][\A i \in Score.intervals :
          LET tn == StartSync(i)
          IN  /\ Phase(i) = "waiting" /\ Phase(i)' = "running" /\ Score.active[tn]
              /\ \A j \in Previous(tn) : ~Score.rigid[j] /\ Score.infinite[j]
              => loc[<<"EventND", tn>>] = "finished"]_vars

\* The comparison the expression of a trigger asks for, on undivided values.
Compares(e, v) ==
    CASE e.op = "EQUAL" -> v = e.value [] e.op = "LOWER" -> v < e.value
      [] e.op = "LOWER_EQUAL" -> v <= e.value [] e.op = "GREATER" -> v > e.value
      [] e.op = "GREATER_EQUAL" -> v >= e.value [] OTHER -> TRUE

\* While a trigger is listened to, its printed condition tells of the current
\* message what its expression tells: "message < value" and the like, as the
\* comments of model-uppaal.xml.in:430-434 put it.
ConditionAgrees ==
    \A tn \in Score.syncs \cap DOMAIN Score.expression :
        Score.active[tn] /\ loc[Name(tn)] = "enabled" =>
            (Condition(SyncPoint(tn), msg) <=> Compares(Score.expression[tn], msg[<<"msg", tn>>]))

\* An interval that has started is eventually over.
StartedEnds ==
    \A i \in Score.intervals : Phase(i) = "running" ~> Phase(i) = "over"

\* Every interval of the score is eventually played to its end or minimum.
AllPlayed == \A i \in Score.intervals : <>(Phase(i) = "past")
=============================================================================
