---------------------------- MODULE TAConversion ----------------------------
(***************************************************************************)
(* TAConversion.cpp: the network of timed automata makeScenario() prints   *)
(* for the root interval of a score.                                       *)
(*                                                                         *)
(* Score is the document, flattened: scenario processes with the interval  *)
(* that holds them, and their time syncs, events and intervals.  A state   *)
(* is not converted (visit(StateModel) is empty); it appears only through  *)
(* the events an interval starts and ends on.  A channel or a variable is  *)
(* a tuple <<prefix, owner>> for the name the code concatenates.  The      *)
(* converter is a walk that only appends to lists and sets, so it is given *)
(* by the set of structures it leaves.                                     *)
(***************************************************************************)
EXTENDS Integers, FiniteSets

CONSTANTS
    Score,           \* the document, see ScoreAssumption
    DivisionFactor,  \* uppaal_division_factor, 100 in the code
    EndDate          \* msec at which MainEndEvent ends the play, 18000 in the code

ASSUME FactorAssumption == DivisionFactor \in Nat \ {0} /\ EndDate \in Nat

\* A document is finite, references inside it lead to objects of it, an interval
\* stays in one scenario, and durations and dates are times from zero, the
\* minimum not above the maximum.
ScoreAssumption ==
    /\ \A S \in {Score.scenarios, Score.syncs, Score.events, Score.intervals} : IsFiniteSet(S)
    /\ Score.parent \in [Score.scenarios -> Score.intervals \cup {Score.root}]
    /\ Score.startSync \in [Score.scenarios -> Score.syncs]
    /\ Score.scenarioOf \in [Score.syncs -> Score.scenarios]
    /\ Score.date \in [Score.syncs -> Nat]
    /\ Score.active \in [Score.syncs -> BOOLEAN]
    /\ Score.syncOf \in [Score.events -> Score.syncs]
    /\ Score.startEvent \in [Score.intervals -> Score.events]
    /\ Score.endEvent \in [Score.intervals -> Score.events]
    /\ Score.rigid \in [Score.intervals -> BOOLEAN]
    /\ Score.infinite \in [Score.intervals -> BOOLEAN]
    /\ \A f \in {Score.min, Score.dur, Score.max} : f \in [Score.intervals -> Nat]
    /\ \A i \in Score.intervals :
          /\ ~Score.rigid[i] /\ ~Score.infinite[i] => Score.min[i] <= Score.max[i]
          /\ Score.scenarioOf[Score.syncOf[Score.startEvent[i]]]
                = Score.scenarioOf[Score.syncOf[Score.endEvent[i]]]
    \* triggers and event conditions that are expressions over one message
    /\ DOMAIN Score.expression \subseteq Score.syncs \cup Score.events

-----------------------------------------------------------------------------
(* Accessors of the score library, as the converter uses them.             *)

EndSync(i)       == Score.syncOf[Score.endEvent[i]]
StartSync(i)     == Score.syncOf[Score.startEvent[i]]
Previous(tn)     == {i \in Score.intervals : EndSync(i) = tn}
ScenarioOfInterval(i) == Score.scenarioOf[StartSync(i)]
IsMerge(tn)      == Cardinality(Previous(tn)) > 1

-----------------------------------------------------------------------------
(* Printing: TimeVal::msec() and conditionValue are divided by the factor, *)
(* both as C++ ints, that is towards zero.                                 *)

Ticks(d) == d \div DivisionFactor
PrintedValue(v) == IF v >= 0 THEN Ticks(v) ELSE -Ticks(-v)

to_operator(op) ==
    CASE op = "EQUAL" -> 1 [] op = "LOWER" -> 2 [] op = "LOWER_EQUAL" -> 3
      [] op = "GREATER" -> 4 [] op = "GREATER_EQUAL" -> 5 [] OTHER -> 0

\* set_point_condition on an expression, and what visit does without one.
PointCondition(x) ==
    IF x \in DOMAIN Score.expression
    THEN [op |-> to_operator(Score.expression[x].op),
          value |-> PrintedValue(Score.expression[x].value)]
    ELSE [op |-> 0, value |-> 0]

-----------------------------------------------------------------------------
(* Names and channels.                                                     *)

Name(x)        == <<x>>
ControlName(tn) == <<"Control_", tn>>
GlobalStart    == <<"global_start">>
GlobalEnd      == <<"global_end">>

\* Channels on which an interval tells its end sync that it may end, that it
\* ends, and that it is skipped: those of the Control when there is one.
EndChannels(i) ==
    LET tn == EndSync(i)
    IN  IF IsMerge(tn)
        THEN [event_e1 |-> <<"event_s1_Control_", tn>>,
              event_e2 |-> <<"event_s2_Control_", tn>>,
              skip     |-> <<"skip_p_Control_", tn>>]
        ELSE [event_e1 |-> <<"event_s_", tn>>,
              event_e2 |-> <<"event_e_", tn>>,
              skip     |-> <<"skip_p_", tn>>]

\* Faulty: every scenario starts with the play, or on the skip of what holds it.
SelfStartsAtOnce(s) ==
    LET i == Score.parent[s]
    IN  IF i = Score.root
        THEN [event_s |-> GlobalStart, skip |-> <<"skip", i>>, kill |-> <<"kill", i>>]
        ELSE [event_s |-> GlobalStart, skip |-> EndChannels(i).skip, kill |-> <<"kill_", i>>]
SelfStartsOnSkip(s) ==
    LET i == Score.parent[s]
    IN  IF i = Score.root
        THEN [event_s |-> <<"skip", i>>, skip |-> GlobalStart, kill |-> <<"kill", i>>]
        ELSE [event_s |-> EndChannels(i).skip, skip |-> <<"ok_", Score.startEvent[i]>>,
              kill    |-> <<"kill_", i>>]

\* Faulty: every scenario listens to a channel spelled as that of the root.
SelfKilledAsRoot(s) ==
    LET i == Score.parent[s]
    IN  IF i = Score.root
        THEN [event_s |-> GlobalStart, skip |-> <<"skip", i>>, kill |-> <<"kill", i>>]
        ELSE [event_s |-> <<"ok_", Score.startEvent[i]>>,
              skip    |-> EndChannels(i).skip,
              kill    |-> <<"kill", i>>]

\* TAScenario: the channels a scenario borrows from the interval that holds it.
Self(s) ==
    LET i == Score.parent[s]
    IN  IF i = Score.root
        THEN [event_s |-> GlobalStart, skip |-> <<"skip", i>>, kill |-> <<"kill", i>>]
        ELSE [event_s |-> <<"ok_", Score.startEvent[i]>>,
              skip    |-> EndChannels(i).skip,
              kill    |-> <<"kill_", i>>]

-----------------------------------------------------------------------------
(* visit(TimeSyncModel)                                                    *)

SelfOfSync(tn) == Self(Score.scenarioOf[tn])

\* The channels of the point before a Mix is put in front of it.  A sync with
\* no previous interval is the start of its scenario: anything else aborts.
SyncChannels(tn) ==
    IF IsMerge(tn)
    THEN [event_s |-> <<"event_e_Control_", tn>>,
          event_e |-> <<"event_s2_Control_", tn>>,
          skip_p  |-> <<"skip_Control_", tn>>]
    ELSE IF Previous(tn) # {}
    THEN [event_s |-> <<"event_s_", tn>>,
          event_e |-> <<"event_e_", tn>>,
          skip_p  |-> <<"skip_p_", tn>>]
    ELSE [event_s |-> SelfOfSync(tn).event_s,
          event_e |-> SelfOfSync(tn).event_s,
          skip_p  |-> SelfOfSync(tn).skip]

Convertible ==
    \A tn \in Score.syncs :
        Previous(tn) = {} => tn = Score.startSync[Score.scenarioOf[tn]]

MixOut(tn) == <<"mix_event_e", SyncChannels(tn).event_e>>

SyncPoint(tn) ==
    [kind |-> "Point", name |-> Name(tn),
     condition |-> IF Score.active[tn] THEN PointCondition(tn).op ELSE 0,
     conditionValue |-> IF Score.active[tn] THEN PointCondition(tn).value ELSE 0,
     en |-> <<"en_", tn>>, conditionMessage |-> <<"msg", tn>>,
     event |-> <<"event_", tn>>, urgent |-> TRUE,
     event_s |-> SyncChannels(tn).event_s, skip_p |-> SyncChannels(tn).skip_p,
     event_e |-> IF Score.active[tn] THEN SyncChannels(tn).event_e ELSE MixOut(tn),
     kill_p |-> SelfOfSync(tn).kill,
     skip |-> <<"skip_", tn>>, event_t |-> <<"ok_", tn>>]

SyncControl(tn) ==
    [kind |-> "Control", name |-> ControlName(tn),
     num_prev_rels |-> Cardinality(Previous(tn)),
     event_s1 |-> <<"event_s1_Control_", tn>>,
     skip_p |-> <<"skip_p_Control_", tn>>, skip |-> <<"skip_Control_", tn>>,
     event_e |-> <<"event_e_Control_", tn>>, kill_p |-> SelfOfSync(tn).kill,
     event_s2 |-> <<"event_s2_Control_", tn>>]

SyncEvent(tn) ==
    [kind |-> IF Score.active[tn] THEN "Event_ND" ELSE "Event",
     name |-> <<IF Score.active[tn] THEN "EventND" ELSE "Event", tn>>,
     message |-> <<"msg", tn>>, event |-> <<"event_", tn>>,
     date |-> Ticks(Score.date[tn]), val |-> 0]

SyncMix(tn) ==
    [kind |-> "Mix", name |-> <<"Mix", tn>>,
     event_in |-> SyncChannels(tn).event_s, event_out |-> MixOut(tn),
     skip_p |-> SyncChannels(tn).skip_p, kill_p |-> SelfOfSync(tn).kill]

SyncElements(tn) ==
    {SyncPoint(tn), SyncEvent(tn)}
        \cup {SyncControl(x) : x \in {y \in {tn} : IsMerge(y)}}
        \cup {SyncMix(x) : x \in {y \in {tn} : ~Score.active[y]}}

\* Faulty: the channels of a sync with one previous interval are forgotten.
SyncBroadcastsForget(tn) ==
    {<<"event_", tn>>, <<"skip_", tn>>, <<"ok_", tn>>}
        \cup (IF IsMerge(tn)
              THEN {<<p, tn>> : p \in {"event_s1_Control_", "skip_p_Control_",
                       "skip_Control_", "event_e_Control_", "event_s2_Control_"}}
              ELSE {})
        \cup (IF Score.active[tn] THEN {} ELSE {MixOut(tn)})

SyncBroadcasts(tn) ==
    {<<"event_", tn>>, <<"skip_", tn>>, <<"ok_", tn>>}
        \cup (IF IsMerge(tn)
              THEN {<<p, tn>> : p \in {"event_s1_Control_", "skip_p_Control_",
                       "skip_Control_", "event_e_Control_", "event_s2_Control_"}}
              ELSE IF Previous(tn) # {}
              THEN {<<p, tn>> : p \in {"skip_p_", "event_e_", "event_s_"}}
              ELSE {})
        \cup (IF Score.active[tn] THEN {} ELSE {MixOut(tn)})

-----------------------------------------------------------------------------
(* visit(EventModel)                                                       *)

EventPoint(ev) ==
    LET tn == SyncPoint(Score.syncOf[ev])
    IN  [kind |-> "Point", name |-> Name(ev),
         condition |-> PointCondition(ev).op, conditionValue |-> PointCondition(ev).value,
         en |-> <<"en_", ev>>, conditionMessage |-> <<"msg", ev>>,
         event |-> <<"event_", ev>>, urgent |-> TRUE,
         event_s |-> tn.event_e, skip_p |-> tn.skip, event_e |-> <<"emax_", ev>>,
         kill_p |-> SelfOfSync(Score.syncOf[ev]).kill,
         skip |-> <<"skip_", ev>>, event_t |-> <<"ok_", ev>>]

\* Faulty: the Mix listens to what it should emit.
EventMixBackwards(ev) ==
    [kind |-> "Mix", name |-> <<"Mix", ev>>,
     event_in |-> EventPoint(ev).event_e, event_out |-> EventPoint(ev).event_s,
     skip_p |-> EventPoint(ev).skip_p, kill_p |-> EventPoint(ev).kill_p]

EventMix(ev) ==
    [kind |-> "Mix", name |-> <<"Mix", ev>>,
     event_in |-> EventPoint(ev).event_s, event_out |-> EventPoint(ev).event_e,
     skip_p |-> EventPoint(ev).skip_p, kill_p |-> EventPoint(ev).kill_p]

EventEvent(ev) ==
    [kind |-> "Event", name |-> <<"Event", ev>>, message |-> <<"msg", ev>>,
     event |-> <<"emax_", ev>>, date |-> Ticks(Score.date[Score.syncOf[ev]]), val |-> 0]

EventElements(ev) ==
    {EventPoint(ev), EventEvent(ev)}
        \cup {EventMix(x) : x \in {ev} \ DOMAIN Score.expression}

EventBroadcasts(ev) == {<<p, ev>> : p \in {"skip_", "event_", "ok_", "emax_"}}

-----------------------------------------------------------------------------
(* visit(IntervalModel)                                                    *)

RigidElement(i) ==
    LET s == Self(ScenarioOfInterval(i))
    IN  [kind |-> "Rigid", name |-> Name(i), dur |-> Ticks(Score.dur[i]),
         event_s |-> <<"ok_", Score.startEvent[i]>>, event_e1 |-> EndChannels(i).event_e1,
         skip_p |-> s.skip, kill_p |-> s.kill, skip |-> EndChannels(i).skip,
         kill |-> <<"kill_", i>>, event_e2 |-> EndChannels(i).event_e2]

\* Faulty: the minimum is told as the end.
FlexibleMinIsEnd(i) ==
    LET s == Self(ScenarioOfInterval(i))
    IN  [kind |-> "Flexible", name |-> Name(i), dmin |-> Ticks(Score.min[i]),
         dmax |-> IF Score.infinite[i] THEN 0 ELSE Ticks(Score.max[i]),
         finite |-> ~Score.infinite[i],
         event_s |-> <<"ok_", Score.startEvent[i]>>, event_min |-> EndChannels(i).event_e2,
         event_i |-> EndChannels(i).event_e2, event_max |-> EndChannels(i).event_e2,
         skip_p |-> s.skip, kill_p |-> s.kill, skip |-> EndChannels(i).skip,
         kill |-> <<"kill_", i>>]

FlexibleElement(i) ==
    LET s == Self(ScenarioOfInterval(i))
    IN  [kind |-> "Flexible", name |-> Name(i), dmin |-> Ticks(Score.min[i]),
         dmax |-> IF Score.infinite[i] THEN 0 ELSE Ticks(Score.max[i]),
         finite |-> ~Score.infinite[i],
         event_s |-> <<"ok_", Score.startEvent[i]>>, event_min |-> EndChannels(i).event_e1,
         event_i |-> EndChannels(i).event_e2, event_max |-> EndChannels(i).event_e2,
         skip_p |-> s.skip, kill_p |-> s.kill, skip |-> EndChannels(i).skip,
         kill |-> <<"kill_", i>>]

IntervalElement(i) == IF Score.rigid[i] THEN RigidElement(i) ELSE FlexibleElement(i)

IntervalBroadcasts(i) == {<<"ok_", Score.startEvent[i]>>, EndChannels(i).skip, <<"kill_", i>>}

-----------------------------------------------------------------------------
(* makeScenario: the root interval, the global events, and what the        *)
(* visitors of its scenarios, nested ones included, insert.                *)

Base ==
    LET r == Score.root
    IN  [kind |-> "Flexible", name |-> Name(r), dmin |-> 0, dmax |-> 0, finite |-> FALSE,
         event_s |-> GlobalStart, event_min |-> <<"event_e1", r>>, event_i |-> GlobalEnd,
         event_max |-> <<"event_e2", r>>, skip_p |-> <<"skip_p", r>>,
         kill_p |-> <<"kill_p", r>>, skip |-> <<"skip", r>>, kill |-> <<"kill", r>>]

MainStartEvent ==
    [kind |-> "Event", name |-> <<"MainStartEvent">>, message |-> <<"msg_start">>,
     event |-> GlobalStart, date |-> 0, val |-> 1]

MainEndEvent ==
    [kind |-> "Event", name |-> <<"MainEndEvent">>, message |-> <<"msg_end">>,
     event |-> GlobalEnd, date |-> Ticks(EndDate), val |-> 1]

\* Faulty: the end of the play skips instead of killing.
EndMixSkips ==
    [kind |-> "Mix", name |-> <<"EndMix">>, event_in |-> Base.event_max,
     event_out |-> Base.skip, skip_p |-> Base.skip_p, kill_p |-> Base.kill_p]

EndMix ==
    [kind |-> "Mix", name |-> <<"EndMix">>, event_in |-> Base.event_max,
     event_out |-> Base.kill, skip_p |-> Base.skip_p, kill_p |-> Base.kill_p]

Printed ==
    {Base, MainStartEvent, MainEndEvent, EndMix}
        \cup (UNION {SyncElements(tn) : tn \in Score.syncs})
        \cup (UNION {EventElements(ev) : ev \in Score.events})
        \cup {IntervalElement(i) : i \in Score.intervals}

Broadcasts ==
    {Base.event_min, Base.event_i, Base.event_max, Base.skip, Base.kill, Base.skip_p,
     Base.kill_p}
        \cup (UNION {{Self(s).event_s, Self(s).skip, Self(s).kill} : s \in Score.scenarios})
        \cup (UNION {SyncBroadcasts(tn) : tn \in Score.syncs})
        \cup (UNION {EventBroadcasts(ev) : ev \in Score.events})
        \cup (UNION {IntervalBroadcasts(i) : i \in Score.intervals})

\* name() prints the path of an object in the document with a letter for its
\* kind, and no path ends like the prefixes: no two elements have one name.
NamesDistinct == \A e, f \in Printed : e.name = f.name => e = f

\* The network as TANetwork reads it.
Network ==
    LET printed == Printed
    IN  [n \in {e.name : e \in printed} |-> CHOOSE e \in printed : e.name = n]

-----------------------------------------------------------------------------
(* What UPPAAL needs of the printed text.                                  *)

ChannelsOf(e) ==
    CASE e.kind \in {"Event", "Event_ND"} -> {e.event}
      [] e.kind = "Rigid" ->
            {e.event_s, e.event_e1, e.skip_p, e.kill_p, e.skip, e.kill, e.event_e2}
      [] e.kind = "Flexible" ->
            {e.event_s, e.event_min, e.event_i, e.event_max, e.skip_p, e.kill_p, e.skip, e.kill}
      [] e.kind = "Mix" -> {e.event_in, e.event_out, e.skip_p, e.kill_p}
      [] e.kind = "Control" ->
            {e.event_s1, e.skip_p, e.skip, e.event_e, e.kill_p, e.event_s2}
      [] e.kind = "Point" ->
            {e.event, e.event_s, e.skip_p, e.event_e, e.kill_p, e.skip, e.event_t}

\* Every channel an element is instantiated with is declared.
ChannelsDeclared ==
    LET declared == Broadcasts
    IN  \A e \in Printed : ChannelsOf(e) \subseteq declared
=============================================================================
