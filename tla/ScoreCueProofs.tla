--------------------------- MODULE ScoreCueProofs ---------------------------
(***************************************************************************)
(* Proofs about the cues of the network that TAConversion prints: the end  *)
(* of the play, merges, triggers, and the start of what an interval holds. *)
(***************************************************************************)
EXTENDS ScoreNetworkProofs, SumProofs

-----------------------------------------------------------------------------
(* The end of the play.                                                    *)

Root == loc[Name(Score.root)]

\* How far the end has got: MainEndEvent ends the root interval, whose end
\* the Mix hears, whose kill every interval of the scenario of the root hears.
EndInv ==
    /\ Root # "killed"
    /\ loc[<<"MainStartEvent">>] = "finished" => Root # "idle"
    /\ now > 0 => Root \notin {"idle", "wait_min"}
    /\ loc[<<"MainEndEvent">>] = "finished" => Root \in {"id15", "finished"}
    /\ Root = "finished" => loc[<<"EndMix">>] # "idle"
    /\ loc[<<"EndMix">>] = "finished" =>
          \A i \in Score.intervals : HolderOf(i) = Score.root =>
              Interval(i) \in {"id7", "id15", "killed", "finished"}

\* The automata makeScenario adds around those of the score.
LEMMA MainNamed ==
    /\ <<"MainStartEvent">> \in Events /\ Decl[<<"MainStartEvent">>] = MainStartEvent
    /\ <<"MainEndEvent">> \in Events /\ Decl[<<"MainEndEvent">>] = MainEndEvent
    /\ <<"EndMix">> \in Mixs /\ Decl[<<"EndMix">>] = EndMix
    /\ Name(Score.root) \in Flexibles /\ Decl[Name(Score.root)] = Base
    /\ {<<"MainStartEvent">>, <<"MainEndEvent">>, <<"EndMix">>, Name(Score.root)} \subseteq Elements
BY PrintedKinds, IsPrinted, Named, BaseNamed DEF Events, Mixs, Flexibles, OfKind

LEMMA BaseIs ==
    /\ Base.event_s = GlobalStart /\ Base.event_i = GlobalEnd
    /\ Base.event_max = <<"event_e2", Score.root>> /\ Base.kill_p = <<"kill_p", Score.root>>
    /\ Base.finite = FALSE /\ Base.dmin = 0
    /\ EndMix.event_in = <<"event_e2", Score.root>> /\ EndMix.kill_p = <<"kill_p", Score.root>>
    /\ EndMix.event_out = <<"kill", Score.root>>
    /\ MainStartEvent.event = GlobalStart /\ MainStartEvent.date = 0
    /\ MainEndEvent.event = GlobalEnd /\ MainEndEvent.date = Ticks(EndDate)
BY DEF Base, EndMix, MainStartEvent, MainEndEvent

\* The root interval starts on the start of the play, is never killed, and
\* ends on the end of the play only.
LEMMA RootHears ==
    ASSUME IInv, EndInv, NEW n \in Elements, NEW c, NEW target, NEW m,
           Speaks(n, c, target), Broadcast(n, c, target, m)
    PROVE  IF n = Name(Score.root)
           THEN \/ Root = "wait_min" /\ Root' \in {"flexible", "semi_flexible"}
                \/ Root = "id15" /\ Root' = "finished" /\ c = <<"event_e2", Score.root>>
           ELSE \/ Root = "idle" /\ c = GlobalStart /\ Root' = "wait_min"
                \/ Root = "flexible" /\ c = GlobalEnd /\ Root' = "id15"
                \/ /\ Root' = Root /\ ~(Root = "idle" /\ c = GlobalStart)
                   /\ ~(Root = "flexible" /\ c = GlobalEnd)
<1>1. /\ c[1] \notin SkipPrefixes /\ c[1] # "kill_p"
      /\ target \in {"finished", "id7", "flexible", "semi_flexible", "id28"}
  BY SaidPrefixes, WhoSays
<1>2. CASE n = Name(Score.root)
  <2>1. /\ n \in Flexibles /\ n \notin Rigids /\ n \notin Mixs /\ n \notin Controls
        /\ n \notin Points /\ n \notin Events \cup EventsND
    BY <1>2, MainNamed
       DEF Flexibles, Rigids, Mixs, Controls, Points, Events, EventsND, OfKind
  <2>2. Root' = target
    BY <1>2, BroadcastEffect DEF Root
  <2>3. Root # "killed" /\ Root = loc[n]
    BY <1>2 DEF EndInv, Root
  <2>4. CASE EndSpeaks(n, c, target)
    BY <1>2, <2>1, <2>2, <2>3, <2>4 DEF EndSpeaks
  <2>5. CASE OverSpeaks(n, c, target)
    BY <1>2, <2>1, <2>2, <2>3, <2>5, MainNamed, BaseIs DEF OverSpeaks
  <2> QED BY <2>1, <2>3, <2>4, <2>5
          DEF Speaks, KillSpeaks, MixSpeaks, ControlSpeaks, PointSpeaks, EventSpeaks
<1>3. CASE n # Name(Score.root)
  <2>1. Root' = After(Name(Score.root), c)
    BY <1>3, MainNamed, BroadcastEffect DEF Root
  <2>2. c # Decl[Name(Score.root)].kill_p
    BY <1>1, MainNamed, BaseIs
  <2>3. /\ Decl[Name(Score.root)].event_s = GlobalStart
        /\ Decl[Name(Score.root)].event_i = GlobalEnd
        /\ Name(Score.root) \in Flexibles
    BY MainNamed, BaseIs
  <2>4. Root # "semi_flexible"
    BY MainNamed, BaseIs DEF IInv, ClocksInBounds, Root
  <2> QED BY <1>1, <1>3, <2>1, <2>2, <2>3, <2>4, FlexibleHears DEF Root
<1> QED BY <1>2, <1>3

\* The Mix of the end waits for the root interval to end, then kills.
LEMMA EndMixHears ==
    ASSUME IInv, NEW n \in Elements, NEW c, NEW target, NEW m,
           Speaks(n, c, target), Broadcast(n, c, target, m)
    PROVE  IF n = <<"EndMix">>
           THEN /\ loc[<<"EndMix">>] = "id22" /\ loc'[<<"EndMix">>] = "finished"
                /\ c = <<"kill", Score.root>>
           ELSE IF c = <<"event_e2", Score.root>>
           THEN loc'[<<"EndMix">>] # "idle" /\ (loc'[<<"EndMix">>] = "finished"
                                                    => loc[<<"EndMix">>] = "finished")
           ELSE loc'[<<"EndMix">>] = loc[<<"EndMix">>]
<1>1. /\ c[1] \notin SkipPrefixes /\ c # <<"kill_p", Score.root>>
      /\ target \in {"finished", "id7", "flexible", "semi_flexible", "id28"}
  BY SaidPrefixes, WhoSays
<1>2. CASE n = <<"EndMix">>
  <2>1. /\ n \in Mixs /\ n \notin Rigids /\ n \notin Flexibles /\ n \notin Controls
        /\ n \notin Points /\ n \notin Events \cup EventsND
    BY <1>2, MainNamed
       DEF Flexibles, Rigids, Mixs, Controls, Points, Events, EventsND, OfKind
  <2>2. MixSpeaks(n, c, target)
    BY <2>1 DEF Speaks, EndSpeaks, OverSpeaks, KillSpeaks, ControlSpeaks, PointSpeaks,
                EventSpeaks, Intervals
  <2> QED BY <1>2, <2>2, MainNamed, BaseIs, BroadcastEffect DEF MixSpeaks
<1>3. CASE n # <<"EndMix">>
  <2>1. loc'[<<"EndMix">>] = After(<<"EndMix">>, c)
    BY <1>3, MainNamed, BroadcastEffect
  <2>2. CASE c = <<"event_e2", Score.root>> /\ loc[<<"EndMix">>] = "idle"
    <3>1. <<"idle", <<"event_e2", Score.root>>, "id22">> \in Inputs(<<"EndMix">>)
      <4>1. Inputs(<<"EndMix">>) = MixInputs(EndMix)
        BY MainNamed DEF Inputs, InputsWhen, Rigids, Flexibles, Mixs, Controls, Points, OfKind
      <4> QED BY <4>1, BaseIs DEF MixInputs
    <3>2. After(<<"EndMix">>, c) = "id22"
      BY <2>2, <3>1, MainNamed, Hears
    <3> QED BY <1>3, <2>1, <2>2, <3>2
  <2>3. CASE ~(c = <<"event_e2", Score.root>> /\ loc[<<"EndMix">>] = "idle")
    <3>1. After(<<"EndMix">>, c) = loc[<<"EndMix">>]
      BY <1>1, <2>3, MainNamed, BaseIs, MixHears
    <3> QED BY <1>3, <2>1, <2>3, <3>1
  <2> QED BY <2>2, <2>3
<1> QED BY <1>2, <1>3

\* MainStartEvent and MainEndEvent say what they say, and hear nothing.
LEMMA MainSays ==
    ASSUME NEW n \in Elements, NEW c, NEW target, NEW m,
           Speaks(n, c, target), Broadcast(n, c, target, m)
    PROVE  /\ \A x \in {<<"MainStartEvent">>, <<"MainEndEvent">>} :
                 loc'[x] = IF n = x THEN "finished" ELSE loc[x]
           /\ n = <<"MainStartEvent">> => c = GlobalStart
           /\ n = <<"MainEndEvent">> => c = GlobalEnd /\ now = Ticks(EndDate)
<1>1. ASSUME NEW x \in {<<"MainStartEvent">>, <<"MainEndEvent">>}
      PROVE  loc'[x] = IF n = x THEN "finished" ELSE loc[x]
  <2>1. x \in Events /\ x \in Elements
    BY MainNamed
  <2>2. CASE n = x
    <3>1. EventSpeaks(n, c, target)
      BY <2>1, <2>2 DEF Speaks, EndSpeaks, OverSpeaks, KillSpeaks, MixSpeaks, ControlSpeaks,
                        PointSpeaks, Intervals, Rigids, Flexibles, Mixs, Controls, Points,
                        Events, OfKind
    <3> QED BY <2>2, <3>1, BroadcastEffect DEF EventSpeaks
  <2>3. CASE n # x
    BY <2>1, <2>3, BroadcastEffect, EventAfter
  <2> QED BY <2>2, <2>3
<1>2. ASSUME n \in Events PROVE c = Decl[n].event /\ now = Decl[n].date
  BY <1>2 DEF Speaks, EndSpeaks, OverSpeaks, KillSpeaks, MixSpeaks, ControlSpeaks, PointSpeaks,
              EventSpeaks, Intervals, Rigids, Flexibles, Mixs, Controls, Points, Events, OfKind
<1> QED BY <1>1, <1>2, MainNamed, BaseIs

\* The locations an interval of the score can be in, without skips.
LEMMA IntervalLocations ==
    ASSUME IInv, NeverSkipped, NEW i \in Score.intervals
    PROVE  Interval(i) \in {"idle", "wait", "id7", "wait_min", "flexible", "semi_flexible",
                            "id15", "killed", "finished"}
<1>1. Name(i) \in Rigids \cup Flexibles /\ Name(i) \in Elements
  BY IntervalNamed DEF Intervals, Rigids, Flexibles, OfKind
<1>2. Interval(i) # "skipped" /\ Interval(i) \in LocationsOf(Decl[Name(i)].kind)
  BY <1>1 DEF IInv, TypeOK, NeverSkipped, Interval
<1>3. CASE Name(i) \in Rigids
  BY <1>2, <1>3, TemplateLocations
<1>4. CASE Name(i) \in Flexibles
  BY <1>2, <1>4, TemplateLocations
<1> QED BY <1>1, <1>3, <1>4

LEMMA EndInvInit == Init => EndInv
<1> SUFFICES ASSUME Init PROVE EndInv
  OBVIOUS
<1>1. /\ Root = "idle" /\ loc[<<"EndMix">>] = "idle" /\ now = 0
      /\ loc[<<"MainStartEvent">>] = "waiting" /\ loc[<<"MainEndEvent">>] = "waiting"
  BY MainNamed DEF Init, Root, Flexibles, Mixs, Events, OfKind
<1> QED BY <1>1 DEF EndInv

LEMMA EndInvNext ==
    ASSUME Ticks(EndDate) > 0, IInv, NeverSkipped, EndInv, [Next]_vars
    PROVE  EndInv'
<1> DEFINE ms == <<"MainStartEvent">>
           me == <<"MainEndEvent">>
           mx == <<"EndMix">>
           rt == Name(Score.root)
<1>0. /\ Root \in {"idle", "wait_min", "flexible", "id15", "finished"}
      /\ loc[ms] \in {"waiting", "finished"} /\ loc[me] \in {"waiting", "finished"}
      /\ loc[mx] \in {"idle", "id22", "finished"}
      /\ now \in Nat
  <2>1. /\ Root \in {"idle", "wait_min", "flexible", "semi_flexible", "id15", "skipped",
                      "killed", "finished"}
        /\ loc[ms] \in {"waiting", "finished"} /\ loc[me] \in {"waiting", "finished"}
        /\ loc[mx] \in {"idle", "id22", "finished"}
    BY MainNamed, TemplateLocations DEF IInv, TypeOK, Root
  <2>2. Root # "semi_flexible"
    BY MainNamed, BaseIs DEF IInv, ClocksInBounds, Root
  <2>3. Root \notin {"skipped", "killed"}
    BY MainNamed DEF NeverSkipped, EndInv, Root
  <2>4. now \in Nat
    BY HorizonAssumption DEF IInv, TypeOK
  <2> QED BY <2>1, <2>2, <2>3, <2>4
<1>1. ASSUME NEW n \in Elements, NEW c, NEW target, NEW m,
             Speaks(n, c, target), Broadcast(n, c, target, m)
      PROVE  EndInv'
  <2>1. now' = now
    BY <1>1, BroadcastEffect
  <2>2. /\ loc'[ms] = IF n = ms THEN "finished" ELSE loc[ms]
        /\ loc'[me] = IF n = me THEN "finished" ELSE loc[me]
        /\ n = ms => c = GlobalStart
        /\ n = me => c = GlobalEnd /\ now = Ticks(EndDate)
    BY <1>1, MainSays
  <2>3. rt \notin {ms, me, mx} /\ mx \notin {ms, me}
    BY MainNamed DEF Flexibles, Mixs, Events, OfKind
  <2>4. IF n = rt
        THEN \/ Root = "wait_min" /\ Root' \in {"flexible", "semi_flexible"}
             \/ Root = "id15" /\ Root' = "finished" /\ c = <<"event_e2", Score.root>>
        ELSE \/ Root = "idle" /\ c = GlobalStart /\ Root' = "wait_min"
             \/ Root = "flexible" /\ c = GlobalEnd /\ Root' = "id15"
             \/ /\ Root' = Root /\ ~(Root = "idle" /\ c = GlobalStart)
                /\ ~(Root = "flexible" /\ c = GlobalEnd)
    BY <1>1, RootHears
  <2>5. IF n = mx
        THEN /\ loc[mx] = "id22" /\ loc'[mx] = "finished" /\ c = <<"kill", Score.root>>
        ELSE IF c = <<"event_e2", Score.root>>
        THEN loc'[mx] # "idle" /\ (loc'[mx] = "finished" => loc[mx] = "finished")
        ELSE loc'[mx] = loc[mx]
    BY <1>1, EndMixHears
  <2>6. Root' # "killed" /\ (now' > 0 => Root' \notin {"idle", "wait_min"})
    BY <1>0, <2>1, <2>4 DEF EndInv
  <2>7. loc'[ms] = "finished" => Root' # "idle"
    BY <1>0, <2>2, <2>3, <2>4 DEF EndInv
  <2>8. loc'[me] = "finished" => Root' \in {"id15", "finished"}
    BY <1>0, <2>2, <2>3, <2>4 DEF EndInv
  <2>9. Root' = "finished" => loc'[mx] # "idle"
    BY <1>0, <2>3, <2>4, <2>5 DEF EndInv
  <2>10. ASSUME loc'[mx] = "finished", NEW i \in Score.intervals, HolderOf(i) = Score.root
         PROVE  Interval(i)' \in {"id7", "id15", "killed", "finished"}
    <3>1. CASE n = mx
      <4>1. c = KillOf(i) /\ c = <<"kill", Score.root>>
        BY <2>5, <2>10, <3>1, KillOfIs DEF Kills
      <4>a. n # Name(i)
        BY <3>1, IntervalNamed, MainNamed DEF Intervals, Rigids, Flexibles, Mixs, OfKind
      <4>2. Interval(i) \in {"idle", "wait", "id7", "wait_min", "flexible", "semi_flexible",
                             "id15", "killed", "finished"}
        BY IntervalLocations
      <4>3. \/ /\ Interval(i)' = Interval(i)
               /\ Interval(i) \notin {"idle", "wait", "wait_min", "flexible", "semi_flexible"}
            \/ c = <<"ok_", Score.startEvent[i]>>
            \/ Interval(i)' \in {"id15", "killed"}
        BY <1>1, <4>1, <4>a, IntervalHears
      <4> QED BY <4>1, <4>2, <4>3
    <3>2. CASE n # mx
      <4>1. Interval(i) \in {"id7", "id15", "killed", "finished"}
        BY <2>5, <2>10, <3>2 DEF EndInv
      <4> QED BY <4>1, IntervalSteps
    <3> QED BY <3>1, <3>2
  <2> QED BY <2>6, <2>7, <2>8, <2>9, <2>10 DEF EndInv
<1>2. ASSUME NEW n, \/ n \in Flexibles /\ FlexibleReachesMax(n)
                    \/ n \in Controls /\ ControlWaits(n)
      PROVE  EndInv'
  <2>1. /\ \A x \in {rt, ms, me, mx} : loc'[x] = loc[x]
        /\ now' = now
    <3>1. n \in Flexibles => Decl[n].finite
      BY <1>2 DEF FlexibleReachesMax, IInv, ClocksInBounds, Controls, Flexibles, OfKind
    <3>2. n \notin {rt, ms, me, mx}
      BY <1>2, <3>1, MainNamed, BaseIs DEF Flexibles, Controls, Mixs, Events, OfKind
    <3> QED BY <1>2, <3>2, MainNamed DEF FlexibleReachesMax, ControlWaits, IInv, TypeOK
  <2>2. Root' = Root
    BY <2>1 DEF Root
  <2>3. \A i \in Score.intervals :
           Interval(i) \in {"id7", "id15", "killed", "finished"} =>
               Interval(i)' \in {"id7", "id15", "killed", "finished"}
    BY IntervalSteps
  <2> QED BY <2>1, <2>2, <2>3 DEF EndInv
<1>3. CASE Delay
  <2>1. loc' = loc /\ now' = now + 1 /\ MayDelay
    BY <1>3 DEF Delay
  <2>2. loc[ms] # "waiting"
    BY <1>0, <2>1, MainNamed, BaseIs DEF MayDelay
  <2>3. Root \notin {"idle", "wait_min"}
    <3>1. Root # "idle"
      BY <1>0, <2>2 DEF EndInv
    <3>2. started[rt] <= now /\ started[rt] \in Int
      BY MainNamed DEF IInv, TypeOK, ClocksInBounds, Intervals
    <3>3. Root = "wait_min" => now - started[rt] < 0
      BY <2>1, MainNamed, BaseIs DEF MayDelay, Root, t
    <3> QED BY <1>0, <3>1, <3>2, <3>3
  <2>4. Root' = Root /\ \A i : Interval(i)' = Interval(i)
    BY <2>1 DEF Root, Interval
  <2> QED BY <2>1, <2>3, <2>4 DEF EndInv
<1>4. CASE UNCHANGED vars
  BY <1>4 DEF vars, EndInv, Root, Interval
<1> QED BY <1>1, <1>2, <1>3, <1>4, StepIs

\* What StoppedAtEnd says of the intervals that no interval of the score holds.
TopStopped ==
    now > Ticks(EndDate) =>
        \A i \in Score.intervals : HolderOf(i) = Score.root => Interval(i) = "finished"

LEMMA TopStoppedNext ==
    ASSUME IInv, NeverSkipped, EndInv, TopStopped, [Next]_vars
    PROVE  TopStopped'
<1> SUFFICES ASSUME now' > Ticks(EndDate), NEW i \in Score.intervals, HolderOf(i) = Score.root
             PROVE  Interval(i)' = "finished"
  BY DEF TopStopped
<1>0. now \in Nat /\ Ticks(EndDate) \in Int
  BY HorizonAssumption, FactorAssumption DEF IInv, TypeOK, Ticks
<1>1. CASE now' = now
  <2>1. Interval(i) = "finished"
    BY <1>1 DEF TopStopped
  <2> QED BY <2>1, IntervalSteps
<1>2. CASE Delay /\ now = Ticks(EndDate)
  <2>1. loc' = loc /\ MayDelay
    BY <1>2 DEF Delay
  <2>2. \A n \in Elements :
           loc[n] \notin {"id15", "id22", "killed", "id7"}
    BY <2>1 DEF MayDelay, CommittedLocations, UrgentLocations
  <2>3. loc[<<"MainEndEvent">>] = "finished"
    <3>1. loc[<<"MainEndEvent">>] # "waiting"
      BY <1>0, <1>2, <2>1, MainNamed, BaseIs DEF MayDelay
    <3> QED BY <3>1, MainNamed, TemplateLocations DEF IInv, TypeOK
  <2>4. Root = "finished"
    BY <2>2, <2>3, MainNamed DEF EndInv, Root
  <2>5. loc[<<"EndMix">>] = "finished"
    BY <2>2, <2>4, MainNamed, TemplateLocations DEF EndInv, IInv, TypeOK
  <2>6. Interval(i) = "finished"
    BY <1>0, <2>2, <2>5, IntervalNamed
       DEF EndInv, Interval, Intervals, Rigids, Flexibles, OfKind
  <2> QED BY <2>1, <2>6 DEF Interval
<1>3. CASE Delay /\ now # Ticks(EndDate)
  <2>1. loc' = loc /\ now' = now + 1
    BY <1>3 DEF Delay
  <2>2. Interval(i) = "finished"
    BY <1>0, <1>3, <2>1 DEF TopStopped
  <2> QED BY <2>1, <2>2 DEF Interval
<1>4. now' = now \/ Delay
  BY StepIs, BroadcastEffect DEF FlexibleReachesMax, ControlWaits, vars
<1> QED BY <1>1, <1>2, <1>3, <1>4

\* In every score, past the date of MainEndEvent no interval that the root
\* interval holds waits or runs: the end reaches the root interval, EndMix and
\* each of these intervals before the date changes.
THEOREM TopIsStopped ==
    ASSUME Ticks(EndDate) > 0
    PROVE  Spec => []TopStopped
<1>1. Init => EndInv
  BY EndInvInit
<1>2. Init => TopStopped
  BY FactorAssumption DEF Init, TopStopped, Ticks
<1>3. IInv /\ NeverSkipped /\ EndInv /\ [Next]_vars => EndInv'
  BY EndInvNext
<1>4. IInv /\ NeverSkipped /\ EndInv /\ TopStopped /\ [Next]_vars => TopStopped'
  BY TopStoppedNext
<1> QED BY <1>1, <1>2, <1>3, <1>4, Invariance, NothingIsSkipped, PTL DEF Spec

\* No scenario is held by an interval of the score: one that outlives the
\* interval that holds it is not stopped with the others (TAConversion.hpp:235).
AllAtTop == \A s \in Score.scenarios : Score.parent[s] = Score.root

\* Without nested scenarios these are all the intervals there are.
THEOREM PlayIsStopped ==
    ASSUME AllAtTop, Ticks(EndDate) > 0
    PROVE  Spec => []StoppedAtEnd
<1>1. TopStopped => StoppedAtEnd
  BY References DEF TopStopped, StoppedAtEnd, AllAtTop, HolderOf
<1> QED BY <1>1, TopIsStopped, PTL

-----------------------------------------------------------------------------
(* Merges: nobody tells a Control that still waits that an interval ends.  *)

\* No interval that reaches a merge ends by itself: of two that do, the first
\* to end would tell it while the Control still waits for the other.
MergesUnforced ==
    \A i \in Score.intervals :
        IsMerge(EndSync(i)) => ~Score.rigid[i] /\ Score.infinite[i]

\* What can tell the end of the intervals that reach a merge comes after its Control.
Released(tn) == loc[ControlName(tn)] = "finished"
ToldAfterControl ==
    \A tn \in Score.syncs : IsMerge(tn) =>
        /\ loc[Name(tn)] \in {"enabled", "cond_true", "timeout", "id28"} => Released(tn)
        /\ \A i \in Previous(tn) : Interval(i) = "id15" => Released(tn)

\* Who says that the intervals before a sync end: one of them, or its trigger.
LEMMA WhoTellsEnd ==
    ASSUME NEW tn \in Score.syncs, Previous(tn) # {},
           NEW n, NEW c, NEW target, Speaks(n, c, target), c = SyncChannels(tn).event_e
    PROVE  \/ \E i \in Previous(tn) :
                 /\ n = Name(i) /\ Interval(i) = IF Score.rigid[i] THEN "id7" ELSE "id15"
           \/ n = Name(tn) /\ loc[n] = "id28" /\ Score.active[tn]
<1>1. c \in {<<"event_s2_Control_", tn>>, <<"event_e_", tn>>}
  BY SyncTells
<1>2. CASE OverSpeaks(n, c, target)
  <2>1. PICK i \in Score.intervals :
           /\ n = Name(i) /\ c = EndChannels(i).event_e2
           /\ Interval(i) = IF Score.rigid[i] THEN "id7" ELSE "id15"
    BY <1>1, <1>2, WhoIsOver
  <2>2. EndSync(i) = tn
    BY <1>1, <2>1, IntervalTells
  <2>3. i \in Previous(tn)
    BY <2>2 DEF Previous
  <2> QED BY <2>1, <2>3
<1>3. CASE PointSpeaks(n, c, target)
  <2>1. PICK x \in Score.syncs : n = Name(x) /\ loc[n] = "id28" /\ c = SyncPoint(x).event_e
    BY <1>1, <1>3, WhoTriggers
  <2>2. Score.active[x] /\ c = SyncChannels(x).event_e
    BY <1>1, <2>1, SyncTells DEF MixOut
  <2>3. x = tn
    BY <2>2, TellAlike
  <2> QED BY <2>1, <2>2, <2>3
<1> QED BY <1>1, <1>2, <1>3, WhoSays

LEMMA ToldWhenReleased ==
    ASSUME MergesUnforced, ToldAfterControl,
           NEW tn \in Score.syncs, IsMerge(tn), NEW n, NEW c, NEW target,
           Speaks(n, c, target), c = <<"event_s2_Control_", tn>>
    PROVE  Released(tn)
<1>1. c = SyncChannels(tn).event_e /\ Previous(tn) # {}
  <2>1. Previous(tn) # {}
    BY FS_EmptySet DEF IsMerge
  <2> QED BY <2>1, SyncTells
<1>2. \A i \in Previous(tn) : ~Score.rigid[i]
  BY DEF MergesUnforced, Previous
<1> QED BY <1>1, <1>2, WhoTellsEnd DEF ToldAfterControl

\* A Control that has released its merge has done its work.
LEMMA ReleasedStays ==
    ASSUME IInv, NeverSkipped, [Next]_vars, NEW tn \in Score.syncs, IsMerge(tn), Released(tn)
    PROVE  Released(tn)'
<1>0. ControlName(tn) \in Controls /\ ControlName(tn) \in Elements
  BY SyncNamed DEF Controls, OfKind
<1>1. ASSUME NEW n \in Elements, NEW c, NEW target, NEW m,
             Speaks(n, c, target), Broadcast(n, c, target, m)
      PROVE  Released(tn)'
  <2>1. n # ControlName(tn)
    BY <1>0, <1>1 DEF Released, Speaks, EndSpeaks, OverSpeaks, KillSpeaks, MixSpeaks,
                      ControlSpeaks, PointSpeaks, EventSpeaks, Intervals, Rigids, Flexibles,
                      Mixs, Controls, Points, Events, EventsND, OfKind
  <2> QED BY <1>1, <2>1, MergeHears DEF Released
<1>2. ASSUME NEW n, \/ n \in Flexibles /\ FlexibleReachesMax(n)
                    \/ n \in Controls /\ ControlWaits(n)
      PROVE  Released(tn)'
  <2>1. n # ControlName(tn)
    BY <1>0, <1>2 DEF Released, ControlWaits, Flexibles, Controls, OfKind
  <2> QED BY <1>0, <1>2, <2>1 DEF Released, FlexibleReachesMax, ControlWaits, IInv, TypeOK
<1>3. CASE Delay \/ UNCHANGED vars
  BY <1>3 DEF Delay, vars, Released
<1> QED BY <1>1, <1>2, <1>3, StepIs

LEMMA ToldAfterControlNext ==
    ASSUME MergesUnforced, IInv, NeverSkipped, ToldAfterControl, [Next]_vars
    PROVE  ToldAfterControl'
<1> DEFINE Told == {"enabled", "cond_true", "timeout", "id28"}
<1> SUFFICES ASSUME NEW tn \in Score.syncs, IsMerge(tn), ~Released(tn)
             PROVE  \/ Released(tn)'
                    \/ /\ loc'[Name(tn)] \notin Told
                       /\ \A i \in Previous(tn) : Interval(i)' # "id15"
  BY ReleasedStays DEF ToldAfterControl
<1>0. /\ loc[Name(tn)] \notin Told
      /\ \A i \in Previous(tn) :
            /\ i \in Score.intervals /\ EndSync(i) = tn /\ Interval(i) # "id15"
            /\ ~Score.rigid[i] /\ Score.infinite[i]
  BY DEF ToldAfterControl, MergesUnforced, Previous
<1>1. ASSUME NEW n \in Elements, NEW c, NEW target, NEW m,
             Speaks(n, c, target), Broadcast(n, c, target, m), ~Released(tn)'
      PROVE  /\ loc'[Name(tn)] \notin Told
             /\ \A i \in Previous(tn) : Interval(i)' # "id15"
  <2>1. c # <<"event_s2_Control_", tn>>
    BY <1>1, ToldWhenReleased
  <2>2. c # <<"event_e_Control_", tn>>
    <3>1. ASSUME c = <<"event_e_Control_", tn>> PROVE n = ControlName(tn) /\ target = "finished"
      <4>1. ControlSpeaks(n, c, target)
        BY <1>1, <3>1, WhoSays
      <4> QED BY <3>1, <4>1, WhoReleases DEF ControlSpeaks
    <3> QED BY <1>1, <3>1, BroadcastEffect DEF Released
  <2>3. loc'[Name(tn)] \notin Told
    <3>1. CASE n = Name(tn)
      <4>1. PointSpeaks(n, c, target) => loc[n] \in Told
        BY DEF PointSpeaks
      <4>2. n \in Points
        BY <3>1, SyncNamed
      <4>3. PointSpeaks(n, c, target)
        BY <1>1, <4>2 DEF Speaks, EndSpeaks, OverSpeaks, KillSpeaks, MixSpeaks, ControlSpeaks,
                          EventSpeaks, Intervals, Rigids, Flexibles, Mixs, Controls, Points,
                          Events, EventsND, OfKind
      <4> QED BY <1>0, <3>1, <4>1, <4>3
    <3>2. CASE n # Name(tn)
      <4>1. c # SyncChannels(tn).event_s
        BY <2>2, SyncTells
      <4>2. \/ loc'[Name(tn)] = "finished" \/ loc'[Name(tn)] = loc[Name(tn)]
            \/ loc[Name(tn)] = "enabled"
        BY <1>1, <3>2, <4>1, SyncHears
      <4> QED BY <1>0, <4>2
    <3> QED BY <3>1, <3>2
  <2>4. ASSUME NEW i \in Previous(tn) PROVE Interval(i)' # "id15"
    <3>1. c # EndChannels(i).event_e2
      BY <1>0, <2>1, IntervalTells
    <3>2. CASE n = Name(i)
      BY <1>0, <1>1, <3>2, IntervalSpeaks
    <3>3. CASE n # Name(i)
      BY <1>0, <1>1, <3>1, <3>3, IntervalHears
    <3> QED BY <3>2, <3>3
  <2> QED BY <2>3, <2>4
<1>2. ASSUME \/ \E n \in Flexibles : FlexibleReachesMax(n)
             \/ \E n \in Controls : ControlWaits(n)
             \/ Delay
             \/ UNCHANGED vars
      PROVE  /\ loc'[Name(tn)] \notin Told
             /\ \A i \in Previous(tn) : Interval(i)' # "id15"
  BY <1>0, <1>2, SilentStep, SyncNamed
<1> QED BY <1>1, <1>2, StepIs

LEMMA NoControlErrorNext ==
    ASSUME MergesUnforced, IInv, NeverSkipped, ToldAfterControl, NoControlError, [Next]_vars
    PROVE  NoControlError'
<1> SUFFICES ASSUME NEW x \in Controls PROVE loc'[x] # "error"
  BY DEF NoControlError
<1>0. PICK tn \in Score.syncs : IsMerge(tn) /\ x = ControlName(tn)
  BY ControlIs
<1>1. x \in Elements /\ loc[x] # "error"
  BY DEF NoControlError, Controls, OfKind
<1>2. ASSUME NEW n \in Elements, NEW c, NEW target, NEW m,
             Speaks(n, c, target), Broadcast(n, c, target, m)
      PROVE  loc'[x] # "error"
  <2>1. CASE n = x
    BY <1>2, <2>1, SaidPrefixes, BroadcastEffect
  <2>2. CASE n # x
    BY <1>0, <1>1, <1>2, <2>2, MergeHears, ToldWhenReleased DEF Released
  <2> QED BY <2>1, <2>2
<1>3. ASSUME NEW n, \/ n \in Flexibles /\ FlexibleReachesMax(n)
                    \/ n \in Controls /\ ControlWaits(n)
      PROVE  loc'[x] # "error"
  BY <1>1, <1>3 DEF FlexibleReachesMax, ControlWaits, IInv, TypeOK
<1>4. CASE Delay \/ UNCHANGED vars
  BY <1>1, <1>4 DEF Delay, vars
<1> QED BY <1>2, <1>3, <1>4, StepIs

\* The location "error" of a Control is out of reach when no interval before a
\* merge ends by itself: all of them end on the trigger of the merge, which is
\* listened to only once the Control has heard from every one of them.
THEOREM ControlsDoNotErr ==
    ASSUME MergesUnforced
    PROVE  Spec => []NoControlError
<1>1. Init => ToldAfterControl /\ NoControlError
  <2> SUFFICES ASSUME Init PROVE ToldAfterControl /\ NoControlError
    OBVIOUS
  <2>1. \A n \in Elements : loc[n] \in {"waiting", "idle"}
    BY DEF Init
  <2>2. \A tn \in Score.syncs : Name(tn) \in Elements
    BY SyncNamed DEF Points, OfKind
  <2>3. \A i \in Score.intervals : Name(i) \in Elements
    BY IntervalNamed DEF Intervals, Rigids, Flexibles, OfKind
  <2> QED BY <2>1, <2>2, <2>3
          DEF ToldAfterControl, NoControlError, Interval, Previous, Controls, OfKind
<1>2. IInv /\ NeverSkipped /\ ToldAfterControl /\ [Next]_vars => ToldAfterControl'
  BY ToldAfterControlNext
<1>3. IInv /\ NeverSkipped /\ ToldAfterControl /\ NoControlError /\ [Next]_vars
         => NoControlError'
  BY NoControlErrorNext
<1> QED BY <1>1, <1>2, <1>3, Invariance, NothingIsSkipped, PTL DEF Spec

-----------------------------------------------------------------------------
(* Triggers: what follows one starts after its event.                      *)

\* A trigger on a start sync shares a channel with what opens its scenario,
\* and is passed by when the scenario opens (TAConversion.cpp:425).
NoOpeningTrigger == \A tn \in Score.syncs : Score.active[tn] => Previous(tn) # {}

\* A trigger that nothing else can force.
Guarded(tn) ==
    /\ Score.active[tn] /\ Previous(tn) # {}
    /\ \A i \in Previous(tn) : ~Score.rigid[i] /\ Score.infinite[i]
Triggered(tn) == loc[<<"EventND", tn>>] = "finished"

\* All that its triggering sets going is preceded by its event.
SetOffByTrigger ==
    \A tn \in Score.syncs : Guarded(tn) =>
        /\ loc[Name(tn)] \in {"cond_true", "timeout", "id28"} => Triggered(tn)
        /\ \A i \in Previous(tn) : Interval(i) = "id15" => Triggered(tn)
        /\ \A ev \in Score.events :
              /\ Score.syncOf[ev] = tn
              /\ loc[Name(ev)] \in {"enabled", "cond_true", "timeout"}
              => Triggered(tn)

LEMMA TriggerNamed ==
    ASSUME NEW tn \in Score.syncs, Score.active[tn]
    PROVE  /\ <<"EventND", tn>> \in EventsND /\ <<"EventND", tn>> \in Elements
           /\ Decl[<<"EventND", tn>>] = SyncEvent(tn)
<1>1. /\ SyncEvent(tn).kind = "Event_ND" /\ SyncEvent(tn).name = <<"EventND", tn>>
      /\ SyncEvent(tn) \in Printed
  BY IsPrinted DEF SyncEvent
<1> QED BY <1>1, Named DEF EventsND, OfKind

\* Only the event of a sync says what its point listens to.
LEMMA WhoIsEvent ==
    ASSUME NEW tn \in Score.syncs, Score.active[tn],
           NEW n \in Elements, NEW c, NEW target, Speaks(n, c, target), c = <<"event_", tn>>
    PROVE  n = <<"EventND", tn>> /\ target = "finished"
<1>1. EventSpeaks(n, c, target)
  BY WhoSays
<1>2. n \in Events \cup EventsND /\ c = Decl[n].event /\ target = "finished"
  BY <1>1 DEF EventSpeaks
<1>3. /\ MainStartEvent.event[1] = "global_start" /\ MainEndEvent.event[1] = "global_end"
      /\ \A x : SyncEvent(x).event = <<"event_", x>> /\ EventEvent(x).event = <<"emax_", x>>
  BY DEF MainStartEvent, MainEndEvent, GlobalStart, GlobalEnd, SyncEvent, EventEvent
<1>4. Decl[n] = SyncEvent(tn)
  <2>1. PICK x \in Score.syncs : Decl[n] = SyncEvent(x)
    BY <1>2, <1>3, EventIs
  <2>2. SyncEvent(x).event = <<"event_", x>>
    BY <1>3
  <2> QED BY <1>2, <2>1, <2>2
<1>5. SyncEvent(tn).name = <<"EventND", tn>>
  BY DEF SyncEvent
<1> QED BY <1>2, <1>4, <1>5, Declared

LEMMA TriggeredStays ==
    ASSUME IInv, NeverSkipped, [Next]_vars,
           NEW tn \in Score.syncs, Score.active[tn], Triggered(tn)
    PROVE  Triggered(tn)'
<1> DEFINE e == <<"EventND", tn>>
<1>0. e \in EventsND /\ e \in Elements
  BY TriggerNamed
<1>1. ASSUME NEW n \in Elements, NEW c, NEW target, NEW m,
             Speaks(n, c, target), Broadcast(n, c, target, m)
      PROVE  Triggered(tn)'
  <2>1. n # e
    BY <1>0, <1>1 DEF Triggered, Speaks, EndSpeaks, OverSpeaks, KillSpeaks, MixSpeaks,
                      ControlSpeaks, PointSpeaks, EventSpeaks, Intervals, Rigids, Flexibles,
                      Mixs, Controls, Points, Events, EventsND, OfKind
  <2> QED BY <1>0, <1>1, <2>1, BroadcastEffect, EventAfter DEF Triggered
<1>2. ASSUME NEW n, \/ n \in Flexibles /\ FlexibleReachesMax(n)
                    \/ n \in Controls /\ ControlWaits(n)
      PROVE  Triggered(tn)'
  <2>1. n # e
    BY <1>0, <1>2 DEF EventsND, Flexibles, Controls, OfKind
  <2> QED BY <1>0, <1>2, <2>1 DEF Triggered, FlexibleReachesMax, ControlWaits, IInv, TypeOK
<1>3. CASE Delay \/ UNCHANGED vars
  BY <1>3 DEF Delay, vars, Triggered
<1> QED BY <1>1, <1>2, <1>3, StepIs

LEMMA SetOffByTriggerNext ==
    ASSUME IInv, NeverSkipped, SetOffByTrigger, [Next]_vars
    PROVE  SetOffByTrigger'
<1> SUFFICES ASSUME NEW tn \in Score.syncs, Guarded(tn), ~Triggered(tn), ~Triggered(tn)'
             PROVE  /\ loc'[Name(tn)] \notin {"cond_true", "timeout", "id28"}
                    /\ \A i \in Previous(tn) : Interval(i)' # "id15"
                    /\ \A ev \in Score.events : Score.syncOf[ev] = tn =>
                          loc'[Name(ev)] \notin {"enabled", "cond_true", "timeout"}
  BY TriggeredStays DEF SetOffByTrigger, Guarded
<1>0. /\ loc[Name(tn)] \notin {"cond_true", "timeout", "id28"}
      /\ \A i \in Previous(tn) :
            /\ i \in Score.intervals /\ EndSync(i) = tn /\ Interval(i) # "id15"
            /\ ~Score.rigid[i] /\ Score.infinite[i]
      /\ \A ev \in Score.events : Score.syncOf[ev] = tn =>
            loc[Name(ev)] \notin {"enabled", "cond_true", "timeout"}
      /\ Score.active[tn] /\ Previous(tn) # {}
      /\ SyncPoint(tn).event_e = SyncChannels(tn).event_e
  BY SyncTells DEF SetOffByTrigger, Guarded, Previous
<1>1. ASSUME NEW n \in Elements, NEW c, NEW target, NEW m,
             Speaks(n, c, target), Broadcast(n, c, target, m)
      PROVE  /\ loc'[Name(tn)] \notin {"cond_true", "timeout", "id28"}
             /\ \A i \in Previous(tn) : Interval(i)' # "id15"
             /\ \A ev \in Score.events : Score.syncOf[ev] = tn =>
                   loc'[Name(ev)] \notin {"enabled", "cond_true", "timeout"}
  <2>1. c # SyncPoint(tn).event_e
    BY <1>0, <1>1, WhoTellsEnd
  <2>2. c # <<"event_", tn>>
    BY <1>0, <1>1, WhoIsEvent, BroadcastEffect DEF Triggered
  <2>3. ASSUME n \in Points
        PROVE  /\ loc[n] \in {"cond_true", "timeout", "id28"}
               /\ loc'[n] \in {"id28", "finished"}
    <3>1. PointSpeaks(n, c, target)
      BY <1>1, <2>3 DEF Speaks, EndSpeaks, OverSpeaks, KillSpeaks, MixSpeaks, ControlSpeaks,
                        EventSpeaks, Intervals, Rigids, Flexibles, Mixs, Controls, Points,
                        Events, EventsND, OfKind
    <3> QED BY <1>1, <3>1, BroadcastEffect DEF PointSpeaks
  <2>4. loc'[Name(tn)] \notin {"cond_true", "timeout", "id28"}
    <3>1. n # Name(tn)
      BY <1>0, <2>3, SyncNamed
    <3> QED BY <1>0, <1>1, <2>1, <2>2, <3>1, SyncHears
  <2>5. ASSUME NEW i \in Previous(tn) PROVE Interval(i)' # "id15"
    <3>1. c # EndChannels(i).event_e2
      BY <1>0, <2>1, IntervalTells
    <3>2. CASE n = Name(i)
      BY <1>0, <1>1, <3>2, IntervalSpeaks
    <3>3. CASE n # Name(i)
      BY <1>0, <1>1, <3>1, <3>3, IntervalHears
    <3> QED BY <3>2, <3>3
  <2>6. ASSUME NEW ev \in Score.events, Score.syncOf[ev] = tn
        PROVE  loc'[Name(ev)] \notin {"enabled", "cond_true", "timeout"}
    <3>1. CASE n = Name(ev)
      BY <2>3, <3>1, EventNamed
    <3>2. CASE n # Name(ev)
      BY <1>0, <1>1, <2>1, <2>6, <3>2, EventHears
    <3> QED BY <3>1, <3>2
  <2> QED BY <2>4, <2>5, <2>6
<1>2. ASSUME \/ \E n \in Flexibles : FlexibleReachesMax(n)
             \/ \E n \in Controls : ControlWaits(n)
             \/ Delay
             \/ UNCHANGED vars
      PROVE  /\ loc'[Name(tn)] \notin {"cond_true", "timeout", "id28"}
             /\ \A i \in Previous(tn) : Interval(i)' # "id15"
             /\ \A ev \in Score.events : Score.syncOf[ev] = tn =>
                   loc'[Name(ev)] \notin {"enabled", "cond_true", "timeout"}
  BY <1>0, <1>2, SilentStep, SyncNamed, EventNamed
<1> QED BY <1>1, <1>2, StepIs

\* What starts an interval is the point of its event.
LEMMA StartIsSaid ==
    ASSUME IInv, NeverSkipped, StartsOnCue, OpeningsReady, [Next]_vars,
           NEW i \in Score.intervals, Interval(i) = "idle", Interval(i)' \in {"wait", "wait_min"}
    PROVE  loc[Name(Score.startEvent[i])] \in {"cond_true", "timeout"}
<1>0. Score.startEvent[i] \in Score.events
  BY References
<1>1. PICK n, c, target, m :
         n \in Elements /\ Speaks(n, c, target) /\ Broadcast(n, c, target, m)
  BY StepIs, SilentStep
<1>2. n # Name(i)
  BY <1>1, IntervalSpeaks
<1>3. c = <<"ok_", Score.startEvent[i]>>
  BY <1>1, <1>2, IntervalHears
<1>4. \A j \in Score.intervals : Score.startEvent[j] = Score.startEvent[i] => Interval(j) = "idle"
  BY DEF StartsOnCue
<1> QED BY <1>0, <1>1, <1>3, <1>4, OkSaid

LEMMA CueInit == Init => OneCascade /\ StartsOnCue
BY PlayInvInit DEF PlayInv

\* What follows a trigger that nothing else can force starts after its event,
\* in every score whose scenarios do not open on a trigger.
THEOREM TriggersWaitedFor ==
    ASSUME NoOpeningTrigger
    PROVE  Spec => WaitsForTrigger
<1> DEFINE Inv == OneCascade /\ StartsOnCue /\ SetOffByTrigger
           Waits == \A i \in Score.intervals :
              LET tn == StartSync(i)
              IN  /\ Phase(i) = "waiting" /\ Phase(i)' = "running" /\ Score.active[tn]
                  /\ \A j \in Previous(tn) : ~Score.rigid[j] /\ Score.infinite[j]
                  => loc[<<"EventND", tn>>] = "finished"
<1>0. OpeningsReady
  BY DEF NoOpeningTrigger, OpeningsReady
<1>1. Init => Inv
  <2> SUFFICES ASSUME Init PROVE SetOffByTrigger
    BY CueInit
  <2>1. \A n \in Elements : loc[n] \in {"waiting", "idle"}
    BY DEF Init
  <2>2. \A x \in Score.syncs \cup Score.events : Name(x) \in Elements
    BY SyncNamed, EventNamed DEF Points, OfKind
  <2>3. \A i \in Score.intervals : Name(i) \in Elements
    BY IntervalNamed DEF Intervals, Rigids, Flexibles, OfKind
  <2> QED BY <2>1, <2>2, <2>3 DEF SetOffByTrigger, Interval, Previous
<1>2. IInv /\ NeverSkipped /\ Inv /\ [Next]_vars => Inv'
  BY <1>0, OneCascadeNext, StartsOnCueNext, SetOffByTriggerNext
<1>3. IInv /\ NeverSkipped /\ Inv /\ [Next]_vars => [Waits]_vars
  <2> SUFFICES ASSUME IInv, NeverSkipped, Inv, [Next]_vars, NEW i \in Score.intervals,
                      Phase(i) = "waiting", Phase(i)' = "running", Score.active[StartSync(i)],
                      \A j \in Previous(StartSync(i)) : ~Score.rigid[j] /\ Score.infinite[j]
               PROVE  loc[<<"EventND", StartSync(i)>>] = "finished"
    OBVIOUS
  <2>1. loc[Name(Score.startEvent[i])] \in {"cond_true", "timeout"}
    BY <1>0, PhaseIs, PhaseThenIs, StartIsSaid
  <2>2. /\ Guarded(StartSync(i)) /\ StartSync(i) \in Score.syncs
        /\ Score.startEvent[i] \in Score.events
    BY References DEF Guarded, NoOpeningTrigger
  <2>3. Score.syncOf[Score.startEvent[i]] = StartSync(i)
    BY DEF StartSync
  <2> QED BY <2>1, <2>2, <2>3 DEF SetOffByTrigger, Triggered
<1> HIDE DEF Inv, Waits
<1>4. Spec => [](IInv /\ NeverSkipped /\ Inv)
  BY <1>1, <1>2, Invariance, NothingIsSkipped, PTL DEF Spec
<1>5. Spec => [][Waits]_vars
  BY <1>3, <1>4, PTL DEF Spec
<1> QED BY <1>5 DEF WaitsForTrigger, Waits

-----------------------------------------------------------------------------
(* Nested scenarios open at the date at which what holds them starts.      *)

\* The syncs that open a scenario inside an interval.
Nests == {tn \in Score.syncs : Previous(tn) = {} /\ Holds(tn) # Score.root}

\* They wait neither for a trigger nor for the expression of an event, whose
\* dates would be those of the scenario (TAConversion.cpp:434-455,551-557).
OpeningsPlain ==
    \A tn \in Nests :
        /\ ~Score.active[tn]
        /\ \A ev \in Score.events : Score.syncOf[ev] = tn => ev \notin DOMAIN Score.expression

PointAt(x) == loc[Name(x)]
MixAt(x)   == loc[<<"Mix", x>>]
Since(i)   == started[Name(i)]

\* The sync of a nested scenario is set off with the interval h that holds it,
\* and what follows from it takes no time.
OpenedSync(tn, h) ==
    /\ Interval(h) = "idle" => MixAt(tn) = "idle"
    /\ MixAt(tn) = "idle" => Phase(h) \notin {"running", "past"} /\ Interval(h) # "finished"
    /\ PointAt(tn) = "idle" <=> MixAt(tn) = "idle"
    /\ PointAt(tn) = "enabled" => MixAt(tn) = "id22"
    /\ MixAt(tn) = "id22" \/ PointAt(tn) \in {"cond_true", "timeout", "id28"} => now = Since(h)

OpenedEvent(tn, ev, h) ==
    /\ Interval(h) = "idle" => MixAt(ev) = "idle"
    /\ MixAt(ev) = "idle" => MixAt(tn) # "finished"
    /\ PointAt(ev) = "idle" <=> MixAt(ev) = "idle"
    /\ PointAt(ev) = "enabled" => MixAt(ev) = "id22"
    /\ MixAt(ev) = "id22" \/ PointAt(ev) \in {"cond_true", "timeout"} => now = Since(h)

OpenedInterval(ev, i, h) ==
    /\ Interval(i) = "idle" => PointAt(ev) \notin {"id28", "finished"}
    /\ Phase(i) \in {"running", "past"} => Since(i) = Since(h)

Opened ==
    \A tn \in Nests :
        /\ OpenedSync(tn, Holds(tn))
        /\ \A ev \in Score.events : Score.syncOf[ev] = tn =>
              /\ OpenedEvent(tn, ev, Holds(tn))
              /\ \A i \in Score.intervals :
                    Score.startEvent[i] = ev => OpenedInterval(ev, i, Holds(tn))

\* The intervals of an event have started at one date.
StartedTogether ==
    \A i, j \in Score.intervals :
        Score.startEvent[i] = Score.startEvent[j] => Since(i) = Since(j)

\* What holds the scenario of such a sync, and the channels they share.
LEMMA NestIs ==
    ASSUME OpeningsPlain, NEW tn \in Nests
    PROVE  /\ tn \in Score.syncs /\ Holds(tn) \in Score.intervals
           /\ Score.startEvent[Holds(tn)] \in Score.events
           /\ ~IsMerge(tn) /\ ~Score.active[tn]
           /\ SyncChannels(tn).event_s = <<"ok_", Score.startEvent[Holds(tn)]>>
           /\ SyncPoint(tn).event_e = MixOut(tn)
           /\ SelfOfSync(tn).kill = <<"kill_", Holds(tn)>>
<1>1. /\ tn \in Score.syncs /\ Previous(tn) = {} /\ Holds(tn) # Score.root /\ ~Score.active[tn]
  BY DEF Nests, OpeningsPlain
<1>2. Holds(tn) \in Score.intervals /\ Score.startEvent[Holds(tn)] \in Score.events
  BY <1>1, References DEF Holds
<1>3. ~IsMerge(tn)
  BY <1>1, FS_EmptySet DEF IsMerge
<1>4. SelfOfSync(tn).kill = <<"kill_", Holds(tn)>>
  BY <1>1 DEF SelfOfSync, Self, Holds
<1> QED BY <1>1, <1>2, <1>3, <1>4, SyncTells

\* An idle point or Mix hears what it waits for.
LEMMA PointAnswers ==
    ASSUME IInv, NEW p \in Points, NEW c
    PROVE  /\ loc[p] = "idle" /\ c = Decl[p].event_s => After(p, c) = "enabled"
           /\ loc[p] = "enabled" /\ c = Decl[p].event_e => After(p, c) = "timeout"
           /\ loc[p] \in {"idle", "enabled"} /\ c = Decl[p].kill_p => After(p, c) = "finished"
<1>1. p \in Elements /\ Inputs(p) = PointInputs(Decl[p], p \in Points /\ en[p])
  BY DEF Inputs, InputsWhen, Rigids, Flexibles, Mixs, Controls, Points, OfKind
<1>2. loc[p] = "enabled" => en[p]
  BY DEF IInv, EnabledHasFlag
<1>3. ASSUME loc[p] = "idle", c = Decl[p].event_s PROVE After(p, c) = "enabled"
  <2>1. <<"idle", Decl[p].event_s, "enabled">> \in Inputs(p)
    BY <1>1, <1>3 DEF PointInputs
  <2> QED BY <1>1, <1>3, <2>1, Hears
<1>4. ASSUME loc[p] = "enabled", c = Decl[p].event_e PROVE After(p, c) = "timeout"
  <2>1. <<"enabled", Decl[p].event_e, "timeout">> \in Inputs(p)
    BY <1>1, <1>2, <1>4 DEF PointInputs
  <2> QED BY <1>1, <1>4, <2>1, Hears
<1>5. ASSUME loc[p] \in {"idle", "enabled"}, c = Decl[p].kill_p
      PROVE  After(p, c) = "finished"
  <2>1. <<loc[p], Decl[p].kill_p, "finished">> \in Inputs(p)
    BY <1>1, <1>5 DEF PointInputs
  <2> QED BY <1>1, <1>5, <2>1, Hears
<1> QED BY <1>3, <1>4, <1>5

LEMMA MixAnswers ==
    ASSUME NEW x \in Mixs, NEW c
    PROVE  /\ loc[x] = "idle" /\ c = Decl[x].event_in => After(x, c) = "id22"
           /\ loc[x] = "idle" /\ c = Decl[x].kill_p => After(x, c) = "finished"
<1>1. x \in Elements /\ Inputs(x) = MixInputs(Decl[x])
  BY DEF Inputs, InputsWhen, Rigids, Flexibles, Mixs, Controls, Points, OfKind
<1>2. ASSUME loc[x] = "idle", c = Decl[x].event_in PROVE After(x, c) = "id22"
  <2>1. <<"idle", Decl[x].event_in, "id22">> \in Inputs(x)
    BY <1>1, <1>2 DEF MixInputs
  <2> QED BY <1>1, <1>2, <2>1, Hears
<1>3. ASSUME loc[x] = "idle", c = Decl[x].kill_p PROVE After(x, c) = "finished"
  <2>1. <<"idle", Decl[x].kill_p, "finished">> \in Inputs(x)
    BY <1>1, <1>3 DEF MixInputs
  <2> QED BY <1>1, <1>3, <2>1, Hears
<1> QED BY <1>2, <1>3

\* How a Mix x moves that waits for channel in and tells out, and a point p
\* that waits for channel in until end, and tells cue.
MixMoves(x, in, out, kill, c) ==
    \/ loc[x] = "id22" /\ loc'[x] = "finished" /\ c = out
    \/ loc[x] = "idle" /\ c = in /\ loc'[x] = "id22"
    \/ loc[x] = "idle" /\ c = kill /\ loc'[x] = "finished"
    \/ loc'[x] = loc[x] /\ ~(loc[x] = "idle" /\ c \in {in, kill})

PointMoves(p, in, end, cue, kill, c) ==
    \/ loc[p] \in {"cond_true", "timeout"} /\ loc'[p] \in {"id28", "finished"} /\ c = cue
    \/ loc[p] = "id28" /\ loc'[p] = "finished" /\ c = end
    \/ loc[p] = "idle" /\ c = in /\ loc'[p] = "enabled"
    \/ loc[p] = "enabled" /\ loc'[p] \in {"cond_true", "timeout"}
    \/ loc[p] \in {"idle", "enabled"} /\ c = kill /\ loc'[p] = "finished"
    \/ loc'[p] = loc[p] /\ ~(loc[p] = "idle" /\ c \in {in, kill})
                        /\ ~(loc[p] = "enabled" /\ c \in {end, kill})

LEMMA MixMovesOn ==
    ASSUME IInv, NEW n \in Elements, NEW c, NEW target, NEW m,
           Speaks(n, c, target), Broadcast(n, c, target, m), NEW x \in Mixs
    PROVE  MixMoves(x, Decl[x].event_in, Decl[x].event_out, Decl[x].kill_p, c)
<1>1. x \in Elements /\ c[1] \notin SkipPrefixes
  BY SaidPrefixes DEF Mixs, OfKind
<1>2. CASE n = x
  <2>1. MixSpeaks(x, c, target)
    BY <1>2 DEF Speaks, EndSpeaks, OverSpeaks, KillSpeaks, ControlSpeaks, PointSpeaks,
                EventSpeaks, Intervals, Rigids, Flexibles, Mixs, Controls, Points, Events,
                EventsND, OfKind
  <2> QED BY <1>2, <2>1, BroadcastEffect DEF MixSpeaks, MixMoves
<1>3. CASE n # x
  <2>1. loc'[x] = After(x, c)
    BY <1>1, <1>3, BroadcastEffect
  <2> QED BY <1>1, <2>1, MixHears, MixAnswers DEF MixMoves
<1> QED BY <1>2, <1>3

LEMMA PointMovesOn ==
    ASSUME IInv, NEW n \in Elements, NEW c, NEW target, NEW m,
           Speaks(n, c, target), Broadcast(n, c, target, m), NEW p \in Points
    PROVE  PointMoves(p, Decl[p].event_s, Decl[p].event_e, Decl[p].event_t, Decl[p].kill_p, c)
<1>1. p \in Elements /\ c[1] \notin SkipPrefixes /\ EnabledHasFlag
  BY SaidPrefixes DEF Points, OfKind, IInv
<1>2. CASE n = p
  <2>1. PointSpeaks(p, c, target)
    BY <1>2 DEF Speaks, EndSpeaks, OverSpeaks, KillSpeaks, ControlSpeaks, MixSpeaks,
                EventSpeaks, Intervals, Rigids, Flexibles, Mixs, Controls, Points, Events,
                EventsND, OfKind
  <2> QED BY <1>2, <2>1, BroadcastEffect DEF PointSpeaks, PointMoves
<1>3. CASE n # p
  <2>1. loc'[p] = After(p, c)
    BY <1>1, <1>3, BroadcastEffect
  <2> QED BY <1>1, <2>1, PointHears, PointAnswers DEF PointMoves
<1> QED BY <1>2, <1>3

LEMMA SyncMoves ==
    ASSUME IInv, OpeningsPlain, NEW tn \in Nests,
           NEW n \in Elements, NEW c, NEW target, NEW m,
           Speaks(n, c, target), Broadcast(n, c, target, m)
    PROVE  LET in   == <<"ok_", Score.startEvent[Holds(tn)]>>
               kill == <<"kill_", Holds(tn)>>
           IN  /\ MixMoves(<<"Mix", tn>>, in, MixOut(tn), kill, c)
               /\ PointMoves(Name(tn), in, MixOut(tn), <<"ok_", tn>>, kill, c)
<1>1. /\ <<"Mix", tn>> \in Mixs /\ Decl[<<"Mix", tn>>] = SyncMix(tn)
      /\ Name(tn) \in Points /\ Decl[Name(tn)] = SyncPoint(tn)
  BY NestIs, SyncNamed
<1>2. /\ SyncMix(tn).event_in = SyncChannels(tn).event_s /\ SyncMix(tn).event_out = MixOut(tn)
      /\ SyncMix(tn).kill_p = SelfOfSync(tn).kill
  BY DEF SyncMix
<1>3. /\ SyncPoint(tn).event_s = SyncChannels(tn).event_s /\ SyncPoint(tn).event_t = <<"ok_", tn>>
      /\ SyncPoint(tn).kill_p = SelfOfSync(tn).kill
  BY DEF SyncPoint
<1>4. MixMoves(<<"Mix", tn>>, SyncMix(tn).event_in, SyncMix(tn).event_out, SyncMix(tn).kill_p, c)
  BY <1>1, MixMovesOn
<1>5. PointMoves(Name(tn), SyncPoint(tn).event_s, SyncPoint(tn).event_e, SyncPoint(tn).event_t,
                 SyncPoint(tn).kill_p, c)
  BY <1>1, PointMovesOn
<1> QED BY <1>2, <1>3, <1>4, <1>5, NestIs

LEMMA EventMoves ==
    ASSUME IInv, OpeningsPlain, NEW tn \in Nests, NEW ev \in Score.events, Score.syncOf[ev] = tn,
           NEW n \in Elements, NEW c, NEW target, NEW m,
           Speaks(n, c, target), Broadcast(n, c, target, m)
    PROVE  LET kill == <<"kill_", Holds(tn)>>
           IN  /\ MixMoves(<<"Mix", ev>>, MixOut(tn), <<"emax_", ev>>, kill, c)
               /\ PointMoves(Name(ev), MixOut(tn), <<"emax_", ev>>, <<"ok_", ev>>, kill, c)
<1>1. /\ <<"Mix", ev>> \in Mixs /\ Decl[<<"Mix", ev>>] = EventMix(ev)
      /\ Name(ev) \in Points /\ Decl[Name(ev)] = EventPoint(ev)
  <2>1. ev \notin DOMAIN Score.expression
    BY DEF OpeningsPlain
  <2>2. EventMix(ev) \in Printed /\ EventMix(ev).kind = "Mix" /\ EventMix(ev).name = <<"Mix", ev>>
    BY <2>1, IsPrinted, PrintedKinds
  <2> QED BY <2>2, Named, EventNamed DEF Mixs, OfKind
<1>2. /\ EventPoint(ev).event_s = MixOut(tn) /\ EventPoint(ev).event_e = <<"emax_", ev>>
      /\ EventPoint(ev).event_t = <<"ok_", ev>> /\ EventPoint(ev).kill_p = <<"kill_", Holds(tn)>>
  BY NestIs DEF EventPoint
<1>3. /\ EventMix(ev).event_in = EventPoint(ev).event_s
      /\ EventMix(ev).event_out = EventPoint(ev).event_e
      /\ EventMix(ev).kill_p = EventPoint(ev).kill_p
  BY DEF EventMix
<1>4. MixMoves(<<"Mix", ev>>, EventMix(ev).event_in, EventMix(ev).event_out,
               EventMix(ev).kill_p, c)
  BY <1>1, MixMovesOn
<1>5. PointMoves(Name(ev), EventPoint(ev).event_s, EventPoint(ev).event_e,
                 EventPoint(ev).event_t, EventPoint(ev).kill_p, c)
  BY <1>1, PointMovesOn
<1> QED BY <1>2, <1>3, <1>4, <1>5

\* Only the point of an event cues its intervals, when all of them wait.
LEMMA CueSaid ==
    ASSUME OpeningsPlain, StartsOnCue, NEW ev \in Score.events,
           NEW n, NEW c, NEW target, Speaks(n, c, target), c = <<"ok_", ev>>
    PROVE  /\ PointAt(ev) \in {"cond_true", "timeout"}
           /\ \A i \in Score.intervals : Score.startEvent[i] = ev => Interval(i) = "idle"
<1>1. OpeningsReady
  BY DEF OpeningsPlain, OpeningsReady, Nests, Holds
<1>2. PointAt(ev) \in {"cond_true", "timeout"}
  BY <1>1, OkSaid DEF OpeningsPlain, Nests, PointAt
<1> QED BY <1>2 DEF StartsOnCue, PointAt

\* How an interval moves, seen from what it holds.
LEMMA HolderMoves ==
    ASSUME IInv, OpeningsPlain, StartsOnCue, NEW h \in Score.intervals,
           NEW n \in Elements, NEW c, NEW target, NEW m,
           Speaks(n, c, target), Broadcast(n, c, target, m)
    PROVE  /\ c = <<"ok_", Score.startEvent[h]>> =>
                 /\ Interval(h) = "idle" /\ Interval(h)' \in {"wait", "wait_min"}
                 /\ Since(h)' = now
           /\ c # <<"ok_", Score.startEvent[h]>> =>
                 /\ Since(h)' = Since(h)
                 /\ Phase(h)' \in {"running", "past"} => Phase(h) \in {"running", "past"}
                 /\ Interval(h)' = "finished" /\ c # <<"kill_", h>> =>
                       Phase(h) = "past" \/ Interval(h) = "finished"
           /\ Interval(h)' = "idle" => Interval(h) = "idle"
           /\ c = <<"kill_", h>> => Interval(h) = "killed"
<1> DEFINE cue == <<"ok_", Score.startEvent[h]>>
<1>0. Name(h) \in Intervals /\ Score.startEvent[h] \in Score.events
  BY IntervalNamed, References
<1>1. ASSUME c = cue
      PROVE  Interval(h) = "idle" /\ Interval(h)' \in {"wait", "wait_min"}
  <2>1. Interval(h) = "idle"
    BY <1>0, <1>1, CueSaid
  <2>2. n # Name(h)
    BY <2>1, IntervalSpeaks
  <2>3. c # KillOf(h)
    BY <1>1, SelfPrefixes DEF KillOf
  <2> QED BY <1>1, <2>1, <2>2, <2>3, IntervalHears
<1>2. ASSUME c = <<"kill_", h>> PROVE Interval(h) = "killed"
  <2>1. ~MixSpeaks(n, c, target)
    BY <1>2, WhoForwards DEF MixOut
  <2>2. KillSpeaks(n, c, target)
    BY <1>2, <2>1, WhoSays
  <2>3. n = Name(h)
    BY <1>2, <2>2, WhoKills
  <2> QED BY <2>2, <2>3 DEF KillSpeaks, Interval
<1>3. \/ Interval(h)' = Interval(h)
      \/ Interval(h) = "idle" /\ c = cue /\ Interval(h)' \in {"wait", "wait_min"}
      \/ Interval(h) = "idle" /\ Interval(h)' = "killed"
      \/ /\ Interval(h) \in {"wait", "wait_min", "flexible", "semi_flexible"}
         /\ Interval(h)' \in {"id7", "id15", "flexible", "semi_flexible", "killed"}
      \/ Interval(h) \in {"id7", "id15"} /\ Interval(h)' = "finished"
      \/ Interval(h) = "killed" /\ c = <<"kill_", h>> /\ Interval(h)' = "finished"
  <2>1. CASE n = Name(h)
    BY <2>1, IntervalSpeaks
  <2>2. CASE n # Name(h)
    BY <2>2, IntervalHears
  <2> QED BY <2>1, <2>2
<1>4. Since(h)' = IF c = cue THEN now ELSE Since(h)
  BY <1>0, <1>1, <1>3, StartedAfter DEF Interval, Since
<1>5. Interval(h)' = "idle" => Interval(h) = "idle"
  BY <1>3
<1>6. ASSUME c # cue, Phase(h)' \in {"running", "past"} PROVE Phase(h) \in {"running", "past"}
  BY <1>3, <1>6, PhaseIs, PhaseThenIs
<1>7. ASSUME Interval(h)' = "finished", c # <<"kill_", h>>
      PROVE  Phase(h) = "past" \/ Interval(h) = "finished"
  BY <1>3, <1>7, PhaseIs
<1> QED BY <1>1, <1>2, <1>4, <1>5, <1>6, <1>7

\* What opens a nested scenario is said at the date at which its holder started.
LEMMA OpeningSaid ==
    ASSUME OpeningsPlain, StartsOnCue, Opened, StartedTogether, NEW tn \in Nests,
           NEW n, NEW c, NEW target, Speaks(n, c, target), c = MixOut(tn)
    PROVE  Interval(Holds(tn)) # "idle" /\ now = Since(Holds(tn))
<1>1. \E x \in Score.syncs :
         /\ c = MixOut(x)
         /\ MixAt(x) = "id22" \/ PointAt(x) = "id28"
  <2>1. CASE MixSpeaks(n, c, target)
    <3>1. loc[n] = "id22"
      BY <2>1 DEF MixSpeaks
    <3>2. \E x \in Score.syncs : n = <<"Mix", x>> /\ c = MixOut(x)
      BY <2>1, WhoForwards DEF MixOut
    <3> QED BY <3>1, <3>2 DEF MixAt
  <2>2. CASE PointSpeaks(n, c, target)
    <3>1. PICK x \in Score.syncs : n = Name(x) /\ loc[n] = "id28" /\ c = SyncPoint(x).event_e
      BY <2>2, WhoTriggers DEF MixOut
    <3>2. SyncPoint(x).event_e = MixOut(x)
      <4>1. Score.active[x] => SyncPoint(x).event_e[1] # "mix_event_e"
        BY SyncTells, SyncPrefixes
      <4> QED BY <3>1, <4>1, SyncTells, References DEF MixOut
    <3> QED BY <3>1, <3>2 DEF PointAt
  <2> QED BY <2>1, <2>2, WhoSays DEF MixOut
<1>2. PICK x \in Score.syncs :
         c = MixOut(x) /\ (MixAt(x) = "id22" \/ PointAt(x) = "id28")
  BY <1>1
<1>3. SyncChannels(tn).event_e = SyncChannels(x).event_e
  BY <1>2 DEF MixOut
<1>4. tn \in Score.syncs /\ Holds(tn) # Score.root
  BY DEF Nests
<1>5. /\ x \in Nests
      /\ Score.startEvent[Holds(x)] = Score.startEvent[Holds(tn)]
  BY <1>3, <1>4, TellAlike DEF Nests
<1>6. /\ Holds(x) \in Score.intervals /\ Holds(tn) \in Score.intervals
      /\ OpenedSync(x, Holds(x))
  BY <1>5, NestIs DEF Opened
<1>7. Interval(Holds(x)) # "idle" /\ now = Since(Holds(x))
  BY <1>2, <1>6 DEF OpenedSync
<1> QED BY <1>5, <1>6, <1>7 DEF StartsOnCue, StartedTogether

LEMMA OpenedSyncNext ==
    ASSUME IInv, OpeningsPlain, StartsOnCue, NEW tn \in Nests, OpenedSync(tn, Holds(tn)),
           NEW n \in Elements, NEW c, NEW target, NEW m,
           Speaks(n, c, target), Broadcast(n, c, target, m)
    PROVE  OpenedSync(tn, Holds(tn))'
<1> DEFINE h == Holds(tn)
           in == <<"ok_", Score.startEvent[h]>>
           kill == <<"kill_", h>>
<1>1. MixMoves(<<"Mix", tn>>, in, MixOut(tn), kill, c)
  BY SyncMoves
<1>2. PointMoves(Name(tn), in, MixOut(tn), <<"ok_", tn>>, kill, c)
  BY SyncMoves
<1>3. h \in Score.intervals /\ in # kill /\ in # MixOut(tn) /\ kill # MixOut(tn) /\ now' = now
  BY NestIs, BroadcastEffect DEF MixOut
<1>4. /\ c = in => Interval(h) = "idle" /\ Interval(h)' \in {"wait", "wait_min"} /\ Since(h)' = now
      /\ c # in => /\ Since(h)' = Since(h)
                   /\ Phase(h)' \in {"running", "past"} => Phase(h) \in {"running", "past"}
                   /\ Interval(h)' = "finished" /\ c # kill =>
                         Phase(h) = "past" \/ Interval(h) = "finished"
      /\ Interval(h)' = "idle" => Interval(h) = "idle"
      /\ c = kill => Interval(h) = "killed"
  BY <1>3, HolderMoves
<1>5. MixAt(tn) = loc[<<"Mix", tn>>] /\ MixAt(tn)' = loc'[<<"Mix", tn>>]
  BY DEF MixAt
<1>6. PointAt(tn) = loc[Name(tn)] /\ PointAt(tn)' = loc'[Name(tn)]
  BY DEF PointAt
<1> HIDE DEF h, in, kill
<1>7. Interval(h)' = "idle" => MixAt(tn)' = "idle"
  BY <1>1, <1>4, <1>5, <1>3 DEF MixMoves, OpenedSync, h
<1>8. MixAt(tn)' = "idle" => Phase(h)' \notin {"running", "past"} /\ Interval(h)' # "finished"
  BY <1>1, <1>4, <1>5, <1>3 DEF MixMoves, OpenedSync, h
<1>9. PointAt(tn)' = "idle" <=> MixAt(tn)' = "idle"
  BY <1>1, <1>2, <1>5, <1>6, <1>3 DEF MixMoves, PointMoves, OpenedSync, h
<1>10. PointAt(tn)' = "enabled" => MixAt(tn)' = "id22"
  BY <1>1, <1>2, <1>5, <1>6, <1>3 DEF MixMoves, PointMoves, OpenedSync, h
<1>11. ASSUME MixAt(tn)' = "id22" PROVE now' = Since(h)'
  BY <1>1, <1>4, <1>5, <1>3, <1>11 DEF MixMoves, OpenedSync, h
<1>12. ASSUME PointAt(tn)' \in {"cond_true", "timeout", "id28"} PROVE now' = Since(h)'
  <2>1. PointAt(tn) \in {"enabled", "cond_true", "timeout", "id28"}
    BY <1>2, <1>6, <1>12 DEF PointMoves
  <2>2. now = Since(h) /\ Interval(h) # "idle"
    BY <2>1 DEF OpenedSync, h
  <2> QED BY <1>3, <1>4, <2>2
<1>13. Holds(tn)' = h
  BY DEF Holds, h
<1> QED BY <1>7, <1>8, <1>9, <1>10, <1>11, <1>12, <1>13 DEF OpenedSync, h

LEMMA OpenedEventNext ==
    ASSUME IInv, OpeningsPlain, StartsOnCue, Opened, StartedTogether, NEW tn \in Nests,
           NEW ev \in Score.events, Score.syncOf[ev] = tn,
           NEW n \in Elements, NEW c, NEW target, NEW m,
           Speaks(n, c, target), Broadcast(n, c, target, m)
    PROVE  OpenedEvent(tn, ev, Holds(tn))'
<1> DEFINE h == Holds(tn)
           kill == <<"kill_", h>>
           cue == <<"ok_", Score.startEvent[h]>>
<1>1. MixMoves(<<"Mix", ev>>, MixOut(tn), <<"emax_", ev>>, kill, c)
  BY EventMoves
<1>2. PointMoves(Name(ev), MixOut(tn), <<"emax_", ev>>, <<"ok_", ev>>, kill, c)
  BY EventMoves
<1>3. MixMoves(<<"Mix", tn>>, cue, MixOut(tn), kill, c)
  BY SyncMoves
<1>4. /\ kill # MixOut(tn) /\ cue # MixOut(tn) /\ kill # <<"emax_", ev>>
      /\ MixOut(tn) # <<"emax_", ev>> /\ now' = now /\ h \in Score.intervals
  BY NestIs, BroadcastEffect DEF MixOut
<1>5. /\ c # cue => Since(h)' = Since(h)
      /\ c = cue => Interval(h) = "idle"
      /\ Interval(h)' = "idle" => Interval(h) = "idle"
      /\ c = kill => Interval(h) = "killed"
  BY <1>4, HolderMoves
<1>6. c = MixOut(tn) => Interval(h) # "idle" /\ now = Since(h)
  BY OpeningSaid
<1>7. /\ MixAt(tn) = loc[<<"Mix", tn>>] /\ MixAt(tn)' = loc'[<<"Mix", tn>>]
      /\ MixAt(ev) = loc[<<"Mix", ev>>] /\ MixAt(ev)' = loc'[<<"Mix", ev>>]
  BY DEF MixAt
<1>8. PointAt(ev) = loc[Name(ev)] /\ PointAt(ev)' = loc'[Name(ev)]
  BY DEF PointAt
<1>9. OpenedEvent(tn, ev, h)
  BY DEF Opened
<1>10. Holds(tn)' = h
  BY DEF Holds
<1> HIDE DEF h, kill, cue
<1>11. Interval(h)' = "idle" => MixAt(ev)' = "idle"
  BY <1>1, <1>5, <1>6, <1>7, <1>9 DEF MixMoves, OpenedEvent
<1>12. MixAt(ev)' = "idle" => MixAt(tn)' # "finished"
  BY <1>1, <1>3, <1>7, <1>9 DEF MixMoves, OpenedEvent
<1>13. PointAt(ev)' = "idle" <=> MixAt(ev)' = "idle"
  BY <1>1, <1>2, <1>4, <1>7, <1>8, <1>9 DEF MixMoves, PointMoves, OpenedEvent
<1>14. PointAt(ev)' = "enabled" => MixAt(ev)' = "id22"
  BY <1>1, <1>2, <1>4, <1>7, <1>8, <1>9 DEF MixMoves, PointMoves, OpenedEvent
<1>15. ASSUME MixAt(ev)' = "id22" PROVE now' = Since(h)'
  <2>1. now = Since(h) /\ Interval(h) # "idle"
    BY <1>1, <1>6, <1>7, <1>9, <1>15 DEF MixMoves, OpenedEvent
  <2> QED BY <1>4, <1>5, <2>1
<1>16. ASSUME PointAt(ev)' \in {"cond_true", "timeout"} PROVE now' = Since(h)'
  <2>1. PointAt(ev) \in {"enabled", "cond_true", "timeout"}
    BY <1>2, <1>8, <1>16 DEF PointMoves
  <2>2. now = Since(h) /\ Interval(h) # "idle"
    BY <1>9, <2>1 DEF OpenedEvent
  <2> QED BY <1>4, <1>5, <2>2
<1>17. OpenedEvent(tn, ev, h)'
  <2>1. h' = h
    BY <1>10 DEF h
  <2> QED BY <1>11, <1>12, <1>13, <1>14, <1>15, <1>16, <2>1 DEF OpenedEvent
<1> QED BY <1>17 DEF h

LEMMA OpenedIntervalNext ==
    ASSUME IInv, OpeningsPlain, StartsOnCue, Opened, NEW tn \in Nests,
           NEW ev \in Score.events, Score.syncOf[ev] = tn,
           NEW i \in Score.intervals, Score.startEvent[i] = ev,
           NEW n \in Elements, NEW c, NEW target, NEW m,
           Speaks(n, c, target), Broadcast(n, c, target, m)
    PROVE  OpenedInterval(ev, i, Holds(tn))'
<1> DEFINE h == Holds(tn)
           kill == <<"kill_", h>>
           cue == <<"ok_", Score.startEvent[h]>>
<1>1. PointMoves(Name(ev), MixOut(tn), <<"emax_", ev>>, <<"ok_", ev>>, kill, c)
  BY EventMoves
<1>2. OpenedEvent(tn, ev, h) /\ OpenedInterval(ev, i, h)
  BY DEF Opened
<1>3. KillOf(i) = kill
  BY NestIs DEF KillOf, ScenarioOfInterval, StartSync, SelfOfSync
<1>4. PointAt(ev) = loc[Name(ev)] /\ PointAt(ev)' = loc'[Name(ev)]
  BY DEF PointAt
<1>5. h \in Score.intervals /\ h' = h /\ now' = now
  BY NestIs, BroadcastEffect DEF Holds
<1>6. /\ c # cue => Since(h)' = Since(h)
      /\ c = cue => Interval(h) = "idle"
  BY <1>5, HolderMoves
<1>7. /\ c = <<"ok_", ev>> => Since(i)' = now
      /\ c # <<"ok_", ev>> =>
            /\ Since(i)' = Since(i)
            /\ Phase(i)' \in {"running", "past"} => Phase(i) \in {"running", "past"}
  BY HolderMoves
<1>8. c = <<"ok_", ev>> => PointAt(ev) \in {"cond_true", "timeout"}
  BY CueSaid
<1> HIDE DEF h, kill, cue
<1>9. ASSUME Interval(i)' = "idle" PROVE PointAt(ev)' \notin {"id28", "finished"}
  <2>1. Interval(i) = "idle" /\ n # Name(i)
    <3>1. Interval(i) = "idle"
      BY <1>9, HolderMoves
    <3> QED BY <3>1, IntervalSpeaks
  <2>2. c # <<"ok_", ev>> /\ c # kill
    BY <1>3, <1>9, <2>1, IntervalHears
  <2> QED BY <1>1, <1>2, <1>4, <2>1, <2>2 DEF PointMoves, OpenedInterval
<1>10. ASSUME Phase(i)' \in {"running", "past"} PROVE Since(i)' = Since(h)'
  <2>1. CASE c = <<"ok_", ev>>
    <3>1. now = Since(h) /\ Interval(h) # "idle"
      BY <1>2, <1>8, <2>1 DEF OpenedEvent
    <3> QED BY <1>6, <1>7, <2>1, <3>1
  <2>2. CASE c # <<"ok_", ev>>
    <3>1. Phase(i) \in {"running", "past"} /\ Since(i)' = Since(i) /\ Since(i) = Since(h)
      BY <1>2, <1>7, <1>10, <2>2 DEF OpenedInterval
    <3>2. Interval(i) # "idle"
      BY <3>1, PhaseIs
    <3>3. PointAt(ev) # "idle"
      BY <3>2 DEF StartsOnCue, PointAt
    <3>4. Interval(h) # "idle"
      BY <1>2, <3>3 DEF OpenedEvent
    <3> QED BY <1>6, <3>1, <3>4
  <2> QED BY <2>1, <2>2
<1> QED BY <1>5, <1>9, <1>10 DEF OpenedInterval, h

LEMMA StartedTogetherNext ==
    ASSUME IInv, NeverSkipped, OpeningsPlain, StartsOnCue, StartedTogether, [Next]_vars
    PROVE  StartedTogether'
<1>1. ASSUME NEW n \in Elements, NEW c, NEW target, NEW m,
             Speaks(n, c, target), Broadcast(n, c, target, m),
             NEW i \in Score.intervals, NEW j \in Score.intervals,
             Score.startEvent[i] = Score.startEvent[j]
      PROVE  Since(i)' = Since(j)'
  <2>1. Since(i) = Since(j)
    BY <1>1 DEF StartedTogether
  <2> QED BY <1>1, <2>1, HolderMoves
<1>2. ASSUME started' = started PROVE StartedTogether'
  BY <1>2 DEF StartedTogether, Since
<1> QED BY <1>1, <1>2, StepIs, SilentStep DEF StartedTogether

LEMMA OpenedNext ==
    ASSUME IInv, NeverSkipped, OpeningsPlain, StartsOnCue, Opened, StartedTogether, [Next]_vars
    PROVE  Opened'
<1>1. ASSUME NEW n \in Elements, NEW c, NEW target, NEW m,
             Speaks(n, c, target), Broadcast(n, c, target, m)
      PROVE  Opened'
  <2>1. \A tn \in Nests : OpenedSync(tn, Holds(tn))'
    BY <1>1, OpenedSyncNext DEF Opened
  <2>2. \A tn \in Nests, ev \in Score.events :
           Score.syncOf[ev] = tn => OpenedEvent(tn, ev, Holds(tn))'
    BY <1>1, OpenedEventNext
  <2>3. \A tn \in Nests, ev \in Score.events, i \in Score.intervals :
           Score.syncOf[ev] = tn /\ Score.startEvent[i] = ev => OpenedInterval(ev, i, Holds(tn))'
    BY <1>1, OpenedIntervalNext
  <2> QED BY <2>1, <2>2, <2>3 DEF Opened, Nests
<1>2. ASSUME \/ \E n \in Flexibles : FlexibleReachesMax(n)
             \/ \E n \in Controls : ControlWaits(n)
             \/ Delay
             \/ UNCHANGED vars
      PROVE  Opened'
  <2> SUFFICES ASSUME NEW tn \in Nests
               PROVE  /\ OpenedSync(tn, Holds(tn))'
                      /\ \A ev \in Score.events : Score.syncOf[ev] = tn =>
                            /\ OpenedEvent(tn, ev, Holds(tn))'
                            /\ \A i \in Score.intervals :
                                  Score.startEvent[i] = ev => OpenedInterval(ev, i, Holds(tn))'
    BY DEF Opened, Nests
  <2> DEFINE h == Holds(tn)
  <2>1. h \in Score.intervals /\ h' = h
    BY NestIs DEF Holds
  <2>2. \A i \in Score.intervals :
           /\ Phase(i)' = Phase(i) /\ Since(i)' = Since(i)
           /\ \/ Interval(i)' = Interval(i)
              \/ Interval(i) = "semi_flexible" /\ Interval(i)' = "id15"
    BY <1>2, SilentStep DEF Since
  <2>3. \A p \in Points \cup Mixs : loc'[p] = loc[p]
    BY <1>2, SilentStep
  <2>4. MixAt(tn)' = MixAt(tn) /\ PointAt(tn)' = PointAt(tn)
    BY <2>3, NestIs, SyncNamed DEF MixAt, PointAt
  <2>5. ASSUME NEW ev \in Score.events, Score.syncOf[ev] = tn
        PROVE  MixAt(ev)' = MixAt(ev) /\ PointAt(ev)' = PointAt(ev)
    <3>1. ev \notin DOMAIN Score.expression
      BY <2>5 DEF OpeningsPlain
    <3>2. <<"Mix", ev>> \in Mixs
      BY <3>1, IsPrinted, PrintedKinds, Named DEF Mixs, OfKind
    <3> QED BY <2>3, <3>2, EventNamed DEF MixAt, PointAt
  <2>6. \/ now' = now
        \/ \A n \in Elements : loc[n] \notin {"id22", "cond_true", "timeout", "id28"}
    BY <1>2 DEF FlexibleReachesMax, ControlWaits, Delay, MayDelay, CommittedLocations,
                UrgentLocations, vars
  <2>7. \A x : /\ MixAt(x) = loc[<<"Mix", x>>] /\ PointAt(x) = loc[Name(x)]
    BY DEF MixAt, PointAt
  <2>8. /\ <<"Mix", tn>> \in Elements /\ Name(tn) \in Elements
        /\ \A ev \in Score.events : Score.syncOf[ev] = tn =>
              <<"Mix", ev>> \in Elements /\ Name(ev) \in Elements
    <3>1. \A ev \in Score.events : Score.syncOf[ev] = tn => <<"Mix", ev>> \in Elements
      BY IsPrinted, PrintedKinds, Named DEF OpeningsPlain
    <3> QED BY <3>1, NestIs, SyncNamed, EventNamed DEF Mixs, Points, OfKind
  <2>9. OpenedSync(tn, h)'
    <3>1. OpenedSync(tn, h)
      BY DEF Opened
    <3> HIDE DEF h
    <3> QED BY <2>1, <2>2, <2>4, <2>6, <2>7, <2>8, <3>1 DEF OpenedSync
  <2>10. ASSUME NEW ev \in Score.events, Score.syncOf[ev] = tn
         PROVE  OpenedEvent(tn, ev, h)'
    <3>1. OpenedEvent(tn, ev, h)
      BY <2>10 DEF Opened
    <3> HIDE DEF h
    <3> QED BY <2>1, <2>2, <2>4, <2>5, <2>6, <2>7, <2>8, <2>10, <3>1 DEF OpenedEvent
  <2>11. ASSUME NEW ev \in Score.events, Score.syncOf[ev] = tn,
                NEW i \in Score.intervals, Score.startEvent[i] = ev
         PROVE  OpenedInterval(ev, i, h)'
    <3>1. OpenedInterval(ev, i, h)
      BY <2>11 DEF Opened
    <3> HIDE DEF h
    <3> QED BY <2>1, <2>2, <2>5, <2>11, <3>1 DEF OpenedInterval
  <2> QED BY <2>9, <2>10, <2>11
<1> QED BY <1>1, <1>2, StepIs

LEMMA OpenedInit ==
    ASSUME Init, OpeningsPlain
    PROVE  Opened /\ StartedTogether
<1>1. \A n \in Points \cup Mixs \cup Intervals : loc[n] = "idle"
  BY DEF Init, Points, Mixs, Intervals, Rigids, Flexibles, Events, OfKind
<1>2. \A i \in Score.intervals : Interval(i) = "idle" /\ Since(i) = -1 /\ Phase(i) = "waiting"
  BY <1>1, IntervalNamed, PhaseIs DEF Init, Interval, Since
<1>3. \A tn \in Nests :
         MixAt(tn) = "idle" /\ PointAt(tn) = "idle" /\ Holds(tn) \in Score.intervals
  BY <1>1, NestIs, SyncNamed DEF MixAt, PointAt
<1>4. \A ev \in Score.events : Score.syncOf[ev] \in Nests =>
         MixAt(ev) = "idle" /\ PointAt(ev) = "idle"
  <2>1. \A ev \in Score.events : Score.syncOf[ev] \in Nests => <<"Mix", ev>> \in Mixs
    BY IsPrinted, PrintedKinds, Named DEF OpeningsPlain, Mixs, OfKind
  <2> QED BY <1>1, <2>1, EventNamed DEF MixAt, PointAt
<1> QED BY <1>2, <1>3, <1>4 DEF Opened, OpenedSync, OpenedEvent, OpenedInterval, StartedTogether

\* An interval that opens a nested scenario has started at the date of its
\* holder, and before time goes on.
LEMMA OpensInTime ==
    ASSUME IInv, NeverSkipped, OpeningsPlain, Opened
    PROVE  OpensWithHolder
<1> SUFFICES ASSUME NEW i \in Score.intervals, HolderOf(i) # Score.root,
                    Previous(StartSync(i)) = {}
             PROVE  /\ Phase(i) \in {"running", "past"} => Since(i) = Since(HolderOf(i))
                    /\ Phase(HolderOf(i)) \in {"running", "past"} /\ now > Since(HolderOf(i)) =>
                          Phase(i) # "waiting"
  BY DEF OpensWithHolder, Since
<1> DEFINE tn == StartSync(i)
           ev == Score.startEvent[i]
           h == HolderOf(i)
<1>1. /\ tn \in Nests /\ Holds(tn) = h /\ ev \in Score.events /\ Score.syncOf[ev] = tn
      /\ h \in Score.intervals
  BY References DEF Nests, Holds, HolderOf, ScenarioOfInterval, StartSync
<1>2. OpenedSync(tn, h) /\ OpenedEvent(tn, ev, h) /\ OpenedInterval(ev, i, h)
  BY <1>1 DEF Opened
<1>3. ASSUME Phase(h) \in {"running", "past"}, now > Since(h), Phase(i) = "waiting" PROVE FALSE
  <2>1. Interval(i) = "idle"
    BY <1>3, PhaseIs
  <2>2. /\ MixAt(tn) \in {"idle", "id22", "finished"} /\ MixAt(ev) \in {"idle", "id22", "finished"}
        /\ PointAt(ev) \in {"idle", "enabled", "cond_true", "id28", "timeout", "finished"}
    <3>1. <<"Mix", tn>> \in Mixs /\ <<"Mix", ev>> \in Mixs /\ Name(ev) \in Points
      BY <1>1, NestIs, SyncNamed, EventNamed, IsPrinted, PrintedKinds, Named
         DEF OpeningsPlain, Mixs, OfKind
    <3>2. \A n \in Mixs \cup Points : n \in Elements /\ loc[n] # "skipped"
      BY DEF Mixs, Points, OfKind, NeverSkipped
    <3>3. \A n \in Mixs \cup Points : loc[n] \in LocationsOf(Decl[n].kind)
      BY <3>2 DEF IInv, TypeOK
    <3>4. /\ \A n \in Mixs : loc[n] \in {"idle", "id22", "finished"}
          /\ \A n \in Points :
                loc[n] \in {"idle", "enabled", "cond_true", "id28", "timeout", "finished"}
      BY <3>2, <3>3, TemplateLocations
    <3> HIDE DEF tn, ev
    <3> QED BY <3>1, <3>4 DEF MixAt, PointAt
  <2>3. now # Since(h)
    BY <1>1, <1>3, IntervalNamed DEF IInv, TypeOK, Since
  <2>4. MixAt(tn) = "finished"
    BY <1>2, <1>3, <2>2, <2>3 DEF OpenedSync
  <2>5. MixAt(ev) = "finished"
    BY <1>2, <2>2, <2>3, <2>4 DEF OpenedEvent
  <2>6. PointAt(ev) \in {"id28", "finished"}
    BY <1>2, <2>2, <2>3, <2>5 DEF OpenedEvent
  <2> QED BY <1>2, <2>1, <2>6 DEF OpenedInterval
<1> QED BY <1>2, <1>3 DEF OpenedInterval

\* In every score whose nested scenarios open on a plain sync, what they open
\* with starts at the date of the interval that holds them, however deep.
THEOREM NestedOpenInTime ==
    ASSUME OpeningsPlain
    PROVE  Spec => []OpensWithHolder
<1> DEFINE Inv == OneCascade /\ StartsOnCue /\ Opened /\ StartedTogether
<1>0. OpeningsReady
  BY DEF OpeningsPlain, OpeningsReady, Nests, Holds
<1>1. Init => Inv
  BY CueInit, OpenedInit
<1>2. IInv /\ NeverSkipped /\ Inv /\ [Next]_vars => Inv'
  BY <1>0, OneCascadeNext, StartsOnCueNext, OpenedNext, StartedTogetherNext
<1>3. IInv /\ NeverSkipped /\ Inv => OpensWithHolder
  BY OpensInTime
<1> HIDE DEF Inv
<1> QED BY <1>1, <1>2, <1>3, Invariance, NothingIsSkipped, PTL DEF Spec

-----------------------------------------------------------------------------
(* Dates: what follows a sync starts when an interval that reaches it has  *)
(* lasted as long as the score says, and time does not pass in between.    *)

\* How long an interval lasts, in ticks.
Shortest(i) == Ticks(IF Score.rigid[i] THEN Score.dur[i] ELSE Score.min[i])
Longest(i)  == Ticks(IF Score.rigid[i] THEN Score.dur[i] ELSE Score.max[i])
Within(i) ==
    /\ Since(i) >= 0 /\ now - Since(i) >= Shortest(i)
    /\ Score.rigid[i] \/ ~Score.infinite[i] => now - Since(i) <= Longest(i)

PastWithin == \A i \in Score.intervals : Phase(i) = "past" => Within(i)

\* The syncs whose date is that of an interval that reaches them, or of the
\* start of the play: not those where a trigger makes branches wait for each other.
Timed ==
    {tn \in Score.syncs : IF Previous(tn) = {} THEN Holds(tn) = Score.root /\ NoOpeningTrigger
                          ELSE ~(IsMerge(tn) /\ Score.active[tn])}
Due(tn) == IF Previous(tn) = {} THEN now = 0 ELSE \E i \in Previous(tn) : Within(i)

\* A point without a trigger or an expression is forwarded at once by its Mix.
Forwarded(x, due) ==
    /\ PointAt(x) = "idle" <=> MixAt(x) = "idle"
    /\ PointAt(x) = "enabled" => MixAt(x) = "id22"
    /\ MixAt(x) = "id22" => due

\* What a sync sets going is set going when it is due.
TimelySync(tn) ==
    /\ IsMerge(tn) /\ loc[ControlName(tn)] = "id26" => Due(tn)
    /\ PointAt(tn) \in {"cond_true", "timeout", "id28"} => Due(tn)
    /\ Score.active[tn] /\ PointAt(tn) = "enabled" => \A i \in Previous(tn) : Phase(i) = "past"
    /\ ~Score.active[tn] => Forwarded(tn, Due(tn))

\* An event with an expression waits for its own date instead.
TimelyEvent(ev) ==
    LET tn == Score.syncOf[ev]
    IN  IF ev \in DOMAIN Score.expression
        THEN PointAt(ev) \in {"cond_true", "timeout"} => now = Ticks(Score.date[tn])
        ELSE /\ Forwarded(ev, Due(tn))
             /\ PointAt(ev) \in {"cond_true", "timeout"} => Due(tn)

Timely ==
    /\ PastWithin
    /\ \A tn \in Timed : TimelySync(tn)
    /\ \A ev \in Score.events : Score.syncOf[ev] \in Timed => TimelyEvent(ev)

\* Clocks of intervals that have not started, and of those that have.
LEMMA BegunIs ==
    ASSUME IInv, Begun, NEW i \in Score.intervals
    PROVE  /\ Interval(i) = "idle" => Since(i) = -1
           /\ Interval(i) \in {"wait", "wait_min"} => Since(i) >= 0
           /\ Since(i) \in Int /\ now \in Nat
BY IntervalNamed, HorizonAssumption DEF Begun, Interval, Since, IInv, TypeOK

LEMMA DurationsAre ==
    ASSUME NEW i \in Score.intervals
    PROVE  Shortest(i) \in Nat /\ Longest(i) \in Nat
<1>1. Score.dur[i] \in Nat /\ Score.min[i] \in Nat /\ Score.max[i] \in Nat
  BY ScoreIsDocument DEF ScoreAssumption
<1> QED BY <1>1, TicksGrow DEF Shortest, Longest

\* While something is said no time passes, and no interval that has started
\* starts anew.
LEMMA WithinStays ==
    ASSUME IInv, Begun, NEW n \in Elements, NEW c, NEW target, NEW m,
           Broadcast(n, c, target, m), NEW i \in Score.intervals, Within(i)
    PROVE  Within(i)'
<1>1. now' = now
  BY BroadcastEffect
<1>2. Interval(i) # "idle"
  BY BegunIs DEF Within
<1>3. Since(i)' = Since(i)
  BY <1>2, IntervalNamed, StartedAfter DEF Since, Interval
<1>4. Shortest(i)' = Shortest(i) /\ Longest(i)' = Longest(i)
  BY DEF Shortest, Longest, Ticks
<1> QED BY <1>1, <1>3, <1>4 DEF Within

LEMMA DueStays ==
    ASSUME IInv, Begun, NEW n \in Elements, NEW c, NEW target, NEW m,
           Broadcast(n, c, target, m), NEW tn, Due(tn)
    PROVE  Due(tn)'
<1>1. now' = now
  BY BroadcastEffect
<1>2. Previous(tn)' = Previous(tn) /\ Previous(tn) \subseteq Score.intervals
  BY DEF Previous, EndSync
<1>3. \A i \in Previous(tn) : Within(i) => Within(i)'
  BY <1>2, WithinStays
<1> QED BY <1>1, <1>2, <1>3 DEF Due

\* An interval is past its minimum only when it has lasted that long, and no
\* longer than its maximum.
LEMMA PastWithinNext ==
    ASSUME IInv, NeverSkipped, Begun, PastWithin, [Next]_vars
    PROVE  PastWithin'
<1> SUFFICES ASSUME NEW i \in Score.intervals, Phase(i)' = "past" PROVE Within(i)'
  BY DEF PastWithin
<1>0. /\ Since(i) \in Int /\ now \in Nat /\ Shortest(i) \in Nat /\ Longest(i) \in Nat
      /\ Shortest(i)' = Shortest(i) /\ Longest(i)' = Longest(i)
  BY BegunIs, DurationsAre DEF Shortest, Longest, Ticks
<1>1. ASSUME NEW n \in Elements, NEW c, NEW target, NEW m,
             Speaks(n, c, target), Broadcast(n, c, target, m)
      PROVE  Within(i)'
  <2>1. CASE Phase(i) = "past"
    BY <1>1, <2>1, WithinStays DEF PastWithin
  <2>2. CASE Phase(i) # "past"
    <3>1. n = Name(i)
      <4>1. ASSUME n # Name(i) PROVE FALSE
        BY <1>1, <2>2, <4>1, IntervalHears, PhaseIs, PhaseThenIs
      <4> QED BY <4>1
    <3>2. EndSpeaks(n, c, target) /\ Interval(i) \in {"wait", "wait_min"}
      BY <1>1, <3>1, IntervalSpeaks, PhaseThenIs
    <3>3. Since(i) >= 0 /\ Since(i)' = Since(i) /\ now' = now
      BY <1>1, <3>2, BegunIs, IntervalNamed, StartedAfter, BroadcastEffect DEF Since, Interval
    <3>4. t(n) = now - Since(i)
      BY <3>1 DEF t, Since
    <3>5. now - Since(i) = Shortest(i)
      <4>1. n \in Rigids <=> Score.rigid[i]
        BY <3>1, IntervalNamed, References DEF Rigids, Flexibles, OfKind
      <4>2. n \in Flexibles <=> ~Score.rigid[i]
        BY <3>1, IntervalNamed, References DEF Rigids, Flexibles, OfKind
      <4> QED BY <3>1, <3>2, <3>4, <4>1, <4>2, Durations DEF EndSpeaks, Shortest
    <3>6. Score.rigid[i] \/ ~Score.infinite[i] => Shortest(i) <= Longest(i)
      BY <1>0, Durations DEF Shortest, Longest
    <3> QED BY <1>0, <3>3, <3>5, <3>6 DEF Within
  <2> QED BY <2>1, <2>2
<1>2. ASSUME \/ \E n \in Flexibles : FlexibleReachesMax(n)
             \/ \E n \in Controls : ControlWaits(n)
             \/ UNCHANGED vars
      PROVE  Within(i)'
  <2>1. Phase(i)' = Phase(i) /\ started' = started
    BY <1>2, SilentStep
  <2>2. now' = now
    BY <1>2 DEF FlexibleReachesMax, ControlWaits, vars
  <2>3. Within(i) /\ Since(i)' = Since(i)
    BY <2>1 DEF PastWithin, Since
  <2> QED BY <1>0, <2>2, <2>3 DEF Within
<1>3. CASE Delay
  <2>1. Phase(i)' = Phase(i) /\ Since(i)' = Since(i) /\ now' = now + 1
    BY <1>3, SilentStep DEF Since, Delay
  <2>2. Within(i)
    BY <2>1 DEF PastWithin
  <2>3. Interval(i) \in {"flexible", "semi_flexible"}
    <3>1. Interval(i) \notin {"id7", "id15"}
      BY <1>3, IntervalNamed
         DEF Delay, MayDelay, CommittedLocations, UrgentLocations, Interval, Intervals, Rigids,
             Flexibles, OfKind
    <3> QED BY <2>1, <3>1, PhaseIs
  <2>4. ~Score.rigid[i] /\ Name(i) \in Flexibles
    <3>1. Name(i) \in Rigids => loc[Name(i)] \in LocationsOf("Rigid")
      BY DEF IInv, TypeOK, Rigids, OfKind
    <3> QED BY <2>3, <3>1, IntervalNamed, References, TemplateLocations
           DEF Interval, Rigids, OfKind, LocationsOf
  <2>5. ~Score.infinite[i] => now - Since(i) < Longest(i)
    <3>1. ASSUME ~Score.infinite[i] PROVE Interval(i) = "semi_flexible"
      BY <2>3, <2>4, <3>1, Durations DEF IInv, ClocksInBounds, Interval
    <3>2. Interval(i) = "semi_flexible" => now - Since(i) < Decl[Name(i)].dmax
      BY <1>3, <2>4 DEF Delay, MayDelay, Interval, t, Since
    <3> QED BY <2>4, <3>1, <3>2, Durations DEF Longest
  <2> QED BY <1>0, <2>1, <2>2, <2>4, <2>5 DEF Within
<1> QED BY <1>1, <1>2, <1>3, StepIs

-----------------------------------------------------------------------------
(* What sets a sync off is said when the sync is due.                      *)

\* Who says what the Mix of a sync forwards.
LEMMA WhoSaysMixOut ==
    ASSUME NEW tn \in Score.syncs, NEW n, NEW c, NEW target, Speaks(n, c, target), c = MixOut(tn)
    PROVE  \E x \in Score.syncs :
              /\ ~Score.active[x] /\ c = MixOut(x)
              /\ MixAt(x) = "id22" \/ PointAt(x) = "id28"
<1>1. CASE MixSpeaks(n, c, target)
  <2>1. loc[n] = "id22"
    BY <1>1 DEF MixSpeaks
  <2>2. \E x \in Score.syncs : ~Score.active[x] /\ n = <<"Mix", x>> /\ c = MixOut(x)
    BY <1>1, WhoForwards DEF MixOut
  <2> QED BY <2>1, <2>2 DEF MixAt
<1>2. CASE PointSpeaks(n, c, target)
  <2>1. PICK x \in Score.syncs : n = Name(x) /\ loc[n] = "id28" /\ c = SyncPoint(x).event_e
    BY <1>2, WhoTriggers DEF MixOut
  <2>2. ~Score.active[x] /\ SyncPoint(x).event_e = MixOut(x)
    <3>1. Score.active[x] => SyncPoint(x).event_e[1] # "mix_event_e"
      BY SyncTells, SyncPrefixes
    <3> QED BY <2>1, <3>1, SyncTells, References DEF MixOut
  <2> QED BY <2>1, <2>2 DEF PointAt
<1> QED BY <1>1, <1>2, WhoSays DEF MixOut

\* The syncs that open the play all tell at once that they do.
LEMMA MixOutIsDue ==
    ASSUME \A x \in Timed : TimelySync(x), NEW tn \in Timed,
           NEW n, NEW c, NEW target, Speaks(n, c, target), c = MixOut(tn)
    PROVE  Due(tn)
<1>0. tn \in Score.syncs
  BY DEF Timed
<1>1. PICK x \in Score.syncs : /\ ~Score.active[x] /\ c = MixOut(x)
                               /\ MixAt(x) = "id22" \/ PointAt(x) = "id28"
  BY <1>0, WhoSaysMixOut
<1>2. SyncChannels(tn).event_e = SyncChannels(x).event_e
  BY <1>1 DEF MixOut
<1>3. ASSUME x \in Timed PROVE Due(x)
  <2>1. TimelySync(x)
    BY <1>3
  <2> QED BY <1>1, <2>1 DEF TimelySync, Forwarded
<1>4. CASE x = tn
  BY <1>3, <1>4
<1>5. CASE x # tn
  <2>1. Previous(tn) = {} /\ Previous(x) = {}
    BY <1>0, <1>2, <1>5, TellAlike
  <2>2. Holds(tn) = Score.root /\ NoOpeningTrigger
    BY <2>1 DEF Timed
  <2>3. Holds(x) = Score.root
    BY <1>0, <1>2, <1>5, <2>2, TellAlike
  <2>4. x \in Timed
    BY <2>1, <2>2, <2>3 DEF Timed
  <2> QED BY <1>3, <2>1, <2>4 DEF Due
<1> QED BY <1>4, <1>5

\* The play opens at date 0.
LEMMA OpeningIsDue ==
    ASSUME NEW tn \in Timed, Previous(tn) = {},
           NEW n \in Elements, NEW c, NEW target, Speaks(n, c, target), c = GlobalStart
    PROVE  now = 0
<1>1. NoOpeningTrigger
  BY DEF Timed
<1>2. ~PointSpeaks(n, c, target)
  <2>1. ASSUME PointSpeaks(n, c, target)
        PROVE  \E x \in Score.syncs : c = SyncPoint(x).event_e
    BY <2>1, WhoTriggers DEF GlobalStart
  <2>2. ASSUME NEW x \in Score.syncs PROVE SyncPoint(x).event_e[1] # "global_start"
    <3>1. CASE Score.active[x]
      <4>1. Previous(x) # {}
        BY <1>1, <3>1 DEF NoOpeningTrigger
      <4> QED BY <3>1, <4>1, SyncTells
    <3>2. CASE ~Score.active[x]
      BY <3>2, SyncTells DEF MixOut
    <3> QED BY <3>1, <3>2
  <2> QED BY <2>1, <2>2 DEF GlobalStart
<1>3. EventSpeaks(n, c, target)
  BY <1>2, WhoSays DEF GlobalStart
<1>4. n \in Events \cup EventsND /\ c = Decl[n].event /\ (n \in Events => now = Decl[n].date)
  BY <1>3 DEF EventSpeaks
<1>5. n = <<"MainStartEvent">> /\ Decl[n] = MainStartEvent
  <2>1. /\ MainEndEvent.event # GlobalStart
        /\ \A x : SyncEvent(x).event # GlobalStart /\ EventEvent(x).event # GlobalStart
    BY DEF MainEndEvent, GlobalEnd, GlobalStart, SyncEvent, EventEvent
  <2> QED BY <1>4, <2>1, EventIs
<1> QED BY <1>4, <1>5, MainNamed, BaseIs

\* An interval that tells its sync of its end or minimum has lasted as it should.
LEMMA WhoEndsAt ==
    ASSUME PastWithin', NEW tn \in Score.syncs,
           NEW n \in Elements, NEW c, NEW target, NEW m,
           Speaks(n, c, target), Broadcast(n, c, target, m),
           c \in {<<"event_s_", tn>>, <<"event_s1_Control_", tn>>}
    PROVE  \E i \in Previous(tn) : n = Name(i) /\ Phase(i)' = "past" /\ Within(i)'
<1>1. EndSpeaks(n, c, target)
  BY WhoSays
<1>2. PICK i \in Score.intervals : n = Name(i) /\ c = EndChannels(i).event_e1
  BY <1>1, WhoEnds
<1>3. EndSync(i) = tn
  BY <1>2, IntervalTells
<1>4. i \in Previous(tn)
  BY <1>3 DEF Previous
<1>5. Interval(i)' \in {"id7", "flexible", "semi_flexible"}
  <2>1. c[1] \in {"event_s_", "event_s1_Control_"}
    OBVIOUS
  <2>2. EndChannels(i).event_e2[1] \notin {"event_s_", "event_s1_Control_"}
    BY EndPrefixes
  <2> QED BY <1>2, <2>1, <2>2, IntervalSpeaks
<1>6. Phase(i)' = "past"
  BY <1>5, PhaseThenIs
<1> QED BY <1>2, <1>4, <1>6 DEF PastWithin

LEMMA HeraldsDue ==
    ASSUME IInv, Begun, PastWithin, PastWithin', \A x \in Timed : TimelySync(x),
           NEW n \in Elements, NEW c, NEW target, NEW m,
           Speaks(n, c, target), Broadcast(n, c, target, m), NEW tn \in Timed,
           \/ c \in {SyncChannels(tn).event_s, SyncPoint(tn).event_e}
           \/ IsMerge(tn) /\ c = <<"event_s1_Control_", tn>>
    PROVE  Due(tn)'
<1>0. tn \in Score.syncs /\ Previous(tn)' = Previous(tn) /\ TimelySync(tn) /\ now' = now
  BY BroadcastEffect DEF Timed, Previous, EndSync
<1>1. CASE Previous(tn) = {}
  <2>1. ~IsMerge(tn)
    BY <1>1, FS_EmptySet DEF IsMerge
  <2>2. ~Score.active[tn] /\ Holds(tn) = Score.root
    BY <1>0, <1>1 DEF Timed, NoOpeningTrigger
  <2>3. SyncChannels(tn).event_s = GlobalStart /\ SyncPoint(tn).event_e = MixOut(tn)
    BY <1>0, <1>1, <2>1, <2>2, SyncTells
  <2>4. CASE c = GlobalStart
    BY <1>0, <1>1, <2>4, OpeningIsDue DEF Due
  <2>5. CASE c = MixOut(tn)
    BY <2>5, MixOutIsDue, DueStays
  <2> QED BY <2>1, <2>3, <2>4, <2>5
<1>2. CASE Previous(tn) # {}
  <2>1. CASE c = MixOut(tn)
    BY <2>1, MixOutIsDue, DueStays
  <2>2. CASE c \in {<<"event_s_", tn>>, <<"event_s1_Control_", tn>>}
    <3>1. \E i \in Previous(tn) : Within(i)'
      BY <1>0, <2>2, WhoEndsAt
    <3> QED BY <1>0, <1>2, <3>1 DEF Due
  <2>3. CASE IsMerge(tn) /\ c = <<"event_e_Control_", tn>>
    <3>1. ControlSpeaks(n, c, target)
      BY <2>3, WhoSays
    <3>2. n = ControlName(tn)
      BY <2>3, <3>1, WhoReleases
    <3>3. loc[ControlName(tn)] = "id26"
      BY <3>1, <3>2 DEF ControlSpeaks
    <3>4. Due(tn)
      BY <1>0, <2>3, <3>3 DEF TimelySync
    <3> QED BY <3>4, DueStays
  <2>4. CASE Score.active[tn] /\ c = SyncChannels(tn).event_e
    <3>1. CASE \E i \in Previous(tn) :
                  n = Name(i) /\ Interval(i) = IF Score.rigid[i] THEN "id7" ELSE "id15"
      <4>1. PICK i \in Previous(tn) : Interval(i) \in {"id7", "id15"}
        BY <3>1
      <4>2. Within(i)
        BY <4>1, PhaseIs DEF PastWithin, Previous
      <4> QED BY <1>2, <4>2, DueStays DEF Due
    <3>2. CASE n = Name(tn) /\ loc[n] = "id28"
      BY <1>0, <3>2, DueStays DEF TimelySync, PointAt
    <3> QED BY <1>0, <1>2, <2>4, <3>1, <3>2, WhoTellsEnd
  <2> QED BY <1>0, <1>2, <2>1, <2>2, <2>3, <2>4, SyncTells, References
<1> QED BY <1>1, <1>2

-----------------------------------------------------------------------------
(* Every sync and event is set going when it is due.                       *)

\* The Mix of a point forwards what both hear.
LEMMA ForwardedNext ==
    ASSUME NEW x, NEW in, NEW out, NEW cue, NEW kill, NEW c,
           MixMoves(<<"Mix", x>>, in, out, kill, c),
           PointMoves(Name(x), in, out, cue, kill, c),
           in # kill, in # out, kill # out,
           PointAt(x) = "idle" <=> MixAt(x) = "idle",
           PointAt(x) = "enabled" => MixAt(x) = "id22"
    PROVE  /\ PointAt(x)' = "idle" <=> MixAt(x)' = "idle"
           /\ PointAt(x)' = "enabled" => MixAt(x)' = "id22"
           /\ MixAt(x)' = "id22" => MixAt(x) = "id22" \/ c = in
           /\ PointAt(x)' \in {"cond_true", "timeout"} =>
                 PointAt(x) \in {"cond_true", "timeout"} \/ MixAt(x) = "id22"
<1>1. MixAt(x) = loc[<<"Mix", x>>] /\ MixAt(x)' = loc'[<<"Mix", x>>]
  BY DEF MixAt
<1>2. PointAt(x) = loc[Name(x)] /\ PointAt(x)' = loc'[Name(x)]
  BY DEF PointAt
<1>3. PointAt(x)' = "idle" <=> MixAt(x)' = "idle"
  BY <1>1, <1>2 DEF MixMoves, PointMoves
<1>4. PointAt(x)' = "enabled" => MixAt(x)' = "id22"
  BY <1>1, <1>2 DEF MixMoves, PointMoves
<1>5. MixAt(x)' = "id22" => MixAt(x) = "id22" \/ c = in
  BY <1>1 DEF MixMoves
<1>6. PointAt(x)' \in {"cond_true", "timeout"} =>
         PointAt(x) \in {"cond_true", "timeout"} \/ MixAt(x) = "id22"
  BY <1>2 DEF PointMoves
<1> QED BY <1>3, <1>4, <1>5, <1>6

\* How the point and the Mix of a sync move.
LEMMA AnySyncMoves ==
    ASSUME IInv, NEW tn \in Score.syncs, NEW n \in Elements, NEW c, NEW target, NEW m,
           Speaks(n, c, target), Broadcast(n, c, target, m)
    PROVE  /\ PointMoves(Name(tn), SyncChannels(tn).event_s, SyncPoint(tn).event_e,
                         <<"ok_", tn>>, SelfOfSync(tn).kill, c)
           /\ ~Score.active[tn] =>
                 MixMoves(<<"Mix", tn>>, SyncChannels(tn).event_s, MixOut(tn),
                          SelfOfSync(tn).kill, c)
<1>1. /\ SyncPoint(tn).event_s = SyncChannels(tn).event_s /\ SyncPoint(tn).event_t = <<"ok_", tn>>
      /\ SyncPoint(tn).kill_p = SelfOfSync(tn).kill
  BY DEF SyncPoint
<1>2. /\ SyncMix(tn).event_in = SyncChannels(tn).event_s /\ SyncMix(tn).event_out = MixOut(tn)
      /\ SyncMix(tn).kill_p = SelfOfSync(tn).kill
  BY DEF SyncMix
<1>3. PointMoves(Name(tn), SyncPoint(tn).event_s, SyncPoint(tn).event_e, SyncPoint(tn).event_t,
                 SyncPoint(tn).kill_p, c)
  BY SyncNamed, PointMovesOn
<1>4. ~Score.active[tn] =>
         MixMoves(<<"Mix", tn>>, SyncMix(tn).event_in, SyncMix(tn).event_out,
                  SyncMix(tn).kill_p, c)
  BY SyncNamed, MixMovesOn
<1> QED BY <1>1, <1>2, <1>3, <1>4

\* While a trigger listens, what it waited for is past.
LEMMA EnabledWaits ==
    ASSUME IInv, PastWithin', NEW tn \in Timed, TimelySync(tn), Score.active[tn],
           NEW n \in Elements, NEW c, NEW target, NEW m,
           Speaks(n, c, target), Broadcast(n, c, target, m),
           PointAt(tn)' = "enabled", NEW i \in Previous(tn)
    PROVE  Phase(i)' = "past"
<1>1. tn \in Score.syncs /\ Previous(tn) # {} /\ ~IsMerge(tn)
  BY DEF Timed
<1>2. i \in Score.intervals /\ EndSync(i) = tn
  BY DEF Previous
<1>3. PointMoves(Name(tn), SyncChannels(tn).event_s, SyncPoint(tn).event_e, <<"ok_", tn>>,
                 SelfOfSync(tn).kill, c)
  BY <1>1, AnySyncMoves
<1>4. CASE c = SyncChannels(tn).event_s
  <2>1. c = <<"event_s_", tn>>
    BY <1>1, <1>4, SyncTells
  <2>2. PICK j \in Previous(tn) : Phase(j)' = "past"
    BY <1>1, <2>1, WhoEndsAt
  <2> QED BY <1>1, <2>2, AloneUnlessMerge
<1>5. CASE c # SyncChannels(tn).event_s
  <2>1. /\ loc[Name(tn)] = "enabled"
        /\ c \notin {SyncPoint(tn).event_e, SelfOfSync(tn).kill}
    BY <1>3, <1>5 DEF PointMoves, PointAt
  <2>2. Interval(i) \in {"id7", "flexible", "semi_flexible", "id15"}
    BY <2>1, PhaseIs DEF TimelySync, PointAt
  <2>3. c # EndChannels(i).event_e2
    BY <1>1, <1>2, <2>1, SyncTells, IntervalTells
  <2>4. c # KillOf(i)
    <3>1. ScenarioOfInterval(i) = Score.scenarioOf[tn]
      BY <1>2, ScoreIsDocument DEF ScoreAssumption, ScenarioOfInterval, StartSync, EndSync
    <3> QED BY <2>1, <3>1 DEF KillOf, SelfOfSync
  <2>5. Interval(i)' \in {"id7", "flexible", "semi_flexible", "id15"}
    <3>1. n # Name(i)
      BY <1>2, <2>2, <2>3, IntervalSpeaks
    <3> QED BY <1>2, <2>2, <2>3, <2>4, <3>1, IntervalHears
  <2> QED BY <2>5, PhaseThenIs
<1> QED BY <1>4, <1>5

LEMMA TimelySyncNext ==
    ASSUME IInv, Begun, PastWithin, PastWithin', \A x \in Timed : TimelySync(x),
           NEW n \in Elements, NEW c, NEW target, NEW m,
           Speaks(n, c, target), Broadcast(n, c, target, m), NEW tn \in Timed
    PROVE  TimelySync(tn)'
<1>0. tn \in Score.syncs /\ TimelySync(tn) /\ Score.active[tn] \in BOOLEAN
  BY References DEF Timed
<1>1. PointMoves(Name(tn), SyncChannels(tn).event_s, SyncPoint(tn).event_e, <<"ok_", tn>>,
                 SelfOfSync(tn).kill, c)
  BY <1>0, AnySyncMoves
<1>2. PointAt(tn) = loc[Name(tn)] /\ PointAt(tn)' = loc'[Name(tn)]
  BY DEF PointAt
<1>3. Due(tn) => Due(tn)'
  BY DueStays
<1>4. c = SyncChannels(tn).event_s => Due(tn)'
  BY HeraldsDue
<1>5. ASSUME IsMerge(tn), loc'[ControlName(tn)] = "id26" PROVE Due(tn)'
  <2>1. n # ControlName(tn)
    BY <1>5, BroadcastEffect, SaidPrefixes
  <2>2. CASE loc[ControlName(tn)] = "id26"
    BY <1>0, <1>3, <1>5, <2>2 DEF TimelySync
  <2>3. CASE loc[ControlName(tn)] # "id26"
    <3>1. c = <<"event_s1_Control_", tn>>
      BY <1>0, <1>5, <2>1, <2>3, MergeHears
    <3> QED BY <1>5, <3>1, HeraldsDue
  <2> QED BY <2>2, <2>3
<1>6. ASSUME PointAt(tn)' \in {"cond_true", "timeout", "id28"} PROVE Due(tn)'
  <2>1. PointAt(tn) \in {"enabled", "cond_true", "timeout", "id28"}
    BY <1>1, <1>2, <1>6 DEF PointMoves
  <2>2. ASSUME PointAt(tn) = "enabled" PROVE Due(tn)
    <3>1. CASE Score.active[tn]
      <4>1. Previous(tn) # {}
        BY <3>1 DEF Timed, NoOpeningTrigger
      <4>2. PICK i \in Previous(tn) : Phase(i) = "past"
        BY <1>0, <2>2, <3>1, <4>1 DEF TimelySync
      <4>3. Within(i)
        BY <4>2 DEF PastWithin, Previous
      <4> QED BY <4>1, <4>3 DEF Due
    <3>2. CASE ~Score.active[tn]
      BY <1>0, <2>2, <3>2 DEF TimelySync, Forwarded
    <3> QED BY <3>1, <3>2
  <2>3. Due(tn)
    BY <1>0, <2>1, <2>2 DEF TimelySync
  <2> QED BY <1>3, <2>3
<1>7. ASSUME Score.active[tn], PointAt(tn)' = "enabled"
      PROVE  \A i \in Previous(tn) : Phase(i)' = "past"
  BY <1>0, <1>7, EnabledWaits
<1>8. ASSUME ~Score.active[tn] PROVE Forwarded(tn, Due(tn))'
  <2> DEFINE in == SyncChannels(tn).event_s
             kill == SelfOfSync(tn).kill
  <2>1. MixMoves(<<"Mix", tn>>, in, MixOut(tn), kill, c)
    BY <1>0, <1>8, AnySyncMoves
  <2>2. PointMoves(Name(tn), in, MixOut(tn), <<"ok_", tn>>, kill, c)
    BY <1>0, <1>1, <1>8, SyncTells
  <2>3. in # kill /\ in # MixOut(tn) /\ kill # MixOut(tn)
    BY SyncPrefixes DEF MixOut
  <2>4. /\ PointAt(tn) = "idle" <=> MixAt(tn) = "idle"
        /\ PointAt(tn) = "enabled" => MixAt(tn) = "id22"
        /\ MixAt(tn) = "id22" => Due(tn)
    BY <1>0, <1>8 DEF TimelySync, Forwarded
  <2>5. c = in => Due(tn)'
    BY <1>4
  <2> HIDE DEF in, kill
  <2>6. /\ PointAt(tn)' = "idle" <=> MixAt(tn)' = "idle"
        /\ PointAt(tn)' = "enabled" => MixAt(tn)' = "id22"
        /\ MixAt(tn)' = "id22" => MixAt(tn) = "id22" \/ c = in
    BY <2>1, <2>2, <2>3, <2>4, ForwardedNext
  <2> QED BY <1>3, <2>4, <2>5, <2>6 DEF Forwarded
<1>9. Previous(tn)' = Previous(tn)
  BY DEF Previous, EndSync
<1> QED BY <1>5, <1>6, <1>7, <1>8, <1>9 DEF TimelySync

\* How the point of an event, and its Mix, move.
LEMMA AnyEventMoves ==
    ASSUME IInv, NEW ev \in Score.events, NEW n \in Elements, NEW c, NEW target, NEW m,
           Speaks(n, c, target), Broadcast(n, c, target, m)
    PROVE  LET tn == Score.syncOf[ev]
           IN  /\ PointMoves(Name(ev), SyncPoint(tn).event_e, <<"emax_", ev>>, <<"ok_", ev>>,
                             SelfOfSync(tn).kill, c)
               /\ ev \notin DOMAIN Score.expression =>
                     MixMoves(<<"Mix", ev>>, SyncPoint(tn).event_e, <<"emax_", ev>>,
                              SelfOfSync(tn).kill, c)
<1> DEFINE tn == Score.syncOf[ev]
<1>1. /\ EventPoint(ev).event_s = SyncPoint(tn).event_e
      /\ EventPoint(ev).event_e = <<"emax_", ev>> /\ EventPoint(ev).event_t = <<"ok_", ev>>
      /\ EventPoint(ev).kill_p = SelfOfSync(tn).kill
  BY DEF EventPoint
<1>2. /\ EventMix(ev).event_in = EventPoint(ev).event_s
      /\ EventMix(ev).event_out = EventPoint(ev).event_e
      /\ EventMix(ev).kill_p = EventPoint(ev).kill_p
  BY DEF EventMix
<1>3. PointMoves(Name(ev), EventPoint(ev).event_s, EventPoint(ev).event_e,
                 EventPoint(ev).event_t, EventPoint(ev).kill_p, c)
  BY EventNamed, PointMovesOn
<1>4. ev \notin DOMAIN Score.expression =>
         MixMoves(<<"Mix", ev>>, EventMix(ev).event_in, EventMix(ev).event_out,
                  EventMix(ev).kill_p, c)
  <2>1. ev \notin DOMAIN Score.expression =>
           <<"Mix", ev>> \in Mixs /\ Decl[<<"Mix", ev>>] = EventMix(ev)
    BY IsPrinted, PrintedKinds, Named DEF Mixs, OfKind
  <2> QED BY <2>1, MixMovesOn
<1> HIDE DEF tn
<1>5. /\ PointMoves(Name(ev), SyncPoint(tn).event_e, <<"emax_", ev>>, <<"ok_", ev>>,
                    SelfOfSync(tn).kill, c)
      /\ ev \notin DOMAIN Score.expression =>
            MixMoves(<<"Mix", ev>>, SyncPoint(tn).event_e, <<"emax_", ev>>,
                     SelfOfSync(tn).kill, c)
  BY <1>1, <1>2, <1>3, <1>4
<1> QED BY <1>5 DEF tn

\* An event with an expression hears of its own date only.
LEMMA ExpressionDated ==
    ASSUME NEW ev \in DOMAIN Score.expression \cap Score.events,
           NEW n \in Elements, NEW c, NEW target, Speaks(n, c, target), n # Name(ev),
           c \in {<<"emax_", ev>>, <<"event_", ev>>}
    PROVE  now = Ticks(Score.date[Score.syncOf[ev]])
<1>1. ~MixSpeaks(n, c, target)
  <2> SUFFICES ASSUME MixSpeaks(n, c, target) PROVE FALSE
    OBVIOUS
  <2>1. n = <<"Mix", ev>> /\ n \in Mixs
    BY WhoForwards DEF MixSpeaks, MixOut
  <2>2. Decl[n] \in Printed /\ Decl[n].name = <<"Mix", ev>> /\ Decl[n].kind = "Mix"
    BY <2>1, Declared DEF Mixs, OfKind
  <2>3. /\ EndMix.name # <<"Mix", ev>>
        /\ \A tn \in Score.syncs : SyncMix(tn).name # <<"Mix", ev>>
        /\ \A x \in Score.events : EventMix(x).name = <<"Mix", ev>> => x = ev
    BY PrintedKinds, OwnNames
  <2>4. /\ \A tn : SyncPoint(tn).kind # "Mix" /\ SyncEvent(tn).kind # "Mix"
                   /\ SyncControl(tn).kind # "Mix"
        /\ \A x : EventPoint(x).kind # "Mix" /\ EventEvent(x).kind # "Mix"
        /\ \A i \in Score.intervals : IntervalElement(i).kind # "Mix"
        /\ Base.kind # "Mix" /\ MainStartEvent.kind # "Mix" /\ MainEndEvent.kind # "Mix"
    BY PrintedKinds, References
  <2> QED BY <2>2, <2>3, <2>4, PrintedIs
<1>2. ~PointSpeaks(n, c, target)
  <2>1. \A tn \in Score.syncs : SyncPoint(tn).event_e[1] \notin {"emax_", "event_"}
    BY SyncPrefixes, SyncTells, References DEF MixOut
  <2> QED BY <2>1, WhoTriggers
<1>3. EventSpeaks(n, c, target)
  BY <1>1, <1>2, WhoSays
<1>4. /\ n \in Events \cup EventsND /\ c = Decl[n].event
      /\ n \in Events => now = Decl[n].date
  BY <1>3 DEF EventSpeaks
<1>5. /\ MainStartEvent.event = GlobalStart /\ MainEndEvent.event = GlobalEnd
      /\ \A tn \in Score.syncs : SyncEvent(tn).event = <<"event_", tn>>
      /\ \A x : EventEvent(x).event = <<"emax_", x>>
  BY DEF MainStartEvent, MainEndEvent, SyncEvent, EventEvent
<1>6. Decl[n] = EventEvent(ev)
  <2>1. /\ GlobalStart \notin {<<"emax_", ev>>, <<"event_", ev>>}
        /\ GlobalEnd \notin {<<"emax_", ev>>, <<"event_", ev>>}
        /\ \A tn \in Score.syncs : <<"event_", tn>> \notin {<<"emax_", ev>>, <<"event_", ev>>}
        /\ \A x : <<"emax_", x>> \in {<<"emax_", ev>>, <<"event_", ev>>} => x = ev
    BY OwnNames DEF GlobalStart, GlobalEnd
  <2> QED BY <1>4, <1>5, <2>1, EventIs
<1>7. n \in Events
  BY <1>6, PrintedKinds DEF Events, OfKind
<1>8. EventEvent(ev).date = Ticks(Score.date[Score.syncOf[ev]])
  BY DEF EventEvent
<1> QED BY <1>4, <1>6, <1>7, <1>8

LEMMA TimelyEventNext ==
    ASSUME IInv, Begun, PastWithin, PastWithin', \A x \in Timed : TimelySync(x),
           NEW n \in Elements, NEW c, NEW target, NEW m,
           Speaks(n, c, target), Broadcast(n, c, target, m),
           NEW ev \in Score.events, Score.syncOf[ev] \in Timed, TimelyEvent(ev)
    PROVE  TimelyEvent(ev)'
<1> DEFINE tn == Score.syncOf[ev]
           in == SyncPoint(tn).event_e
           kill == SelfOfSync(tn).kill
<1>0. tn \in Timed /\ tn \in Score.syncs /\ now' = now
  BY BroadcastEffect DEF Timed
<1>1. /\ PointMoves(Name(ev), in, <<"emax_", ev>>, <<"ok_", ev>>, kill, c)
      /\ ev \notin DOMAIN Score.expression =>
            MixMoves(<<"Mix", ev>>, in, <<"emax_", ev>>, kill, c)
  BY AnyEventMoves
<1>2. PointAt(ev) = loc[Name(ev)] /\ PointAt(ev)' = loc'[Name(ev)]
  BY DEF PointAt
<1>3. CASE ev \in DOMAIN Score.expression
  <2>1. ASSUME PointAt(ev)' \in {"cond_true", "timeout"}
        PROVE  now = Ticks(Score.date[tn])
    <3>1. CASE PointAt(ev) \in {"cond_true", "timeout"}
      BY <1>3, <3>1 DEF TimelyEvent
    <3>2. CASE PointAt(ev) \notin {"cond_true", "timeout"}
      <4>1. n # Name(ev)
        BY <1>2, <2>1, BroadcastEffect, SaidPrefixes
      <4>2. c \in {<<"emax_", ev>>, <<"event_", ev>>}
        BY <1>2, <2>1, <3>2, <4>1, EventHears
      <4> QED BY <1>3, <4>1, <4>2, ExpressionDated
    <3> QED BY <3>1, <3>2
  <2>2. Ticks(Score.date[tn])' = Ticks(Score.date[tn])
    BY DEF Ticks
  <2> QED BY <1>0, <1>3, <2>1, <2>2 DEF TimelyEvent
<1>4. CASE ev \notin DOMAIN Score.expression
  <2>1. in # kill /\ in # <<"emax_", ev>> /\ kill # <<"emax_", ev>>
    BY SyncPrefixes, SyncTells, <1>0, References DEF MixOut
  <2>2. /\ PointAt(ev) = "idle" <=> MixAt(ev) = "idle"
        /\ PointAt(ev) = "enabled" => MixAt(ev) = "id22"
        /\ MixAt(ev) = "id22" => Due(tn)
        /\ PointAt(ev) \in {"cond_true", "timeout"} => Due(tn)
    BY <1>4 DEF TimelyEvent, Forwarded
  <2>3. c = in => Due(tn)'
    BY <1>0, HeraldsDue
  <2>4. Due(tn) => Due(tn)'
    BY DueStays
  <2> HIDE DEF in, kill
  <2>5. /\ PointAt(ev)' = "idle" <=> MixAt(ev)' = "idle"
        /\ PointAt(ev)' = "enabled" => MixAt(ev)' = "id22"
        /\ MixAt(ev)' = "id22" => MixAt(ev) = "id22" \/ c = in
        /\ PointAt(ev)' \in {"cond_true", "timeout"} =>
              PointAt(ev) \in {"cond_true", "timeout"} \/ MixAt(ev) = "id22"
    BY <1>1, <1>4, <2>1, <2>2, ForwardedNext
  <2> QED BY <1>4, <2>2, <2>3, <2>4, <2>5 DEF TimelyEvent, Forwarded
<1> QED BY <1>3, <1>4

\* Time passes only when nothing is about to be set going.
LEMMA TimelySilent ==
    ASSUME IInv, Begun, Timely, PastWithin',
           \/ \E n \in Flexibles : FlexibleReachesMax(n)
           \/ \E n \in Controls : ControlWaits(n)
           \/ Delay
           \/ UNCHANGED vars
    PROVE  Timely'
<1>1. /\ \A p \in Points \cup Mixs : loc'[p] = loc[p]
      /\ \A i \in Score.intervals : Phase(i)' = Phase(i)
      /\ started' = started
  BY SilentStep
<1>2. \/ now' = now
      \/ \A n \in Elements : loc[n] \notin {"id22", "id26", "cond_true", "timeout", "id28"}
  BY DEF FlexibleReachesMax, ControlWaits, Delay, MayDelay, CommittedLocations,
         UrgentLocations, vars
<1>3. ASSUME NEW x \in Score.syncs \cup Score.events
      PROVE  PointAt(x)' = PointAt(x) /\ Name(x) \in Elements
  BY <1>1, SyncNamed, EventNamed DEF PointAt, Points, OfKind
<1>4. ASSUME NEW x, <<"Mix", x>> \in Mixs
      PROVE  MixAt(x)' = MixAt(x) /\ <<"Mix", x>> \in Elements
  BY <1>1, <1>4 DEF MixAt, Mixs, OfKind
<1>5. ASSUME now' = now, NEW tn PROVE Due(tn)' <=> Due(tn)
  <2>1. \A i : Within(i)' <=> Within(i)
    BY <1>1, <1>5 DEF Within, Since, Shortest, Longest, Ticks
  <2> QED BY <1>5, <2>1 DEF Due, Previous, EndSync
<1>6. ASSUME NEW tn \in Timed PROVE TimelySync(tn)'
  <2>0. tn \in Score.syncs /\ TimelySync(tn)
    BY DEF Timed, Timely
  <2>1. ASSUME IsMerge(tn), loc'[ControlName(tn)] = "id26" PROVE Due(tn)'
    <3>1. loc[ControlName(tn)] = "id26" /\ ControlName(tn) \in Elements
      <4>1. ControlName(tn) \in Controls
        BY <2>0, <2>1, SyncNamed
      <4>2. \/ loc'[ControlName(tn)] = loc[ControlName(tn)]
            \/ loc'[ControlName(tn)] \in {"idle", "id15"}
        BY <4>1 DEF FlexibleReachesMax, ControlWaits, Delay, vars, IInv, TypeOK, Controls, OfKind
      <4> QED BY <2>1, <4>1, <4>2 DEF Controls, OfKind
    <3> QED BY <1>2, <1>5, <2>0, <2>1, <3>1 DEF TimelySync
  <2>2. ASSUME PointAt(tn)' \in {"cond_true", "timeout", "id28"} PROVE Due(tn)'
    <3>1. PointAt(tn) \in {"cond_true", "timeout", "id28"} /\ Name(tn) \in Elements
      BY <1>3, <2>0, <2>2
    <3>2. now' = now
      BY <1>2, <3>1 DEF PointAt
    <3> QED BY <1>5, <2>0, <3>1, <3>2 DEF TimelySync
  <2>3. ASSUME Score.active[tn], PointAt(tn)' = "enabled"
        PROVE  \A i \in Previous(tn) : Phase(i)' = "past"
    <3>1. \A i \in Previous(tn) : Phase(i) = "past"
      BY <1>3, <2>0, <2>3 DEF TimelySync
    <3> QED BY <1>1, <3>1 DEF Previous
  <2>4. ASSUME ~Score.active[tn] PROVE Forwarded(tn, Due(tn))'
    <3>1. MixAt(tn)' = MixAt(tn) /\ PointAt(tn)' = PointAt(tn) /\ <<"Mix", tn>> \in Elements
      BY <1>3, <1>4, <2>0, <2>4, SyncNamed
    <3>2. MixAt(tn) = "id22" => now' = now
      BY <1>2, <3>1 DEF MixAt
    <3>3. MixAt(tn) = "id22" => Due(tn)'
      BY <1>5, <2>0, <2>4, <3>2 DEF TimelySync, Forwarded
    <3> QED BY <2>0, <2>4, <3>1, <3>3 DEF TimelySync, Forwarded
  <2>5. Previous(tn)' = Previous(tn)
    BY DEF Previous, EndSync
  <2> QED BY <2>1, <2>2, <2>3, <2>4, <2>5 DEF TimelySync
<1>7. ASSUME NEW ev \in Score.events, Score.syncOf[ev] \in Timed PROVE TimelyEvent(ev)'
  <2> DEFINE tn == Score.syncOf[ev]
  <2>0. TimelyEvent(ev) /\ PointAt(ev)' = PointAt(ev) /\ Name(ev) \in Elements
    BY <1>3, <1>7 DEF Timely
  <2>1. PointAt(ev) \in {"cond_true", "timeout"} => now' = now
    BY <1>2, <2>0 DEF PointAt
  <2>2. CASE ev \in DOMAIN Score.expression
    BY <2>0, <2>1, <2>2 DEF TimelyEvent, Ticks
  <2>3. CASE ev \notin DOMAIN Score.expression
    <3>1. MixAt(ev)' = MixAt(ev) /\ <<"Mix", ev>> \in Elements
      BY <1>4, <2>3, IsPrinted, PrintedKinds, Named DEF Mixs, OfKind
    <3>2. MixAt(ev) = "id22" => now' = now
      BY <1>2, <3>1 DEF MixAt
    <3>3. now' = now => (Due(tn)' <=> Due(tn))
      BY <1>5
    <3> HIDE DEF tn
    <3>4. Forwarded(ev, Due(tn)) /\ (PointAt(ev) \in {"cond_true", "timeout"} => Due(tn))
      BY <2>0, <2>3 DEF TimelyEvent, tn
    <3>5. /\ Forwarded(ev, Due(tn))'
          /\ PointAt(ev)' \in {"cond_true", "timeout"} => Due(tn)'
      BY <2>0, <2>1, <3>1, <3>2, <3>3, <3>4 DEF Forwarded
    <3> QED BY <2>3, <3>5 DEF TimelyEvent, tn
  <2> QED BY <2>2, <2>3
<1>8. Timed' = Timed
  BY DEF Timed, Previous, EndSync, Holds, NoOpeningTrigger
<1> QED BY <1>6, <1>7, <1>8 DEF Timely

LEMMA TimelyNext ==
    ASSUME IInv, NeverSkipped, Begun, Timely, [Next]_vars
    PROVE  Timely'
<1>1. PastWithin'
  BY PastWithinNext DEF Timely
<1>2. ASSUME NEW n \in Elements, NEW c, NEW target, NEW m,
             Speaks(n, c, target), Broadcast(n, c, target, m)
      PROVE  Timely'
  <2>1. \A tn \in Timed : TimelySync(tn)'
    BY <1>1, <1>2, TimelySyncNext DEF Timely
  <2>2. \A ev \in Score.events : Score.syncOf[ev] \in Timed => TimelyEvent(ev)'
    BY <1>1, <1>2, TimelyEventNext DEF Timely
  <2>3. Timed' = Timed
    BY DEF Timed, Previous, EndSync, Holds, NoOpeningTrigger
  <2> QED BY <1>1, <2>1, <2>2, <2>3 DEF Timely
<1> QED BY <1>1, <1>2, TimelySilent, StepIs

LEMMA TimelyInit == Init => Timely
<1> SUFFICES ASSUME Init PROVE Timely
  OBVIOUS
<1>1. \A n \in Elements : n \notin Events => loc[n] = "idle"
  BY DEF Init
<1>2. \A x \in Score.syncs \cup Score.events : PointAt(x) = "idle"
  BY <1>1, SyncNamed, EventNamed DEF PointAt, Points, Events, OfKind
<1>3. /\ \A tn \in Score.syncs : ~Score.active[tn] => MixAt(tn) = "idle"
      /\ \A tn \in Score.syncs : IsMerge(tn) => loc[ControlName(tn)] = "idle"
  BY <1>1, SyncNamed DEF MixAt, Mixs, Controls, Events, OfKind
<1>4. \A ev \in Score.events : ev \notin DOMAIN Score.expression => MixAt(ev) = "idle"
  <2>1. \A ev \in Score.events : ev \notin DOMAIN Score.expression => <<"Mix", ev>> \in Mixs
    BY IsPrinted, PrintedKinds, Named DEF Mixs, OfKind
  <2> QED BY <1>1, <2>1 DEF MixAt, Mixs, Events, OfKind
<1>5. PastWithin
  <2>1. \A i \in Score.intervals : Interval(i) = "idle"
    BY <1>1, IntervalNamed DEF Interval, Intervals, Rigids, Flexibles, Events, OfKind
  <2> QED BY <2>1, PhaseIs DEF PastWithin
<1>6. \A tn \in Timed : TimelySync(tn)
  BY <1>2, <1>3 DEF Timed, TimelySync, Forwarded
<1>7. \A ev \in Score.events : TimelyEvent(ev)
  BY <1>2, <1>4 DEF TimelyEvent, Forwarded
<1> QED BY <1>5, <1>6, <1>7 DEF Timely

\* Whatever a sync or an event sets going starts when an interval before it
\* has lasted as long as the score says.
LEMMA TimelyInvariance == Spec => [](IInv /\ NeverSkipped /\ Begun /\ Timely)
<1>1. IInv /\ NeverSkipped /\ Begun /\ Timely /\ [Next]_vars => Timely'
  BY TimelyNext
<1>2. Spec => [](IInv /\ NeverSkipped /\ Begun)
  <2>1. Spec => [](IInv /\ Begun /\ Tallied)
    BY ConvertedIsWired, TallyKept
  <2> QED BY <2>1, NothingIsSkipped, PTL
<1> QED BY <1>1, <1>2, TimelyInit, PTL DEF Spec

-----------------------------------------------------------------------------
(* The two exports of a score agree.                                       *)

\* A rigid interval has one duration.
RigidsFixed ==
    \A i \in Score.intervals :
        Score.rigid[i] => Score.min[i] = Score.dur[i] /\ Score.max[i] = Score.dur[i]

\* No event waits for its own date after an interval that has a maximum.
EndsUnconditioned ==
    \A j \in Score.intervals, ev \in Score.events :
        ~Score.infinite[j] /\ Score.syncOf[ev] = EndSync(j) => ev \notin DOMAIN Score.expression

\* What starts an interval starts it when the interval before it, if that one has
\* a maximum, has lasted as long as the score says.
LEMMA StartsInTime ==
    ASSUME MergesUnforced, EndsUnconditioned,
           IInv, NeverSkipped, StartsOnCue, HeardWhenReady, Timely, [Next]_vars,
           NEW i \in Score.intervals, Phase(i) = "waiting", Phase(i)' = "running",
           NEW j \in Previous(StartSync(i))
    PROVE  /\ Phase(j) \in {"past", "over"}
           /\ ~Score.infinite[j] => Within(j)
<1> DEFINE ev == Score.startEvent[i]
           tn == StartSync(i)
<1>1. ev \in Score.events /\ Score.syncOf[ev] = tn /\ tn \in Score.syncs
  BY References DEF StartSync
<1>2. j \in Score.intervals /\ EndSync(j) = tn
  BY DEF Previous
<1>3. PointAt(ev) \in {"cond_true", "timeout"}
  BY PhaseIs, PhaseThenIs, StartIsSaid, ReadyOpenings DEF PointAt
<1>4. Phase(j) \in {"past", "over"}
  BY <1>1, <1>3 DEF HeardWhenReady, Ready, PointAt
<1>5. ASSUME ~Score.infinite[j] PROVE Within(j)
  <2>1. ~IsMerge(tn)
    BY <1>2, <1>5 DEF MergesUnforced
  <2>2. tn \in Timed
    BY <1>1, <2>1 DEF Timed
  <2>3. ev \notin DOMAIN Score.expression
    BY <1>1, <1>2, <1>5 DEF EndsUnconditioned
  <2>4. Due(tn)
    BY <1>1, <1>3, <2>2, <2>3 DEF Timely, TimelyEvent
  <2>5. PICK k \in Previous(tn) : Within(k)
    BY <2>4 DEF Due
  <2> QED BY <2>1, <2>5, AloneUnlessMerge
<1> QED BY <1>4, <1>5

\* In every score where nothing forces a merge and rigid intervals have one
\* duration, the network starts an interval only when its ReactiveIS structure does.
THEOREM ExportsAgree ==
    ASSUME MergesUnforced, RigidsFixed, EndsUnconditioned
    PROVE  Spec => ReactiveAgrees
<1> DEFINE Agrees == \A i \in Score.intervals :
                        Phase(i) = "waiting" /\ Phase(i)' = "running" => StartsWhen(i)
<1>1. TriggersUnforced
  BY DEF MergesUnforced, TriggersUnforced
<1>2. ASSUME IInv, NeverSkipped, PlayInv, Begun, Timely, [Next]_vars PROVE [Agrees]_vars
  <2> SUFFICES ASSUME NEW i \in Score.intervals, Phase(i) = "waiting", Phase(i)' = "running",
                      NEW s \in Structures, s.name = i, NEW w \in s.start_when
               PROVE  /\ Phase(w.start) # "waiting"
                      /\ ~Score.infinite[w.start] =>
                            now - started[Name(w.start)] \in Ticks(w.min)..Ticks(w.max)
    BY DEF StartsWhen
  <2>1. s.start_when = StartWhen(i)
    BY DEF Structures, Structure
  <2>2. PICK j \in Previous(StartSync(i)) : w = Wait(j)
    BY <2>1 DEF StartWhen
  <2>3. w.start = j /\ w.min = Score.min[j] /\ w.max = Score.max[j]
    BY <2>2 DEF Wait
  <2>4. Phase(j) \in {"past", "over"} /\ (~Score.infinite[j] => Within(j))
    BY <1>2, StartsInTime DEF PlayInv
  <2>5. j \in Score.intervals
    BY DEF Previous
  <2>6. ASSUME ~Score.infinite[j] PROVE now - Since(j) \in Ticks(w.min)..Ticks(w.max)
    <3>1. Shortest(j) = Ticks(w.min) /\ Longest(j) = Ticks(w.max)
      BY <2>3, <2>5 DEF Shortest, Longest, RigidsFixed
    <3>2. Since(j) \in Int /\ now \in Nat /\ Shortest(j) \in Nat /\ Longest(j) \in Nat
      BY <1>2, <2>5, BegunIs, DurationsAre
    <3>3. now - Since(j) >= Shortest(j) /\ now - Since(j) <= Longest(j)
      BY <2>4, <2>6 DEF Within
    <3> QED BY <3>1, <3>2, <3>3
  <2> QED BY <2>3, <2>4, <2>6 DEF Since
<1> HIDE DEF Agrees
<1>3. Spec => []PlayInv
  BY <1>1, PlayInvariance, PTL
<1>4. Spec => [][Agrees]_vars
  BY <1>2, <1>3, TimelyInvariance, PTL DEF Spec
<1> QED BY <1>4 DEF ReactiveAgrees, Agrees

-----------------------------------------------------------------------------
(* How many intervals in a row lead to a sync.                             *)

\* A sync is reached only from syncs of a lower rank.
Layered(N, rank) ==
    /\ rank \in [Score.syncs -> 0..N]
    /\ \A i \in Score.intervals : rank[StartSync(i)] < rank[EndSync(i)]

\* Links, one step of it, and the functions that satisfy it up to some rank.
LinksFrom(f, tn) ==
    IF Previous(tn) = {} THEN 0 ELSE 1 + Sets!Max({f[StartSync(i)] : i \in Previous(tn)})
LinksBelow(f, k, rank) ==
    /\ f \in [Score.syncs -> Nat]
    /\ \A tn \in Score.syncs : /\ f[tn] <= rank[tn]
                               /\ rank[tn] < k => f[tn] = LinksFrom(f, tn)

\* A set of bounded numbers has a maximum.
LEMMA MaxIs ==
    ASSUME NEW S, S \subseteq Nat, S # {}, NEW b \in Nat, \A x \in S : x <= b
    PROVE  Sets!Max(S) \in S /\ \A x \in S : x <= Sets!Max(S)
<1> DEFINE T == {u \in Nat : \A x \in S : x <= u}
<1>1. PICK u \in T : \A v \in T : u <= v
  <2>1. b \in T /\ T \subseteq Nat
    OBVIOUS
  <2> QED BY <2>1, LeastNat
<1>2. u \in S
  <2> SUFFICES ASSUME u \notin S PROVE FALSE
    OBVIOUS
  <2>1. \A x \in S : x < u
    BY <1>1
  <2>2. PICK x \in S : x < u
    BY <2>1
  <2>3. u - 1 \in T
    BY <2>1, <2>2
  <2> QED BY <1>1, <2>3
<1>3. \E x \in S : \A y \in S : x >= y
  BY <1>1, <1>2
<1>4. Sets!Max(S) \in S /\ \A y \in S : Sets!Max(S) >= y
  BY <1>3 DEF Sets!Max
<1> QED BY <1>4

\* One step of Links: one more than at any sync before, and no more than the rank.
LEMMA LinksFromIs ==
    ASSUME NEW N \in Nat, NEW rank, Layered(N, rank),
           NEW f \in [Score.syncs -> Nat], \A tn \in Score.syncs : f[tn] <= rank[tn],
           NEW tn \in Score.syncs
    PROVE  /\ LinksFrom(f, tn) \in Nat /\ LinksFrom(f, tn) <= rank[tn]
           /\ \A i \in Previous(tn) : f[StartSync(i)] + 1 <= LinksFrom(f, tn)
<1> DEFINE S == {f[StartSync(i)] : i \in Previous(tn)}
<1>0. rank[tn] \in Nat
  BY DEF Layered
<1>1. \A i \in Previous(tn) :
         /\ StartSync(i) \in Score.syncs /\ rank[StartSync(i)] < rank[tn]
         /\ rank[StartSync(i)] \in Nat /\ f[StartSync(i)] \in Nat
         /\ f[StartSync(i)] + 1 <= rank[tn]
  BY <1>0, References DEF Layered, Previous
<1>2. CASE Previous(tn) = {}
  <2>1. LinksFrom(f, tn) = 0
    BY <1>2 DEF LinksFrom
  <2> QED BY <1>0, <1>2, <2>1
<1>3. CASE Previous(tn) # {}
  <2>1. S \subseteq Nat /\ S # {} /\ \A x \in S : x + 1 <= rank[tn]
    BY <1>1, <1>3
  <2>2. ASSUME NEW x \in S PROVE x <= rank[tn]
    <3>1. x \in Nat /\ x + 1 <= rank[tn]
      BY <2>1
    <3> QED BY <1>0, <3>1
  <2> HIDE DEF S
  <2>3. Sets!Max(S) \in S /\ \A x \in S : x <= Sets!Max(S)
    <3>1. \A x \in S : x <= rank[tn]
      BY <2>2
    <3>2. S \subseteq Nat /\ S # {} /\ rank[tn] \in Nat
      BY <1>0, <2>1
    <3> QED BY <3>1, <3>2, MaxIs
  <2>4. LinksFrom(f, tn) = 1 + Sets!Max(S)
    BY <1>3 DEF LinksFrom, S
  <2>5. \A i \in Previous(tn) : f[StartSync(i)] \in S
    BY DEF S
  <2>6. Sets!Max(S) \in Nat /\ Sets!Max(S) + 1 <= rank[tn]
    BY <2>1, <2>3
  <2>7. \A i \in Previous(tn) : f[StartSync(i)] <= Sets!Max(S)
    BY <2>3, <2>5
  <2> QED BY <1>0, <1>1, <2>4, <2>6, <2>7
<1> QED BY <1>2, <1>3

\* Links is what its definition says: the syncs before one are of lower rank.
LEMMA LinksExist ==
    ASSUME NEW N \in Nat, NEW rank, Layered(N, rank)
    PROVE  \E f : LinksBelow(f, N + 1, rank)
<1> DEFINE Bad == {k \in Nat : ~\E f : LinksBelow(f, k, rank)}
<1>1. rank \in [Score.syncs -> 0..N]
  BY DEF Layered
<1>2. ASSUME Bad # {} PROVE FALSE
  <2>1. PICK k \in Bad : \A l \in Bad : k <= l
    BY <1>2, LeastNat
  <2>2. k # 0
    <3>1. LinksBelow([tn \in Score.syncs |-> 0], 0, rank)
      BY <1>1 DEF LinksBelow
    <3> QED BY <2>1, <3>1
  <2>3. k \in Nat /\ k - 1 \in Nat /\ k - 1 \notin Bad
    BY <2>1, <2>2
  <2>4. PICK f : LinksBelow(f, k - 1, rank)
    BY <2>3
  <2> DEFINE g == [tn \in Score.syncs |-> IF rank[tn] < k THEN LinksFrom(f, tn) ELSE 0]
  <2>5. /\ f \in [Score.syncs -> Nat] /\ \A tn \in Score.syncs : f[tn] <= rank[tn]
        /\ \A tn \in Score.syncs : rank[tn] < k - 1 => f[tn] = LinksFrom(f, tn)
    BY <2>4 DEF LinksBelow
  <2>6. \A tn \in Score.syncs : LinksFrom(f, tn) \in Nat /\ LinksFrom(f, tn) <= rank[tn]
    BY <2>5, LinksFromIs
  <2>7. g \in [Score.syncs -> Nat] /\ \A tn \in Score.syncs : g[tn] <= rank[tn]
    BY <1>1, <2>6
  <2>8. ASSUME NEW tn \in Score.syncs, rank[tn] < k PROVE g[tn] = LinksFrom(g, tn)
    <3>1. \A i \in Previous(tn) : g[StartSync(i)] = f[StartSync(i)]
      <4> SUFFICES ASSUME NEW i \in Previous(tn) PROVE g[StartSync(i)] = f[StartSync(i)]
        OBVIOUS
      <4>1. StartSync(i) \in Score.syncs /\ rank[StartSync(i)] < rank[tn]
        BY References DEF Layered, Previous
      <4>2. rank[StartSync(i)] \in Nat /\ rank[tn] \in Nat
        BY <1>1, <4>1
      <4>3. rank[StartSync(i)] < k - 1 /\ rank[StartSync(i)] < k
        BY <2>3, <2>8, <4>1, <4>2
      <4> QED BY <2>5, <4>1, <4>3
    <3>2. LinksFrom(g, tn) = LinksFrom(f, tn)
      <4> HIDE DEF g
      <4> QED BY <3>1 DEF LinksFrom
    <3> QED BY <2>8, <3>2
  <2> HIDE DEF g
  <2>9. LinksBelow(g, k, rank)
    BY <2>7, <2>8 DEF LinksBelow
  <2> QED BY <2>1, <2>9
<1>3. N + 1 \in Nat /\ N + 1 \notin Bad
  BY <1>2
<1> QED BY <1>3

LEMMA LinksAre ==
    ASSUME NEW N \in Nat, NEW rank, Layered(N, rank), NEW tn \in Score.syncs
    PROVE  /\ Links[tn] \in Nat
           /\ \A i \in Previous(tn) : Links[StartSync(i)] + 1 <= Links[tn]
<1> DEFINE Is(f) == f = [x \in Score.syncs |-> LinksFrom(f, x)]
<1>1. PICK f : LinksBelow(f, N + 1, rank)
  BY LinksExist
<1>2. Is(f)
  BY <1>1 DEF LinksBelow, Layered
<1>3. Links = CHOOSE g : Is(g)
  BY DEF Links, LinksFrom
<1>4. Is(Links)
  BY <1>2, <1>3
<1>5. \A x \in Score.syncs : Links[x] = f[x]
  <2> DEFINE T == {rank[x] : x \in {y \in Score.syncs : Links[y] # f[y]}}
  <2> SUFFICES ASSUME T # {} PROVE FALSE
    OBVIOUS
  <2>1. T \subseteq Nat
    BY DEF Layered
  <2>2. PICK k \in T : \A l \in T : k <= l
    BY <2>1, LeastNat
  <2>3. PICK x \in Score.syncs : Links[x] # f[x] /\ k = rank[x]
    BY <2>2
  <2>4. \A i \in Previous(x) : Links[StartSync(i)] = f[StartSync(i)]
    <3> SUFFICES ASSUME NEW i \in Previous(x), Links[StartSync(i)] # f[StartSync(i)] PROVE FALSE
      OBVIOUS
    <3>1. StartSync(i) \in Score.syncs /\ rank[StartSync(i)] < rank[x]
      BY References DEF Layered, Previous
    <3>2. rank[StartSync(i)] \in T /\ rank[StartSync(i)] \in Nat /\ rank[x] \in Nat
      BY <3>1 DEF Layered
    <3> QED BY <2>2, <2>3, <3>1, <3>2
  <2>5. LinksFrom(Links, x) = LinksFrom(f, x)
    BY <2>4 DEF LinksFrom
  <2>6. Links[x] = LinksFrom(Links, x) /\ f[x] = LinksFrom(f, x)
    BY <1>2, <1>4
  <2> QED BY <2>3, <2>5, <2>6
<1>6. f \in [Score.syncs -> Nat] /\ \A x \in Score.syncs : f[x] <= rank[x]
  BY <1>1 DEF LinksBelow
<1>7. LinksFrom(f, tn) = f[tn]
  BY <1>2
<1>8. /\ f[tn] \in Nat
      /\ \A i \in Previous(tn) : f[StartSync(i)] + 1 <= f[tn]
  BY <1>6, <1>7, LinksFromIs
<1>9. \A i \in Previous(tn) : StartSync(i) \in Score.syncs
  BY References DEF Previous
<1> QED BY <1>5, <1>8, <1>9

-----------------------------------------------------------------------------
(* A score without triggers and flexible intervals keeps its dates.        *)

\* What the score says of its dates, and that it has no cycle.
DatesAgree ==
    /\ \A i \in Score.intervals : Score.date[EndSync(i)] = Score.date[StartSync(i)] + Score.dur[i]
    /\ \A tn \in Score.syncs : Previous(tn) = {} => Score.date[tn] = 0
AllRigid ==
    /\ \A i \in Score.intervals : Score.rigid[i]
    /\ \A tn \in Score.syncs : ~Score.active[tn]

\* By how much an interval is early, in msec, and how much that can be.
Early(i) == Score.date[StartSync(i)] - DivisionFactor * Since(i)
Scheduled ==
    \A i \in Score.intervals :
        Since(i) >= 0 => Early(i) \in 0..((DivisionFactor - 1) * Links[StartSync(i)])

\* What one division loses.
LEMMA TicksLose ==
    ASSUME NEW a \in Nat
    PROVE  Ticks(a) \in Nat /\ a - DivisionFactor * Ticks(a) \in 0..(DivisionFactor - 1)
<1>1. DivisionFactor \in Nat \ {0}
  BY FactorAssumption
<1>2. Ticks(a) \in Nat
  BY TicksGrow
<1>3. DivisionFactor * Ticks(a) <= a /\ a < DivisionFactor * Ticks(a) + DivisionFactor
  BY <1>1 DEF Ticks
<1>4. DivisionFactor * Ticks(a) \in Nat
  BY <1>1, <1>2
<1> QED BY <1>1, <1>2, <1>3, <1>4

LEMMA LossGrows ==
    ASSUME NEW l \in Nat, NEW k \in Nat, l <= k
    PROVE  (DivisionFactor - 1) * l <= (DivisionFactor - 1) * k
<1>1. DivisionFactor - 1 \in Nat /\ k - l \in Nat
  BY FactorAssumption
<1>2. (DivisionFactor - 1) * (k - l) \in Nat
  BY <1>1
<1>3. (DivisionFactor - 1) * (k - l) = (DivisionFactor - 1) * k - (DivisionFactor - 1) * l
  BY <1>1
<1>4. (DivisionFactor - 1) * k \in Nat /\ (DivisionFactor - 1) * l \in Nat
  BY <1>1
<1> QED BY <1>2, <1>3, <1>4

\* One interval more, and what its duration loses.
LEMMA EarlyAdds ==
    ASSUME NEW a \in Nat, NEW d \in Nat, NEW s \in Int, NEW l \in Nat, NEW k \in Nat, l + 1 <= k,
           a - DivisionFactor * s \in 0..((DivisionFactor - 1) * l)
    PROVE  (a + d) - DivisionFactor * (s + Ticks(d)) \in 0..((DivisionFactor - 1) * k)
<1>1. DivisionFactor \in Nat \ {0}
  BY FactorAssumption
<1> DEFINE q == Ticks(d)
           F == DivisionFactor
           lost == d - F * q
<1>2. q \in Nat /\ lost \in 0..(F - 1)
  BY TicksLose
<1>3. F * (s + q) = F * s + F * q
  BY <1>1, <1>2
<1>4. (F - 1) * (l + 1) = (F - 1) * l + (F - 1)
  BY <1>1
<1>5. (F - 1) * (l + 1) <= (F - 1) * k
  BY LossGrows
<1>6. F * s \in Int /\ F * q \in Int /\ (F - 1) * l \in Nat /\ (F - 1) * k \in Nat
  <2>1. F - 1 \in Nat
    BY <1>1
  <2> QED BY <1>1, <1>2, <2>1
<1>7. (a + d) - F * (s + q) = (a - F * s) + lost
  BY <1>2, <1>3, <1>6
<1>8. a - F * s \in 0..((F - 1) * l)
  OBVIOUS
<1> HIDE DEF F, q
<1>9. (a - F * s) + lost \in 0..((F - 1) * l + (F - 1))
  BY <1>1, <1>2, <1>6, <1>8 DEF F
<1>10. (a + d) - F * (s + q) \in 0..((F - 1) * k)
  BY <1>1, <1>4, <1>5, <1>6, <1>7, <1>9 DEF F
<1> QED BY <1>10 DEF F, q

\* The next interval in a row starts on schedule when the one before it has.
LEMMA StartsOnSchedule ==
    ASSUME DatesAgree, AllRigid, AllAtTop, NEW N \in Nat, NEW rank, Layered(N, rank),
           IInv, Begun, Timely, Scheduled,
           NEW i \in Score.intervals,
           PointAt(Score.startEvent[i]) \in {"cond_true", "timeout"}
    PROVE  Score.date[StartSync(i)] - DivisionFactor * now
              \in 0..((DivisionFactor - 1) * Links[StartSync(i)])
<1> DEFINE ev == Score.startEvent[i]
           tn == StartSync(i)
<1>1. /\ ev \in Score.events /\ Score.syncOf[ev] = tn /\ tn \in Score.syncs
      /\ Score.date[tn] \in Nat /\ now \in Nat /\ DivisionFactor \in Nat \ {0}
  BY References, ScoreIsDocument, FactorAssumption, BegunIs DEF StartSync, ScoreAssumption
<1>2. Links[tn] \in Nat /\ \A j \in Previous(tn) : Links[StartSync(j)] + 1 <= Links[tn]
  BY <1>1, LinksAre
<1>3. (DivisionFactor - 1) * Links[tn] \in Nat
  <2>1. DivisionFactor - 1 \in Nat
    BY <1>1
  <2> QED BY <1>2, <2>1
<1>4. tn \in Timed
  BY <1>1, References DEF Timed, AllRigid, AllAtTop, NoOpeningTrigger, Holds
<1>5. TimelyEvent(ev)
  BY <1>1, <1>4 DEF Timely
<1>6. CASE ev \in DOMAIN Score.expression
  <2>1. now = Ticks(Score.date[tn])
    BY <1>1, <1>5, <1>6 DEF TimelyEvent
  <2>2. CASE Previous(tn) = {}
    <3>1. Score.date[tn] = 0
      BY <1>1, <2>2 DEF DatesAgree
    <3>2. 0 - DivisionFactor * Ticks(0) \in 0..(DivisionFactor - 1) /\ Ticks(0) \in Nat
      BY TicksLose
    <3>3. DivisionFactor * Ticks(0) \in Nat
      BY <1>1, <3>2
    <3>4. Score.date[tn] - DivisionFactor * now = 0
      BY <1>1, <2>1, <3>1, <3>2, <3>3
    <3> QED BY <1>3, <3>4
  <2>3. CASE Previous(tn) # {}
    <3>1. PICK j \in Previous(tn) : TRUE
      BY <2>3
    <3>2. StartSync(j) \in Score.syncs
      BY <3>1, References DEF Previous
    <3>3. Links[StartSync(j)] \in Nat
      BY <3>2, LinksAre
    <3>4. 1 <= Links[tn]
      BY <1>2, <3>1, <3>3
    <3>5. (DivisionFactor - 1) * 1 <= (DivisionFactor - 1) * Links[tn]
      BY <1>2, <3>4, LossGrows
    <3>6. Score.date[tn] - DivisionFactor * now \in 0..(DivisionFactor - 1)
      BY <1>1, <2>1, TicksLose
    <3> DEFINE most == (DivisionFactor - 1) * Links[tn]
               one == DivisionFactor - 1
               early == Score.date[tn] - DivisionFactor * now
    <3>7. one \in Nat /\ most \in Nat /\ one <= most /\ early \in 0..one
      <4>1. one * 1 = one /\ one \in Nat
        BY <1>1
      <4> QED BY <1>3, <3>5, <3>6, <4>1
    <3> HIDE DEF most, one, early
    <3>8. early \in 0..most
      BY <3>7
    <3> QED BY <3>8 DEF early, most
  <2> QED BY <2>2, <2>3
<1>7. CASE ev \notin DOMAIN Score.expression
  <2>1. Due(tn)
    BY <1>1, <1>5, <1>7 DEF TimelyEvent
  <2>2. CASE Previous(tn) = {}
    <3>1. Score.date[tn] = 0 /\ now = 0
      BY <1>1, <2>1, <2>2 DEF DatesAgree, Due
    <3>2. Score.date[tn] - DivisionFactor * now = 0
      BY <1>1, <3>1
    <3> QED BY <1>3, <3>2
  <2>3. CASE Previous(tn) # {}
    <3>1. PICK j \in Previous(tn) : Within(j)
      BY <2>1, <2>3 DEF Due
    <3>2. /\ j \in Score.intervals /\ EndSync(j) = tn /\ StartSync(j) \in Score.syncs
          /\ Score.date[StartSync(j)] \in Nat /\ Score.dur[j] \in Nat
      BY References, ScoreIsDocument DEF Previous, ScoreAssumption
    <3>3. Since(j) \in Int /\ Since(j) >= 0 /\ now = Since(j) + Ticks(Score.dur[j])
      <4>1. Score.rigid[j]
        BY <3>2 DEF AllRigid
      <4>2. Shortest(j) = Ticks(Score.dur[j]) /\ Longest(j) = Ticks(Score.dur[j])
        BY <4>1 DEF Shortest, Longest
      <4>3. Since(j) \in Int /\ Ticks(Score.dur[j]) \in Nat
        BY <3>2, BegunIs, TicksLose
      <4>4. /\ Since(j) >= 0 /\ now - Since(j) >= Ticks(Score.dur[j])
            /\ now - Since(j) <= Ticks(Score.dur[j])
        BY <3>1, <4>1, <4>2 DEF Within
      <4> QED BY <1>1, <4>3, <4>4
    <3>4. Score.date[tn] = Score.date[StartSync(j)] + Score.dur[j]
      BY <3>2 DEF DatesAgree
    <3>5. Score.date[StartSync(j)] - DivisionFactor * Since(j)
             \in 0..((DivisionFactor - 1) * Links[StartSync(j)])
      BY <3>2, <3>3 DEF Scheduled, Early
    <3>6. Links[StartSync(j)] \in Nat /\ Links[StartSync(j)] + 1 <= Links[tn]
      BY <1>2, <3>2, LinksAre
    <3>7. (Score.date[StartSync(j)] + Score.dur[j])
             - DivisionFactor * (Since(j) + Ticks(Score.dur[j]))
             \in 0..((DivisionFactor - 1) * Links[tn])
      BY <1>2, <3>2, <3>3, <3>5, <3>6, EarlyAdds
    <3> QED BY <3>3, <3>4, <3>7
  <2> QED BY <2>2, <2>3
<1> QED BY <1>6, <1>7

LEMMA ScheduledNext ==
    ASSUME DatesAgree, AllRigid, AllAtTop, NEW N \in Nat, NEW rank, Layered(N, rank),
           IInv, NeverSkipped, StartsOnCue, Begun, Timely, Scheduled, [Next]_vars
    PROVE  Scheduled'
<1> SUFFICES ASSUME NEW i \in Score.intervals, Since(i)' >= 0
             PROVE  Early(i)' \in 0..((DivisionFactor - 1) * Links[StartSync(i)])
  BY DEF Scheduled, Links, StartSync, Previous, EndSync
<1>1. CASE Since(i)' = Since(i)
  BY <1>1 DEF Scheduled, Early, StartSync
<1>2. CASE Since(i)' # Since(i)
  <2>1. PICK n, c, target, m :
           n \in Elements /\ Speaks(n, c, target) /\ Broadcast(n, c, target, m)
    <3>1. started' # started
      BY <1>2 DEF Since
    <3> QED BY <3>1, StepIs, SilentStep
  <2>2. /\ Interval(i) = "idle" /\ Interval(i)' \in {"wait", "wait_min"}
        /\ Since(i)' = now
    BY <1>2, <2>1, IntervalNamed, StartedAfter DEF Since, Interval
  <2>3. OpeningsReady
    BY DEF OpeningsReady, AllRigid
  <2>4. PointAt(Score.startEvent[i]) \in {"cond_true", "timeout"}
    BY <2>2, <2>3, StartIsSaid DEF PointAt
  <2>5. Early(i)' = Score.date[StartSync(i)] - DivisionFactor * now
    BY <2>2 DEF Early, StartSync
  <2> QED BY <2>4, <2>5, StartsOnSchedule
<1> QED BY <1>1, <1>2

\* In every score of rigid intervals without triggers, whose dates agree with
\* its durations, an interval starts at its date but for what the divisions of
\* the intervals before it lose.
THEOREM RigidsOnSchedule ==
    ASSUME DatesAgree, AllRigid, AllAtTop, NEW N \in Nat, NEW rank, Layered(N, rank)
    PROVE  Spec => []OnSchedule
<1> DEFINE Inv == OneCascade /\ StartsOnCue /\ Scheduled
<1>0. OpeningsReady
  BY DEF OpeningsReady, AllRigid
<1>1. Init => Inv
  <2> SUFFICES ASSUME Init PROVE Scheduled
    BY CueInit
  <2>1. \A i \in Score.intervals : Since(i) = -1
    BY IntervalNamed DEF Init, Since
  <2> QED BY <2>1 DEF Scheduled
<1>2. IInv /\ NeverSkipped /\ Begun /\ Timely /\ Inv /\ [Next]_vars => Inv'
  BY <1>0, OneCascadeNext, StartsOnCueNext, ScheduledNext
<1>3. IInv /\ Begun /\ Timely /\ Inv => OnSchedule
  <2> SUFFICES ASSUME IInv, Begun, Timely, Inv, NEW i \in Score.intervals,
                      Phase(i) \in {"running", "past"}
               PROVE  Early(i) \in 0..((DivisionFactor - 1) * Links[StartSync(i)])
    BY DEF OnSchedule, Early, Since
  <2>1. Since(i) >= 0
    BY PhaseIs, BegunIs DEF Timely, PastWithin, Within
  <2> QED BY <2>1 DEF Scheduled
<1> HIDE DEF Inv
<1> QED BY <1>1, <1>2, <1>3, TimelyInvariance, PTL DEF Spec
=============================================================================
