------------------------- MODULE ScoreNetworkProofs -------------------------
(***************************************************************************)
(* Proofs about the network that TAConversion prints, for every score that *)
(* can be converted: what each automaton is printed from, who says and who *)
(* hears each channel, that no skip is ever said, and that the network     *)
(* plays the score.                                                        *)
(***************************************************************************)
EXTENDS ScoreNetwork, TANetworkProofs, FiniteSetTheorems

-----------------------------------------------------------------------------
(* What is printed.                                                        *)

\* Every element of the network is printed, under its own name.
LEMMA Declared == \A n \in Elements : Decl[n] \in Printed /\ Decl[n].name = n
<1>1. Elements = {e.name : e \in Printed}
  BY DeclIsNetwork DEF Elements, Network
<1> SUFFICES ASSUME NEW n \in Elements PROVE Decl[n] \in Printed /\ Decl[n].name = n
  OBVIOUS
<1>2. Decl[n] = CHOOSE e \in Printed : e.name = n
  BY <1>1, DeclIsNetwork DEF Network
<1>3. \E e \in Printed : e.name = n
  BY <1>1
<1> QED BY <1>2, <1>3

\* Every printed element is in the network under its name.
LEMMA Named == \A e \in Printed : e.name \in Elements /\ Decl[e.name] = e
<1>1. Elements = {e.name : e \in Printed}
  BY DeclIsNetwork DEF Elements, Network
<1> SUFFICES ASSUME NEW e \in Printed PROVE e.name \in Elements /\ Decl[e.name] = e
  OBVIOUS
<1>2. e.name \in Elements
  BY <1>1
<1> QED BY <1>2, Declared, NamesAreDistinct DEF NamesDistinct

\* The elements that are printed, one by one.
LEMMA PrintedIs ==
    ASSUME NEW e \in Printed
    PROVE  \/ e \in {Base, MainStartEvent, MainEndEvent, EndMix}
           \/ \E tn \in Score.syncs :
                 \/ e = SyncPoint(tn) \/ e = SyncEvent(tn)
                 \/ IsMerge(tn) /\ e = SyncControl(tn)
                 \/ ~Score.active[tn] /\ e = SyncMix(tn)
           \/ \E ev \in Score.events :
                 \/ e = EventPoint(ev) \/ e = EventEvent(ev)
                 \/ ev \notin DOMAIN Score.expression /\ e = EventMix(ev)
           \/ \E i \in Score.intervals : e = IntervalElement(i)
<1>1. CASE e \in UNION {SyncElements(tn) : tn \in Score.syncs}
  BY <1>1 DEF SyncElements
<1>2. CASE e \in UNION {EventElements(ev) : ev \in Score.events}
  BY <1>2 DEF EventElements
<1> QED BY <1>1, <1>2 DEF Printed

\* And the other way round.
LEMMA IsPrinted ==
    /\ {Base, MainStartEvent, MainEndEvent, EndMix} \subseteq Printed
    /\ \A tn \in Score.syncs :
          /\ SyncPoint(tn) \in Printed /\ SyncEvent(tn) \in Printed
          /\ IsMerge(tn) => SyncControl(tn) \in Printed
          /\ ~Score.active[tn] => SyncMix(tn) \in Printed
    /\ \A ev \in Score.events :
          /\ EventPoint(ev) \in Printed /\ EventEvent(ev) \in Printed
          /\ ev \notin DOMAIN Score.expression => EventMix(ev) \in Printed
    /\ \A i \in Score.intervals : IntervalElement(i) \in Printed
<1>1. \A tn \in Score.syncs : SyncElements(tn) \subseteq Printed
  BY DEF Printed
<1>2. \A ev \in Score.events : EventElements(ev) \subseteq Printed
  BY DEF Printed
<1>3. /\ {Base, MainStartEvent, MainEndEvent, EndMix} \subseteq Printed
      /\ \A i \in Score.intervals : IntervalElement(i) \in Printed
  BY DEF Printed
<1> QED BY <1>1, <1>2, <1>3 DEF SyncElements, EventElements

\* References in the document.
LEMMA References ==
    /\ \A i \in Score.intervals :
          /\ Score.startEvent[i] \in Score.events /\ Score.endEvent[i] \in Score.events
          /\ StartSync(i) \in Score.syncs /\ EndSync(i) \in Score.syncs
          /\ ScenarioOfInterval(i) \in Score.scenarios
          /\ HolderOf(i) \in Score.intervals \cup {Score.root}
          /\ Score.rigid[i] \in BOOLEAN /\ Score.infinite[i] \in BOOLEAN
          /\ i \in Previous(EndSync(i))
    /\ \A tn \in Score.syncs :
          /\ Score.scenarioOf[tn] \in Score.scenarios
          /\ Score.parent[Score.scenarioOf[tn]] \in Score.intervals \cup {Score.root}
          /\ Score.active[tn] \in BOOLEAN
    /\ \A ev \in Score.events : Score.syncOf[ev] \in Score.syncs
BY ScoreIsDocument DEF ScoreAssumption, StartSync, EndSync, ScenarioOfInterval, HolderOf, Previous

\* The template each printed element is made from.
LEMMA PrintedKinds ==
    /\ Base.kind = "Flexible" /\ Base.name = Name(Score.root)
    /\ EndMix.kind = "Mix" /\ EndMix.name = <<"EndMix">>
    /\ MainStartEvent.kind = "Event" /\ MainStartEvent.name = <<"MainStartEvent">>
    /\ MainEndEvent.kind = "Event" /\ MainEndEvent.name = <<"MainEndEvent">>
    /\ \A tn : /\ SyncPoint(tn).kind = "Point" /\ SyncPoint(tn).name = Name(tn)
               /\ SyncEvent(tn).kind \in {"Event", "Event_ND"}
               /\ SyncControl(tn).kind = "Control" /\ SyncControl(tn).name = ControlName(tn)
               /\ SyncMix(tn).kind = "Mix" /\ SyncMix(tn).name = <<"Mix", tn>>
    /\ \A ev : /\ EventPoint(ev).kind = "Point" /\ EventPoint(ev).name = Name(ev)
               /\ EventEvent(ev).kind = "Event"
               /\ EventMix(ev).kind = "Mix" /\ EventMix(ev).name = <<"Mix", ev>>
    /\ \A i : /\ IntervalElement(i).name = Name(i)
              /\ Score.rigid[i] => /\ IntervalElement(i) = RigidElement(i)
                                   /\ IntervalElement(i).kind = "Rigid"
              /\ ~Score.rigid[i] => /\ IntervalElement(i) = FlexibleElement(i)
                                    /\ IntervalElement(i).kind = "Flexible"
<1>1. \A tn : /\ SyncPoint(tn).kind = "Point" /\ SyncPoint(tn).name = Name(tn)
              /\ SyncEvent(tn).kind \in {"Event", "Event_ND"}
              /\ SyncControl(tn).kind = "Control" /\ SyncControl(tn).name = ControlName(tn)
              /\ SyncMix(tn).kind = "Mix" /\ SyncMix(tn).name = <<"Mix", tn>>
  BY DEF SyncPoint, SyncEvent, SyncControl, SyncMix
<1>2. \A ev : /\ EventPoint(ev).kind = "Point" /\ EventPoint(ev).name = Name(ev)
              /\ EventEvent(ev).kind = "Event"
              /\ EventMix(ev).kind = "Mix" /\ EventMix(ev).name = <<"Mix", ev>>
  BY DEF EventPoint, EventEvent, EventMix
<1>3. \A i : /\ RigidElement(i).name = Name(i) /\ RigidElement(i).kind = "Rigid"
             /\ FlexibleElement(i).name = Name(i) /\ FlexibleElement(i).kind = "Flexible"
  BY DEF RigidElement, FlexibleElement
<1>4. /\ Base.kind = "Flexible" /\ Base.name = Name(Score.root)
      /\ EndMix.kind = "Mix" /\ EndMix.name = <<"EndMix">>
      /\ MainStartEvent.kind = "Event" /\ MainStartEvent.name = <<"MainStartEvent">>
      /\ MainEndEvent.kind = "Event" /\ MainEndEvent.name = <<"MainEndEvent">>
  BY DEF Base, EndMix, MainStartEvent, MainEndEvent
<1> QED BY <1>1, <1>2, <1>3, <1>4 DEF IntervalElement

\* Which automaton an element is, by the template it is made from.
LEMMA RigidIs ==
    ASSUME NEW n \in Rigids
    PROVE  \E i \in Score.intervals :
              Score.rigid[i] /\ n = Name(i) /\ Decl[n] = RigidElement(i)
<1>1. Decl[n] \in Printed /\ Decl[n].name = n /\ Decl[n].kind = "Rigid"
  BY Declared DEF Rigids, OfKind
<1> QED BY <1>1, PrintedIs, PrintedKinds

LEMMA FlexibleIs ==
    ASSUME NEW n \in Flexibles
    PROVE  \/ n = Name(Score.root) /\ Decl[n] = Base
           \/ \E i \in Score.intervals :
                 ~Score.rigid[i] /\ n = Name(i) /\ Decl[n] = FlexibleElement(i)
<1>1. Decl[n] \in Printed /\ Decl[n].name = n /\ Decl[n].kind = "Flexible"
  BY Declared DEF Flexibles, OfKind
<1> QED BY <1>1, PrintedIs, PrintedKinds

LEMMA MixIs ==
    ASSUME NEW n \in Mixs
    PROVE  \/ n = <<"EndMix">> /\ Decl[n] = EndMix
           \/ \E tn \in Score.syncs :
                 ~Score.active[tn] /\ n = <<"Mix", tn>> /\ Decl[n] = SyncMix(tn)
           \/ \E ev \in Score.events : n = <<"Mix", ev>> /\ Decl[n] = EventMix(ev)
<1>1. Decl[n] \in Printed /\ Decl[n].name = n /\ Decl[n].kind = "Mix"
  BY Declared DEF Mixs, OfKind
<1>2. CASE \E tn \in Score.syncs : ~Score.active[tn] /\ Decl[n] = SyncMix(tn)
  BY <1>1, <1>2, PrintedKinds
<1>3. CASE \E ev \in Score.events : Decl[n] = EventMix(ev)
  BY <1>1, <1>3, PrintedKinds
<1>4. CASE Decl[n] = EndMix
  BY <1>1, <1>4, PrintedKinds
<1>5. ASSUME NEW tn \in Score.syncs
      PROVE  /\ Decl[n] # SyncPoint(tn) /\ Decl[n] # SyncEvent(tn)
             /\ Decl[n] # SyncControl(tn)
  BY <1>1, PrintedKinds
<1>6. ASSUME NEW ev \in Score.events
      PROVE  Decl[n] # EventPoint(ev) /\ Decl[n] # EventEvent(ev)
  BY <1>1, PrintedKinds
<1>7. ASSUME NEW i \in Score.intervals
      PROVE  Decl[n] # IntervalElement(i)
  BY <1>1, PrintedKinds, References
<1>8. Decl[n] \notin {Base, MainStartEvent, MainEndEvent}
  BY <1>1, PrintedKinds
<1> QED BY <1>1, <1>2, <1>3, <1>4, <1>5, <1>6, <1>7, <1>8, PrintedIs

LEMMA ControlIs ==
    ASSUME NEW n \in Controls
    PROVE  \E tn \in Score.syncs :
              IsMerge(tn) /\ n = ControlName(tn) /\ Decl[n] = SyncControl(tn)
<1>1. Decl[n] \in Printed /\ Decl[n].name = n /\ Decl[n].kind = "Control"
  BY Declared DEF Controls, OfKind
<1> QED BY <1>1, PrintedIs, PrintedKinds

LEMMA PointIs ==
    ASSUME NEW n \in Points
    PROVE  \/ \E tn \in Score.syncs : n = Name(tn) /\ Decl[n] = SyncPoint(tn)
           \/ \E ev \in Score.events : n = Name(ev) /\ Decl[n] = EventPoint(ev)
<1>1. Decl[n] \in Printed /\ Decl[n].name = n /\ Decl[n].kind = "Point"
  BY Declared DEF Points, OfKind
<1> QED BY <1>1, PrintedIs, PrintedKinds

LEMMA EventIs ==
    ASSUME NEW n \in Events \cup EventsND
    PROVE  \/ n = <<"MainStartEvent">> /\ Decl[n] = MainStartEvent
           \/ n = <<"MainEndEvent">> /\ Decl[n] = MainEndEvent
           \/ \E tn \in Score.syncs : Decl[n] = SyncEvent(tn)
           \/ \E ev \in Score.events : Decl[n] = EventEvent(ev)
<1>1. Decl[n] \in Printed /\ Decl[n].name = n /\ Decl[n].kind \in {"Event", "Event_ND"}
  BY Declared DEF Events, EventsND, OfKind
<1> QED BY <1>1, PrintedIs, PrintedKinds

\* Where the automaton of each object of the score is.
LEMMA SyncNamed ==
    ASSUME NEW tn \in Score.syncs
    PROVE  /\ Name(tn) \in Points /\ Decl[Name(tn)] = SyncPoint(tn)
           /\ IsMerge(tn) => /\ ControlName(tn) \in Controls
                             /\ Decl[ControlName(tn)] = SyncControl(tn)
           /\ ~Score.active[tn] => /\ <<"Mix", tn>> \in Mixs
                                   /\ Decl[<<"Mix", tn>>] = SyncMix(tn)
BY PrintedKinds, IsPrinted, Named DEF Points, Controls, Mixs, OfKind

LEMMA EventNamed ==
    ASSUME NEW ev \in Score.events
    PROVE  Name(ev) \in Points /\ Decl[Name(ev)] = EventPoint(ev)
BY PrintedKinds, IsPrinted, Named DEF Points, OfKind

LEMMA IntervalNamed ==
    ASSUME NEW i \in Score.intervals
    PROVE  /\ Name(i) \in Intervals /\ Decl[Name(i)] = IntervalElement(i)
           /\ Score.rigid[i] => Name(i) \in Rigids /\ Decl[Name(i)] = RigidElement(i)
           /\ ~Score.rigid[i] => Name(i) \in Flexibles /\ Decl[Name(i)] = FlexibleElement(i)
BY PrintedKinds, IsPrinted, Named, References DEF Intervals, Rigids, Flexibles, OfKind

LEMMA BaseNamed == Name(Score.root) \in Flexibles /\ Decl[Name(Score.root)] = Base
BY PrintedKinds, IsPrinted, Named DEF Flexibles, OfKind

\* Syncs, events, intervals and the root have automata of their own.
LEMMA OwnNames ==
    /\ \A tn \in Score.syncs, ev \in Score.events : tn # ev
    /\ \A x \in Score.syncs \cup Score.events, i \in Score.intervals \cup {Score.root} : x # i
    /\ Score.root \notin Score.intervals
<1>1. ASSUME NEW tn \in Score.syncs, tn \in Score.events PROVE FALSE
  <2>1. SyncPoint(tn) = EventPoint(tn)
    BY <1>1, SyncNamed, EventNamed
  <2>2. EventPoint(tn).event_e = <<"emax_", tn>>
    BY DEF EventPoint
  <2>3. SyncPoint(tn).event_e[1] \in {"event_s2_Control_", "event_e_", "ok_", "global_start",
                                      "mix_event_e"}
    BY DEF SyncPoint, SyncChannels, SelfOfSync, Self, MixOut, GlobalStart
  <2> QED BY <2>1, <2>2, <2>3
<1>2. ASSUME NEW x \in Score.syncs \cup Score.events, x \in Score.intervals \cup {Score.root}
      PROVE  FALSE
  <2>1. Name(x) \in Points
    BY SyncNamed, EventNamed
  <2>2. Name(x) \in Intervals
    BY <1>2, IntervalNamed, BaseNamed DEF Intervals
  <2> QED BY <2>1, <2>2 DEF Points, Intervals, Rigids, Flexibles, OfKind
<1>3. ASSUME Score.root \in Score.intervals PROVE FALSE
  <2>1. Base = IntervalElement(Score.root)
    BY <1>3, IntervalNamed, BaseNamed
  <2>2. Base.event_s[1] = "global_start"
    BY DEF Base, GlobalStart
  <2>3. IntervalElement(Score.root).event_s[1] = "ok_"
    BY DEF IntervalElement, RigidElement, FlexibleElement
  <2> QED BY <2>1, <2>2, <2>3
<1> QED BY <1>1, <1>2, <1>3

\* A sync that is no merge is reached by one interval at most.
LEMMA AloneUnlessMerge ==
    ASSUME NEW tn, ~IsMerge(tn), NEW i \in Previous(tn), NEW j \in Previous(tn)
    PROVE  i = j
<1>1. IsFiniteSet(Score.intervals)
  BY ScoreIsDocument DEF ScoreAssumption
<1>2. IsFiniteSet(Previous(tn))
  BY <1>1, FS_Subset DEF Previous
<1>3. Cardinality(Previous(tn)) \in Nat /\ Cardinality(Previous(tn)) <= 1
  BY <1>2, FS_CardinalityType DEF IsMerge
<1>4. Cardinality(Previous(tn)) # 0
  BY <1>2, FS_EmptySet
<1>5. Cardinality(Previous(tn)) = 1
  BY <1>3, <1>4
<1> QED BY <1>2, <1>5, FS_Singleton

-----------------------------------------------------------------------------
(* The channels, told apart by their prefixes.                             *)

SkipPrefixes == {"skip", "skip_p", "skip_", "skip_p_", "skip_p_Control_", "skip_Control_"}
KillPrefixes == {"kill", "kill_p", "kill_"}
\* On which a sync or what waits for it is told of an end, or of a start.
PlayPrefixes == {"ok_", "global_start", "event_s_", "event_e_", "event_e_Control_",
                 "event_s1_Control_", "event_s2_Control_", "mix_event_e"}

LEMMA EndPrefixes ==
    ASSUME NEW i
    PROVE  /\ EndChannels(i).event_e1[1] \in {"event_s_", "event_s1_Control_"}
           /\ EndChannels(i).event_e2[1] \in {"event_e_", "event_s2_Control_"}
           /\ EndChannels(i).skip[1] \in SkipPrefixes
BY DEF EndChannels, SkipPrefixes

LEMMA SelfPrefixes ==
    ASSUME NEW s
    PROVE  /\ Self(s).event_s[1] \in {"global_start", "ok_"}
           /\ Self(s).skip[1] \in SkipPrefixes
           /\ Self(s).kill[1] \in {"kill", "kill_"}
<1>1. EndChannels(Score.parent[s]).skip[1] \in SkipPrefixes
  BY EndPrefixes
<1> QED BY <1>1 DEF Self, GlobalStart, SkipPrefixes

LEMMA SyncPrefixes ==
    ASSUME NEW tn
    PROVE  /\ SyncChannels(tn).event_s[1] \in {"global_start", "ok_", "event_s_",
                                               "event_e_Control_"}
           /\ SyncChannels(tn).event_e[1] \in {"global_start", "ok_", "event_e_",
                                               "event_s2_Control_"}
           /\ SyncChannels(tn).skip_p[1] \in SkipPrefixes
           /\ SelfOfSync(tn).kill[1] \in {"kill", "kill_"}
<1>1. /\ SelfOfSync(tn).event_s[1] \in {"global_start", "ok_"}
      /\ SelfOfSync(tn).skip[1] \in SkipPrefixes
      /\ SelfOfSync(tn).kill[1] \in {"kill", "kill_"}
  BY SelfPrefixes DEF SelfOfSync
<1> QED BY <1>1 DEF SyncChannels, SkipPrefixes

LEMMA PointPrefixes ==
    ASSUME NEW p \in Points
    PROVE  /\ Decl[p].event_s[1] \in PlayPrefixes
           /\ Decl[p].skip_p[1] \in SkipPrefixes
           /\ Decl[p].kill_p[1] \in {"kill", "kill_"}
           /\ Decl[p].event_e[1] \in {"global_start", "ok_", "event_e_", "event_s2_Control_",
                                       "mix_event_e", "emax_"}
           /\ Decl[p].event[1] = "event_"
           /\ Decl[p].event_t[1] = "ok_"
           /\ Decl[p].urgent
<1>1. ASSUME NEW tn \in Score.syncs
      PROVE  /\ SyncPoint(tn).event_s[1] \in PlayPrefixes
             /\ SyncPoint(tn).skip_p[1] \in SkipPrefixes
             /\ SyncPoint(tn).kill_p[1] \in {"kill", "kill_"}
             /\ SyncPoint(tn).event_e[1] \in {"global_start", "ok_", "event_e_",
                                                "event_s2_Control_", "mix_event_e"}
             /\ SyncPoint(tn).skip[1] \in SkipPrefixes
             /\ SyncPoint(tn).event[1] = "event_"
             /\ SyncPoint(tn).event_t[1] = "ok_"
             /\ SyncPoint(tn).urgent
  BY SyncPrefixes DEF SyncPoint, MixOut, PlayPrefixes, SkipPrefixes
<1>2. ASSUME NEW ev \in Score.events
      PROVE  /\ EventPoint(ev).event_s[1] \in PlayPrefixes
             /\ EventPoint(ev).skip_p[1] \in SkipPrefixes
             /\ EventPoint(ev).kill_p[1] \in {"kill", "kill_"}
             /\ EventPoint(ev).event_e[1] \in {"emax_"}
             /\ EventPoint(ev).event[1] = "event_"
             /\ EventPoint(ev).event_t[1] = "ok_"
             /\ EventPoint(ev).urgent
  BY <1>1, SyncPrefixes, References DEF EventPoint, PlayPrefixes
<1> QED BY <1>1, <1>2, PointIs

LEMMA RigidPrefixes ==
    ASSUME NEW n \in Rigids
    PROVE  /\ Decl[n].event_s[1] = "ok_"
           /\ Decl[n].skip_p[1] \in SkipPrefixes
           /\ Decl[n].kill_p[1] \in {"kill", "kill_"}
           /\ Decl[n].event_e1[1] \in {"event_s_", "event_s1_Control_"}
           /\ Decl[n].event_e2[1] \in {"event_e_", "event_s2_Control_"}
           /\ Decl[n].kill[1] = "kill_"
<1>1. ASSUME NEW i \in Score.intervals
      PROVE  /\ RigidElement(i).event_s[1] = "ok_"
             /\ RigidElement(i).skip_p[1] \in SkipPrefixes
             /\ RigidElement(i).kill_p[1] \in {"kill", "kill_"}
             /\ RigidElement(i).event_e1[1] \in {"event_s_", "event_s1_Control_"}
             /\ RigidElement(i).event_e2[1] \in {"event_e_", "event_s2_Control_"}
             /\ RigidElement(i).kill[1] = "kill_"
  BY EndPrefixes, SelfPrefixes DEF RigidElement
<1> QED BY <1>1, RigidIs

LEMMA FlexiblePrefixes ==
    ASSUME NEW n \in Flexibles
    PROVE  /\ Decl[n].event_s[1] \in {"ok_", "global_start"}
           /\ Decl[n].skip_p[1] \in SkipPrefixes
           /\ Decl[n].kill_p[1] \in KillPrefixes
           /\ Decl[n].event_min[1] \in {"event_s_", "event_s1_Control_", "event_e1"}
           /\ Decl[n].event_i[1] \in {"event_e_", "event_s2_Control_", "global_end"}
           /\ n # Name(Score.root) => Decl[n].event_i[1] \in {"event_e_", "event_s2_Control_"}
           /\ Decl[n].event_max[1] \in {"event_e_", "event_s2_Control_", "event_e2"}
           /\ Decl[n].kill[1] \in {"kill", "kill_"}
<1>1. CASE n = Name(Score.root) /\ Decl[n] = Base
  BY <1>1 DEF Base, GlobalStart, GlobalEnd, SkipPrefixes, KillPrefixes
<1>2. ASSUME NEW i \in Score.intervals, Decl[n] = FlexibleElement(i)
      PROVE  /\ Decl[n].event_s[1] \in {"ok_", "global_start"}
             /\ Decl[n].skip_p[1] \in SkipPrefixes
             /\ Decl[n].kill_p[1] \in KillPrefixes
             /\ Decl[n].event_min[1] \in {"event_s_", "event_s1_Control_", "event_e1"}
             /\ Decl[n].event_i[1] \in {"event_e_", "event_s2_Control_"}
             /\ Decl[n].event_max[1] \in {"event_e_", "event_s2_Control_", "event_e2"}
             /\ Decl[n].kill[1] \in {"kill", "kill_"}
  BY <1>2, EndPrefixes, SelfPrefixes DEF FlexibleElement, KillPrefixes
<1> QED BY <1>1, <1>2, FlexibleIs

LEMMA MixPrefixes ==
    ASSUME NEW n \in Mixs
    PROVE  /\ IF n = <<"EndMix">> THEN Decl[n].event_in[1] = "event_e2"
                                  ELSE Decl[n].event_in[1] \in PlayPrefixes
           /\ Decl[n].skip_p[1] \in SkipPrefixes
           /\ Decl[n].kill_p[1] \in KillPrefixes
           /\ Decl[n].event_out[1] \in {"mix_event_e", "emax_", "kill"}
<1>1. CASE n = <<"EndMix">> /\ Decl[n] = EndMix
  BY <1>1 DEF EndMix, Base, SkipPrefixes, KillPrefixes
<1>2. ASSUME NEW tn \in Score.syncs, n = <<"Mix", tn>>, Decl[n] = SyncMix(tn)
      PROVE  /\ Decl[n].event_in[1] \in PlayPrefixes
             /\ Decl[n].skip_p[1] \in SkipPrefixes
             /\ Decl[n].kill_p[1] \in KillPrefixes
             /\ Decl[n].event_out[1] \in {"mix_event_e", "emax_", "kill"}
  BY <1>2, SyncPrefixes DEF SyncMix, MixOut, PlayPrefixes, KillPrefixes
<1>3. ASSUME NEW ev \in Score.events, n = <<"Mix", ev>>, Decl[n] = EventMix(ev)
      PROVE  /\ Decl[n].event_in[1] \in PlayPrefixes
             /\ Decl[n].skip_p[1] \in SkipPrefixes
             /\ Decl[n].kill_p[1] \in KillPrefixes
             /\ Decl[n].event_out[1] \in {"mix_event_e", "emax_", "kill"}
  <2>1. Name(ev) \in Points /\ Decl[Name(ev)] = EventPoint(ev)
    BY EventNamed
  <2>2. EventPoint(ev).event_e[1] = "emax_"
    BY DEF EventPoint
  <2> QED BY <1>3, <2>1, <2>2, PointPrefixes DEF EventMix, KillPrefixes
<1> QED BY <1>1, <1>2, <1>3, MixIs

LEMMA ControlPrefixes ==
    ASSUME NEW n \in Controls
    PROVE  /\ Decl[n].event_s1[1] = "event_s1_Control_"
           /\ Decl[n].event_s2[1] = "event_s2_Control_"
           /\ Decl[n].skip_p[1] \in SkipPrefixes
           /\ Decl[n].kill_p[1] \in {"kill", "kill_"}
           /\ Decl[n].event_e[1] = "event_e_Control_"
<1>1. ASSUME NEW tn \in Score.syncs
      PROVE  /\ SyncControl(tn).event_s1[1] = "event_s1_Control_"
             /\ SyncControl(tn).event_s2[1] = "event_s2_Control_"
             /\ SyncControl(tn).skip_p[1] \in SkipPrefixes
             /\ SyncControl(tn).kill_p[1] \in {"kill", "kill_"}
             /\ SyncControl(tn).event_e[1] = "event_e_Control_"
  BY SyncPrefixes DEF SyncControl, SkipPrefixes
<1> QED BY <1>1, ControlIs

LEMMA EventPrefixes ==
    ASSUME NEW n \in Events \cup EventsND
    PROVE  Decl[n].event[1] \in {"global_start", "global_end", "event_", "emax_"}
<1>1. MainStartEvent.event[1] = "global_start" /\ MainEndEvent.event[1] = "global_end"
  BY DEF MainStartEvent, MainEndEvent, GlobalStart, GlobalEnd
<1>2. \A tn : SyncEvent(tn).event[1] = "event_" /\ EventEvent(tn).event[1] = "emax_"
  BY DEF SyncEvent, EventEvent
<1> QED BY <1>1, <1>2, EventIs

-----------------------------------------------------------------------------
(* Steps.                                                                  *)

\* What a step says: the edge the element n takes, with its channel and target.
EndSpeaks(n, c, target) ==
    \/ /\ n \in Rigids /\ loc[n] = "wait" /\ c = Decl[n].event_e1 /\ target = "id7"
       /\ t(n) = Decl[n].dur
    \/ /\ n \in Flexibles /\ loc[n] = "wait_min" /\ c = Decl[n].event_min
       /\ target \in {"flexible", "semi_flexible"} /\ t(n) = Decl[n].dmin
OverSpeaks(n, c, target) ==
    /\ target = "finished"
    /\ \/ n \in Rigids /\ loc[n] = "id7" /\ c = Decl[n].event_e2
       \/ n \in Flexibles /\ loc[n] = "id15" /\ c = Decl[n].event_max
KillSpeaks(n, c, target) ==
    /\ n \in Intervals /\ loc[n] = "killed" /\ c = Decl[n].kill /\ target = "finished"
MixSpeaks(n, c, target) ==
    n \in Mixs /\ loc[n] = "id22" /\ c = Decl[n].event_out /\ target = "finished"
ControlSpeaks(n, c, target) ==
    /\ n \in Controls /\ loc[n] = "id26" /\ counter[n] = Decl[n].num_prev_rels
    /\ c = Decl[n].event_e /\ target = "finished"
PointSpeaks(n, c, target) ==
    /\ n \in Points
    /\ \/ loc[n] = "cond_true" /\ c = Decl[n].event_t /\ target = "id28"
       \/ loc[n] = "id28" /\ c = Decl[n].event_e /\ target = "finished"
       \/ loc[n] = "timeout" /\ c = Decl[n].event_t /\ target = "finished"
EventSpeaks(n, c, target) ==
    /\ n \in Events \cup EventsND /\ loc[n] \in {"waiting", "idle"}
    /\ n \in Events => now = Decl[n].date
    /\ c = Decl[n].event /\ target = "finished"

Speaks(n, c, target) ==
    \/ EndSpeaks(n, c, target) \/ OverSpeaks(n, c, target) \/ KillSpeaks(n, c, target)
    \/ MixSpeaks(n, c, target) \/ ControlSpeaks(n, c, target)
    \/ PointSpeaks(n, c, target) \/ EventSpeaks(n, c, target)

\* A step without a skip is a broadcast, one of the two silent edges, a delay
\* or a stutter.
LEMMA StepIs ==
    ASSUME IInv, NeverSkipped, [Next]_vars
    PROVE  \/ \E n \in Elements : \E c, target, m :
                 Speaks(n, c, target) /\ Broadcast(n, c, target, m)
           \/ \E n \in Flexibles : FlexibleReachesMax(n)
           \/ \E n \in Controls : ControlWaits(n)
           \/ Delay
           \/ UNCHANGED vars
<1> DEFINE Said == \E n \in Elements : \E c, target, m :
                      Speaks(n, c, target) /\ Broadcast(n, c, target, m)
<1>a. \A n \in Events \cup EventsND \cup Intervals \cup Mixs \cup Controls \cup Points :
         n \in Elements /\ loc[n] # "skipped"
  BY DEF Events, EventsND, Intervals, Rigids, Flexibles, Mixs, Controls, Points, OfKind,
         NeverSkipped
<1>1. ASSUME NEW n, \/ n \in Events /\ EventFires(n)
                    \/ n \in EventsND /\ EventNDFires(n)
      PROVE  Said
  <2>1. n \in EventsND => n \notin Events
    BY DEF Events, EventsND, OfKind
  <2> QED BY <1>1, <1>a, <2>1 DEF EventFires, EventNDFires, Speaks, EventSpeaks
<1>2. ASSUME NEW n \in Rigids, RigidStep(n)
      PROVE  Said
  <2>1. n \in Intervals
    BY DEF Intervals
  <2> QED BY <1>2, <1>a, <2>1
          DEF RigidStep, RigidEnds, RigidSyncs, IntervalSkips, IntervalKills, Send,
              Speaks, EndSpeaks, OverSpeaks, KillSpeaks
<1>3. ASSUME NEW n \in Flexibles, FlexibleStep(n), ~FlexibleReachesMax(n)
      PROVE  Said
  <2>1. n \in Intervals
    BY DEF Intervals
  <2> QED BY <1>3, <1>a, <2>1
          DEF FlexibleStep, FlexibleReachesMin, FlexibleEnds, IntervalSkips, IntervalKills,
              Send, Speaks, EndSpeaks, OverSpeaks, KillSpeaks
<1>4. ASSUME NEW n \in Mixs, MixForwards(n)
      PROVE  Said
  BY <1>4, <1>a DEF MixForwards, Send, Speaks, MixSpeaks
<1>5. ASSUME NEW n \in Controls, ControlStep(n), ~ControlWaits(n)
      PROVE  Said
  <2>1. ~ControlSkips(n)
    BY DeclAssumption DEF ControlSkips, NeverSkipped, IInv, TypeOK
  <2> QED BY <1>5, <1>a, <2>1 DEF ControlStep, ControlReleases, Send, Speaks, ControlSpeaks
<1>6. ASSUME NEW n \in Points, PointStep(n)
      PROVE  Said
  BY <1>6, <1>a, PointPrefixes
     DEF PointStep, PointTriggers, PointSyncs, PointSkips, PointTimesOut, Send, Speaks,
         PointSpeaks
<1> QED BY <1>1, <1>2, <1>3, <1>4, <1>5, <1>6 DEF Next, ElementStep, HorizonReached

-----------------------------------------------------------------------------
(* Listening.                                                              *)

\* What an element does on hearing a channel is determined by DistinctInputs.
LEMMA Hears ==
    ASSUME NEW n \in Elements, NEW c, NEW r \in Inputs(n), r[1] = loc[n], r[2] = c
    PROVE  After(n, c) = r[3]
<1>1. r \in Edges(n, c)
  BY DEF Edges
<1>2. \A s \in Edges(n, c) : s = r
  BY DistinctInputs DEF Edges, Inputs
<1> QED BY <1>1, <1>2 DEF After

\* The same template by template, for a channel that is not a skip.
LEMMA RigidHears ==
    ASSUME NEW n \in Rigids, NEW c, c[1] \notin SkipPrefixes
    PROVE  \/ /\ After(n, c) = loc[n]
              /\ ~(loc[n] = "idle" /\ c = Decl[n].event_s)
              /\ ~(loc[n] \in {"idle", "wait"} /\ c = Decl[n].kill_p)
           \/ loc[n] = "idle" /\ c = Decl[n].event_s /\ After(n, c) = "wait"
           \/ loc[n] \in {"idle", "wait"} /\ c = Decl[n].kill_p /\ After(n, c) = "killed"
<1>1. Inputs(n) = RigidInputs(Decl[n]) /\ n \in Elements
  BY DEF Inputs, InputsWhen, Rigids, Flexibles, Mixs, Controls, Points, OfKind
<1>2. c # Decl[n].skip_p
  BY RigidPrefixes
<1>3. CASE loc[n] = "idle" /\ c = Decl[n].event_s
  <2>1. <<"idle", Decl[n].event_s, "wait">> \in Inputs(n)
    BY <1>1 DEF RigidInputs
  <2> QED BY <1>1, <1>3, <2>1, Hears
<1>4. CASE loc[n] \in {"idle", "wait"} /\ c = Decl[n].kill_p
  <2>1. <<loc[n], Decl[n].kill_p, "killed">> \in Inputs(n)
    BY <1>1, <1>4 DEF RigidInputs
  <2> QED BY <1>1, <1>4, <2>1, Hears
<1>5. CASE /\ ~(loc[n] = "idle" /\ c = Decl[n].event_s)
           /\ ~(loc[n] \in {"idle", "wait"} /\ c = Decl[n].kill_p)
  <2>1. \A r \in Inputs(n) : ~(r[1] = loc[n] /\ r[2] = c)
    BY <1>1, <1>2, <1>5 DEF RigidInputs
  <2> QED BY <1>5, <2>1 DEF After, Edges
<1> QED BY <1>3, <1>4, <1>5

LEMMA FlexibleHears ==
    ASSUME NEW n \in Flexibles, NEW c, c[1] \notin SkipPrefixes
    PROVE  \/ /\ After(n, c) = loc[n]
              /\ ~(loc[n] = "idle" /\ c = Decl[n].event_s)
              /\ ~(loc[n] \in {"flexible", "semi_flexible"} /\ c = Decl[n].event_i)
              /\ ~(/\ loc[n] \in {"idle", "wait_min", "flexible", "semi_flexible"}
                   /\ c = Decl[n].kill_p)
           \/ loc[n] = "idle" /\ c = Decl[n].event_s /\ After(n, c) = "wait_min"
           \/ /\ loc[n] \in {"flexible", "semi_flexible"} /\ c = Decl[n].event_i
              /\ After(n, c) = "id15"
           \/ /\ loc[n] \in {"idle", "wait_min", "flexible", "semi_flexible"}
              /\ c = Decl[n].kill_p /\ After(n, c) = "killed"
<1>1. Inputs(n) = FlexibleInputs(Decl[n]) /\ n \in Elements
  BY DEF Inputs, InputsWhen, Rigids, Flexibles, Mixs, Controls, Points, OfKind
<1>2. c # Decl[n].skip_p
  BY FlexiblePrefixes
<1>3. CASE loc[n] = "idle" /\ c = Decl[n].event_s
  <2>1. <<"idle", Decl[n].event_s, "wait_min">> \in Inputs(n)
    BY <1>1 DEF FlexibleInputs
  <2> QED BY <1>1, <1>3, <2>1, Hears
<1>4. CASE loc[n] \in {"flexible", "semi_flexible"} /\ c = Decl[n].event_i
  <2>1. <<loc[n], Decl[n].event_i, "id15">> \in Inputs(n)
    BY <1>1, <1>4 DEF FlexibleInputs
  <2> QED BY <1>1, <1>4, <2>1, Hears
<1>5. CASE /\ loc[n] \in {"idle", "wait_min", "flexible", "semi_flexible"}
           /\ c = Decl[n].kill_p
  <2>1. <<loc[n], Decl[n].kill_p, "killed">> \in Inputs(n)
    BY <1>1, <1>5 DEF FlexibleInputs
  <2> QED BY <1>1, <1>5, <2>1, Hears
<1>6. CASE /\ ~(loc[n] = "idle" /\ c = Decl[n].event_s)
           /\ ~(loc[n] \in {"flexible", "semi_flexible"} /\ c = Decl[n].event_i)
           /\ ~(/\ loc[n] \in {"idle", "wait_min", "flexible", "semi_flexible"}
                /\ c = Decl[n].kill_p)
  <2>1. \A r \in Inputs(n) : ~(r[1] = loc[n] /\ r[2] = c)
    BY <1>1, <1>2, <1>6 DEF FlexibleInputs
  <2> QED BY <1>6, <2>1 DEF After, Edges
<1> QED BY <1>3, <1>4, <1>5, <1>6

LEMMA MixHears ==
    ASSUME NEW n \in Mixs, NEW c, c[1] \notin SkipPrefixes
    PROVE  \/ After(n, c) = loc[n]
           \/ loc[n] = "idle" /\ c = Decl[n].event_in /\ After(n, c) = "id22"
           \/ loc[n] = "idle" /\ c = Decl[n].kill_p /\ After(n, c) = "finished"
<1>1. Inputs(n) = MixInputs(Decl[n])
  BY DEF Inputs, InputsWhen, Rigids, Flexibles, Mixs, Controls, Points, OfKind
<1>2. c # Decl[n].skip_p
  BY MixPrefixes
<1> QED BY <1>1, <1>2, AfterEdge DEF MixInputs

LEMMA ControlHears ==
    ASSUME NEW n \in Controls, NEW c, c[1] \notin SkipPrefixes
    PROVE  \/ After(n, c) = loc[n]
           \/ loc[n] = "idle" /\ c = Decl[n].event_s1 /\ After(n, c) = "id26"
           \/ loc[n] = "idle" /\ c = Decl[n].event_s2 /\ After(n, c) = "error"
           \/ loc[n] = "idle" /\ c = Decl[n].kill_p /\ After(n, c) = "finished"
<1>1. Inputs(n) = ControlInputs(Decl[n])
  BY DEF Inputs, InputsWhen, Rigids, Flexibles, Mixs, Controls, Points, OfKind
<1>2. c # Decl[n].skip_p
  BY ControlPrefixes
<1> QED BY <1>1, <1>2, AfterEdge DEF ControlInputs

LEMMA PointHears ==
    ASSUME EnabledHasFlag, NEW n \in Points, NEW c, c[1] \notin SkipPrefixes
    PROVE  \/ /\ loc[n] \in {"idle", "enabled"} /\ c = Decl[n].kill_p
              /\ After(n, c) = "finished"
           \/ /\ ~(loc[n] \in {"idle", "enabled"} /\ c = Decl[n].kill_p)
              /\ \/ After(n, c) = loc[n]
                 \/ loc[n] = "idle" /\ c = Decl[n].event_s /\ After(n, c) = "enabled"
                 \/ loc[n] = "enabled" /\ c = Decl[n].event_e /\ After(n, c) = "timeout"
                 \/ loc[n] = "enabled" /\ c = Decl[n].event /\ After(n, c) = "cond_true"
<1>1. Inputs(n) = PointInputs(Decl[n], n \in Points /\ en[n]) /\ n \in Elements
  BY DEF Inputs, InputsWhen, Rigids, Flexibles, Mixs, Controls, Points, OfKind
<1>2. c # Decl[n].skip_p
  BY PointPrefixes
<1>3. CASE loc[n] \in {"idle", "enabled"} /\ c = Decl[n].kill_p
  <2>1. <<loc[n], Decl[n].kill_p, "finished">> \in Inputs(n)
    BY <1>1, <1>3 DEF PointInputs
  <2> QED BY <1>1, <1>3, <2>1, Hears
<1>4. CASE ~(loc[n] \in {"idle", "enabled"} /\ c = Decl[n].kill_p)
  <2>1. loc[n] = "enabled" => en[n]
    BY DEF EnabledHasFlag
  <2> QED BY <1>1, <1>2, <1>4, <2>1, AfterEdge DEF PointInputs
<1> QED BY <1>3, <1>4

-----------------------------------------------------------------------------
(* Nothing is ever skipped.                                                *)

\* What is said is never a skip, and never leads the speaker to one.
LEMMA SaidPrefixes ==
    ASSUME NEW n, NEW c, NEW target, Speaks(n, c, target)
    PROVE  /\ c[1] \notin SkipPrefixes
           /\ target \in {"finished", "id7", "flexible", "semi_flexible", "id28"}
<1>1. CASE EndSpeaks(n, c, target)
  BY <1>1, RigidPrefixes, FlexiblePrefixes DEF EndSpeaks, SkipPrefixes
<1>2. CASE OverSpeaks(n, c, target)
  BY <1>2, RigidPrefixes, FlexiblePrefixes DEF OverSpeaks, SkipPrefixes
<1>3. CASE KillSpeaks(n, c, target)
  BY <1>3, RigidPrefixes, FlexiblePrefixes DEF KillSpeaks, Intervals, SkipPrefixes
<1>4. CASE MixSpeaks(n, c, target)
  BY <1>4, MixPrefixes DEF MixSpeaks, SkipPrefixes
<1>5. CASE ControlSpeaks(n, c, target)
  BY <1>5, ControlPrefixes DEF ControlSpeaks, SkipPrefixes
<1>6. CASE PointSpeaks(n, c, target)
  BY <1>6, PointPrefixes DEF PointSpeaks, SkipPrefixes, PlayPrefixes
<1>7. CASE EventSpeaks(n, c, target)
  BY <1>7, EventPrefixes DEF EventSpeaks, SkipPrefixes
<1> QED BY <1>1, <1>2, <1>3, <1>4, <1>5, <1>6, <1>7 DEF Speaks

\* What a broadcast does to skip_v.
LEMMA SkipVAfter ==
    ASSUME NEW n \in Elements, NEW c, NEW target, NEW m, Broadcast(n, c, target, m),
           NEW x \in Controls
    PROVE  skip_v'[x] = IF /\ x # n /\ loc[x] = "idle" /\ loc'[x] = "id26"
                           /\ c = Decl[x].event_s1
                        THEN FALSE ELSE skip_v[x]
<1>1. x \in Elements
  BY DEF Controls, OfKind
<1> QED BY <1>1 DEF Broadcast, Counts, SkipV, Flags

LEMMA NeverSkippedInit == Init => NeverSkipped
BY DEF Init, NeverSkipped

LEMMA NeverSkippedNext == IInv /\ NeverSkipped /\ [Next]_vars => NeverSkipped'
<1> SUFFICES ASSUME IInv, NeverSkipped, [Next]_vars PROVE NeverSkipped'
  OBVIOUS
<1>1. ASSUME NEW n \in Elements, NEW c, NEW target, NEW m,
             Speaks(n, c, target), Broadcast(n, c, target, m)
      PROVE  NeverSkipped'
  <2>1. c[1] \notin SkipPrefixes /\ target # "skipped"
    BY <1>1, SaidPrefixes
  <2>2. ASSUME NEW x \in Elements PROVE loc'[x] # "skipped"
    <3>1. loc[x] # "skipped" /\ EnabledHasFlag
      BY DEF NeverSkipped, IInv
    <3>2. CASE x = n
      BY <1>1, <2>1, <3>2, BroadcastEffect
    <3>3. CASE x # n
      <4>1. loc'[x] = After(x, c)
        BY <1>1, <3>3, BroadcastEffect
      <4> QED BY <2>1, <3>1, <4>1, KindOfElement, EventAfter, RigidHears, FlexibleHears,
                 MixHears, ControlHears, PointHears
    <3> QED BY <3>2, <3>3
  <2>3. ASSUME NEW x \in Controls, counter'[x] > 0 PROVE ~skip_v'[x]
    <3>1. /\ x \in Elements /\ counter[x] \in Nat
          /\ counter[x] > 0 => ~skip_v[x]
      BY DEF Controls, OfKind, NeverSkipped, IInv, TypeOK
    <3>2. CASE x # n /\ loc[x] = "idle" /\ loc'[x] = "id26"
      <4>1. loc'[x] = After(x, c)
        BY <1>1, <3>1, <3>2, BroadcastEffect
      <4>2. c = Decl[x].event_s1
        BY <2>1, <3>2, <4>1, ControlHears
      <4> QED BY <1>1, <3>2, <4>2, SkipVAfter
    <3>3. CASE ~(x # n /\ loc[x] = "idle" /\ loc'[x] = "id26")
      <4>1. counter'[x] = counter[x]
        BY <1>1, <3>3, BroadcastEffect
      <4>2. skip_v'[x] = skip_v[x]
        BY <1>1, <3>3, SkipVAfter
      <4> QED BY <2>3, <3>1, <4>1, <4>2
    <3> QED BY <3>2, <3>3
  <2> QED BY <2>2, <2>3 DEF NeverSkipped
<1>2. ASSUME NEW n, \/ n \in Flexibles /\ FlexibleReachesMax(n)
                    \/ n \in Controls /\ ControlWaits(n)
      PROVE  NeverSkipped'
  BY <1>2 DEF FlexibleReachesMax, ControlWaits, NeverSkipped, IInv, TypeOK
<1>3. CASE Delay \/ UNCHANGED vars
  BY <1>3 DEF Delay, vars, NeverSkipped
<1> QED BY <1>1, <1>2, <1>3, StepIs

\* Every Point is printed urgent and has its flag up while it waits, so that no
\* element of a generated network originates a skip: in no score is an
\* interval, a sync or an event ever skipped, or a skip counted as an end.
THEOREM NothingIsSkipped == Spec => []NeverSkipped
<1>1. Init => NeverSkipped
  BY NeverSkippedInit
<1>2. IInv /\ NeverSkipped /\ [Next]_vars => NeverSkipped'
  BY NeverSkippedNext
<1> QED BY <1>1, <1>2, Invariance, PTL DEF Spec

-----------------------------------------------------------------------------
(* Who says what.                                                          *)

Holds(tn) == Score.parent[Score.scenarioOf[tn]]
KillOf(i) == Self(ScenarioOfInterval(i)).kill

\* An interval that tells that it may end, or that it ends.
LEMMA WhoEnds ==
    ASSUME NEW n, NEW c, NEW target, EndSpeaks(n, c, target)
    PROVE  \/ n = Name(Score.root) /\ c = <<"event_e1", Score.root>>
           \/ \E i \in Score.intervals : n = Name(i) /\ c = EndChannels(i).event_e1
<1>1. CASE n \in Rigids
  <2>1. PICK i \in Score.intervals : n = Name(i) /\ Decl[n] = RigidElement(i)
    BY <1>1, RigidIs
  <2>2. n \notin Flexibles
    BY <1>1 DEF Rigids, Flexibles, OfKind
  <2> QED BY <2>1, <2>2 DEF EndSpeaks, RigidElement
<1>2. CASE n \in Flexibles
  <2>1. n \notin Rigids /\ c = Decl[n].event_min
    BY <1>2 DEF Rigids, Flexibles, OfKind, EndSpeaks
  <2>2. CASE n = Name(Score.root) /\ Decl[n] = Base
    BY <2>1, <2>2 DEF Base
  <2>3. CASE \E i \in Score.intervals : n = Name(i) /\ Decl[n] = FlexibleElement(i)
    BY <2>1, <2>3 DEF FlexibleElement
  <2> QED BY <1>2, <2>2, <2>3, FlexibleIs
<1> QED BY <1>1, <1>2 DEF EndSpeaks

LEMMA WhoIsOver ==
    ASSUME NEW n, NEW c, NEW target, OverSpeaks(n, c, target)
    PROVE  \/ n = Name(Score.root) /\ c = <<"event_e2", Score.root>> /\ loc[n] = "id15"
           \/ \E i \in Score.intervals :
                 /\ n = Name(i) /\ c = EndChannels(i).event_e2
                 /\ Interval(i) = IF Score.rigid[i] THEN "id7" ELSE "id15"
<1>1. CASE n \in Rigids
  <2>1. PICK i \in Score.intervals :
           Score.rigid[i] /\ n = Name(i) /\ Decl[n] = RigidElement(i)
    BY <1>1, RigidIs
  <2>2. n \notin Flexibles
    BY <1>1 DEF Rigids, Flexibles, OfKind
  <2> QED BY <2>1, <2>2 DEF OverSpeaks, RigidElement, Interval
<1>2. CASE n \in Flexibles
  <2>1. n \notin Rigids /\ c = Decl[n].event_max /\ loc[n] = "id15"
    BY <1>2 DEF Rigids, Flexibles, OfKind, OverSpeaks
  <2>2. CASE n = Name(Score.root) /\ Decl[n] = Base
    BY <2>1, <2>2 DEF Base
  <2>3. CASE \E i \in Score.intervals :
                ~Score.rigid[i] /\ n = Name(i) /\ Decl[n] = FlexibleElement(i)
    BY <2>1, <2>3 DEF FlexibleElement, Interval
  <2> QED BY <1>2, <2>2, <2>3, FlexibleIs
<1> QED BY <1>1, <1>2 DEF OverSpeaks

LEMMA WhoKills ==
    ASSUME NEW n, NEW c, NEW target, KillSpeaks(n, c, target)
    PROVE  \/ n = Name(Score.root) /\ c = <<"kill", Score.root>>
           \/ \E i \in Score.intervals : n = Name(i) /\ c = <<"kill_", i>>
<1>1. CASE n \in Rigids
  <2>1. PICK i \in Score.intervals : n = Name(i) /\ Decl[n] = RigidElement(i)
    BY <1>1, RigidIs
  <2> QED BY <2>1 DEF KillSpeaks, RigidElement
<1>2. CASE n \in Flexibles
  <2>2. CASE n = Name(Score.root) /\ Decl[n] = Base
    BY <2>2 DEF Base, KillSpeaks
  <2>3. CASE \E i \in Score.intervals : n = Name(i) /\ Decl[n] = FlexibleElement(i)
    BY <2>3 DEF FlexibleElement, KillSpeaks
  <2> QED BY <1>2, <2>2, <2>3, FlexibleIs
<1> QED BY <1>1, <1>2 DEF KillSpeaks, Intervals

LEMMA WhoForwards ==
    ASSUME NEW n, NEW c, NEW target, MixSpeaks(n, c, target)
    PROVE  \/ n = <<"EndMix">> /\ c = <<"kill", Score.root>>
           \/ \E tn \in Score.syncs :
                 ~Score.active[tn] /\ n = <<"Mix", tn>> /\ c = MixOut(tn)
           \/ \E ev \in Score.events : n = <<"Mix", ev>> /\ c = <<"emax_", ev>>
<1>1. CASE n = <<"EndMix">> /\ Decl[n] = EndMix
  BY <1>1 DEF EndMix, Base, MixSpeaks
<1>2. CASE \E tn \in Score.syncs :
              ~Score.active[tn] /\ n = <<"Mix", tn>> /\ Decl[n] = SyncMix(tn)
  BY <1>2 DEF SyncMix, MixSpeaks
<1>3. CASE \E ev \in Score.events : n = <<"Mix", ev>> /\ Decl[n] = EventMix(ev)
  BY <1>3 DEF EventMix, EventPoint, MixSpeaks
<1> QED BY <1>1, <1>2, <1>3, MixIs DEF MixSpeaks

LEMMA WhoReleases ==
    ASSUME NEW n, NEW c, NEW target, ControlSpeaks(n, c, target)
    PROVE  \E tn \in Score.syncs :
              /\ IsMerge(tn) /\ n = ControlName(tn) /\ c = <<"event_e_Control_", tn>>
              /\ counter[n] = Cardinality(Previous(tn))
<1>1. PICK tn \in Score.syncs :
         IsMerge(tn) /\ n = ControlName(tn) /\ Decl[n] = SyncControl(tn)
  BY ControlIs DEF ControlSpeaks
<1>2. /\ SyncControl(tn).event_e = <<"event_e_Control_", tn>>
      /\ SyncControl(tn).num_prev_rels = Cardinality(Previous(tn))
  BY DEF SyncControl
<1> QED BY <1>1, <1>2 DEF ControlSpeaks

LEMMA WhoTriggers ==
    ASSUME NEW n, NEW c, NEW target, PointSpeaks(n, c, target)
    PROVE  \/ \E tn \in Score.syncs :
                 n = Name(tn) /\ loc[n] \in {"cond_true", "timeout"} /\ c = <<"ok_", tn>>
           \/ \E tn \in Score.syncs :
                 n = Name(tn) /\ loc[n] = "id28" /\ c = SyncPoint(tn).event_e
           \/ \E ev \in Score.events :
                 n = Name(ev) /\ loc[n] \in {"cond_true", "timeout"} /\ c = <<"ok_", ev>>
           \/ \E ev \in Score.events :
                 n = Name(ev) /\ loc[n] = "id28" /\ c = <<"emax_", ev>>
<1>1. CASE \E tn \in Score.syncs : n = Name(tn) /\ Decl[n] = SyncPoint(tn)
  <2>1. \A tn : SyncPoint(tn).event_t = <<"ok_", tn>>
    BY DEF SyncPoint
  <2> QED BY <1>1, <2>1 DEF PointSpeaks
<1>2. CASE \E ev \in Score.events : n = Name(ev) /\ Decl[n] = EventPoint(ev)
  <2>1. \A ev : EventPoint(ev).event_t = <<"ok_", ev>> /\ EventPoint(ev).event_e = <<"emax_", ev>>
    BY DEF EventPoint
  <2> QED BY <1>2, <2>1 DEF PointSpeaks
<1> QED BY <1>1, <1>2, PointIs DEF PointSpeaks

\* What is said, by prefix: some channels only one template can say.
LEMMA WhoSays ==
    ASSUME NEW n, NEW c, NEW target, Speaks(n, c, target)
    PROVE  /\ c[1] # "kill_p"
           /\ c[1] \in {"event_s_", "event_s1_Control_"} => EndSpeaks(n, c, target)
           /\ c[1] \in {"event_e_", "event_s2_Control_"} =>
                 OverSpeaks(n, c, target) \/ PointSpeaks(n, c, target)
           /\ c[1] = "event_e_Control_" => ControlSpeaks(n, c, target)
           /\ c[1] = "mix_event_e" => MixSpeaks(n, c, target) \/ PointSpeaks(n, c, target)
           /\ c[1] = "ok_" => PointSpeaks(n, c, target)
           /\ c[1] \in {"kill", "kill_"} => KillSpeaks(n, c, target) \/ MixSpeaks(n, c, target)
           /\ c[1] = "global_start" => PointSpeaks(n, c, target) \/ EventSpeaks(n, c, target)
           /\ c[1] = "emax_" => \/ MixSpeaks(n, c, target) \/ PointSpeaks(n, c, target)
                                \/ EventSpeaks(n, c, target)
           /\ c[1] = "global_end" => EventSpeaks(n, c, target)
           /\ c[1] = "event_" => EventSpeaks(n, c, target)
<1>1. CASE EndSpeaks(n, c, target)
  BY <1>1, RigidPrefixes, FlexiblePrefixes DEF EndSpeaks
<1>2. CASE OverSpeaks(n, c, target)
  BY <1>2, RigidPrefixes, FlexiblePrefixes DEF OverSpeaks
<1>3. CASE KillSpeaks(n, c, target)
  BY <1>3, RigidPrefixes, FlexiblePrefixes DEF KillSpeaks, Intervals
<1>4. CASE MixSpeaks(n, c, target)
  BY <1>4, MixPrefixes DEF MixSpeaks
<1>5. CASE ControlSpeaks(n, c, target)
  BY <1>5, ControlPrefixes DEF ControlSpeaks
<1>6. CASE PointSpeaks(n, c, target)
  BY <1>6, PointPrefixes DEF PointSpeaks, PlayPrefixes
<1>7. CASE EventSpeaks(n, c, target)
  BY <1>7, EventPrefixes DEF EventSpeaks
<1> QED BY <1>1, <1>2, <1>3, <1>4, <1>5, <1>6, <1>7 DEF Speaks

\* What a sync tells once it is triggered, to its Mix or to all that wait for it.
LEMMA SyncTells ==
    ASSUME NEW tn \in Score.syncs
    PROVE  /\ Score.active[tn] => SyncPoint(tn).event_e = SyncChannels(tn).event_e
           /\ ~Score.active[tn] => SyncPoint(tn).event_e = MixOut(tn)
           /\ IsMerge(tn) => /\ SyncChannels(tn).event_s = <<"event_e_Control_", tn>>
                             /\ SyncChannels(tn).event_e = <<"event_s2_Control_", tn>>
           /\ ~IsMerge(tn) /\ Previous(tn) # {} =>
                 /\ SyncChannels(tn).event_s = <<"event_s_", tn>>
                 /\ SyncChannels(tn).event_e = <<"event_e_", tn>>
           /\ ~IsMerge(tn) /\ Previous(tn) = {} =>
                 /\ SyncChannels(tn).event_s = SyncChannels(tn).event_e
                 /\ Holds(tn) = Score.root => SyncChannels(tn).event_e = GlobalStart
                 /\ Holds(tn) # Score.root =>
                       SyncChannels(tn).event_e = <<"ok_", Score.startEvent[Holds(tn)]>>
BY DEF SyncPoint, SyncChannels, SelfOfSync, Self, Holds

\* What an interval tells its end sync.
LEMMA IntervalTells ==
    ASSUME NEW i \in Score.intervals
    PROVE  /\ IsMerge(EndSync(i)) =>
                 /\ EndChannels(i).event_e1 = <<"event_s1_Control_", EndSync(i)>>
                 /\ EndChannels(i).event_e2 = <<"event_s2_Control_", EndSync(i)>>
           /\ ~IsMerge(EndSync(i)) =>
                 /\ EndChannels(i).event_e1 = <<"event_s_", EndSync(i)>>
                 /\ EndChannels(i).event_e2 = <<"event_e_", EndSync(i)>>
           /\ EndChannels(i).event_e2 = SyncChannels(EndSync(i)).event_e
<1>1. Previous(EndSync(i)) # {}
  BY References
<1> QED BY <1>1 DEF EndChannels, SyncChannels

-----------------------------------------------------------------------------
(* Who hears what, in a step in which another element speaks.              *)

\* An interval of the score starts on its event, ends early on the end of its
\* sync, and is killed with its scenario; nothing else touches it.
LEMMA IntervalHears ==
    ASSUME IInv, NEW n \in Elements, NEW c, NEW target, NEW m,
           Speaks(n, c, target), Broadcast(n, c, target, m),
           NEW i \in Score.intervals, n # Name(i)
    PROVE  \/ /\ Interval(i)' = Interval(i)
              /\ ~(Interval(i) = "idle" /\ c = <<"ok_", Score.startEvent[i]>>)
              /\ ~(/\ Interval(i) \in {"idle", "wait", "wait_min", "flexible", "semi_flexible"}
                   /\ c = KillOf(i))
           \/ /\ Interval(i) = "idle" /\ c = <<"ok_", Score.startEvent[i]>>
              /\ Interval(i)' \in {"wait", "wait_min"}
           \/ /\ Interval(i) \in {"flexible", "semi_flexible"} /\ ~Score.rigid[i]
              /\ c = EndChannels(i).event_e2 /\ Interval(i)' = "id15"
           \/ /\ Interval(i) \in {"idle", "wait", "wait_min", "flexible", "semi_flexible"}
              /\ c = KillOf(i) /\ Interval(i)' = "killed"
<1>1. c[1] \notin SkipPrefixes
  BY SaidPrefixes
<1>2. Name(i) \in Elements
  BY IntervalNamed DEF Intervals, Rigids, Flexibles, OfKind
<1>3. Interval(i)' = After(Name(i), c)
  BY <1>2, BroadcastEffect DEF Interval
<1>4. CASE Score.rigid[i]
  <2>1. /\ Name(i) \in Rigids
        /\ Decl[Name(i)].event_s = <<"ok_", Score.startEvent[i]>>
        /\ Decl[Name(i)].kill_p = KillOf(i)
    <3>1. Name(i) \in Rigids /\ Decl[Name(i)] = RigidElement(i)
      BY <1>4, IntervalNamed
    <3>2. /\ RigidElement(i).event_s = <<"ok_", Score.startEvent[i]>>
          /\ RigidElement(i).kill_p = KillOf(i)
      BY DEF RigidElement, KillOf
    <3> QED BY <3>1, <3>2
  <2>2. loc[Name(i)] \in {"idle", "wait", "id7", "skipped", "killed", "finished"}
    BY <2>1, <1>2, TemplateLocations DEF IInv, TypeOK
  <2> QED BY <1>1, <1>3, <2>1, <2>2, RigidHears DEF Interval
<1>5. CASE ~Score.rigid[i]
  <2>1. /\ Name(i) \in Flexibles
        /\ Decl[Name(i)].event_s = <<"ok_", Score.startEvent[i]>>
        /\ Decl[Name(i)].event_i = EndChannels(i).event_e2
        /\ Decl[Name(i)].kill_p = KillOf(i)
    <3>1. Name(i) \in Flexibles /\ Decl[Name(i)] = FlexibleElement(i)
      BY <1>5, IntervalNamed
    <3>2. /\ FlexibleElement(i).event_s = <<"ok_", Score.startEvent[i]>>
          /\ FlexibleElement(i).event_i = EndChannels(i).event_e2
          /\ FlexibleElement(i).kill_p = KillOf(i)
      BY DEF FlexibleElement, KillOf
    <3> QED BY <3>1, <3>2
  <2>2. loc[Name(i)] # "wait"
    BY <2>1, <1>2, TemplateLocations DEF IInv, TypeOK
  <2> QED BY <1>1, <1>3, <1>5, <2>1, <2>2, FlexibleHears DEF Interval
<1> QED BY <1>4, <1>5

LEMMA SyncHears ==
    ASSUME IInv, NEW n \in Elements, NEW c, NEW target, NEW m,
           Speaks(n, c, target), Broadcast(n, c, target, m),
           NEW tn \in Score.syncs, n # Name(tn)
    PROVE  \/ /\ loc[Name(tn)] \in {"idle", "enabled"} /\ c = SelfOfSync(tn).kill
              /\ loc'[Name(tn)] = "finished"
           \/ /\ ~(loc[Name(tn)] \in {"idle", "enabled"} /\ c = SelfOfSync(tn).kill)
              /\ \/ loc'[Name(tn)] = loc[Name(tn)]
                 \/ /\ loc[Name(tn)] = "idle" /\ c = SyncChannels(tn).event_s
                    /\ loc'[Name(tn)] = "enabled"
                 \/ /\ loc[Name(tn)] = "enabled" /\ c = SyncPoint(tn).event_e
                    /\ loc'[Name(tn)] = "timeout"
                 \/ /\ loc[Name(tn)] = "enabled" /\ c = <<"event_", tn>>
                    /\ loc'[Name(tn)] = "cond_true"
<1>1. c[1] \notin SkipPrefixes
  BY SaidPrefixes
<1>2. /\ Name(tn) \in Points /\ Name(tn) \in Elements
      /\ Decl[Name(tn)] = SyncPoint(tn)
  BY SyncNamed DEF Points, OfKind
<1>3. loc'[Name(tn)] = After(Name(tn), c)
  BY <1>2, BroadcastEffect
<1>4. /\ SyncPoint(tn).event_s = SyncChannels(tn).event_s
      /\ SyncPoint(tn).event = <<"event_", tn>>
      /\ SyncPoint(tn).kill_p = SelfOfSync(tn).kill
  BY DEF SyncPoint
<1>5. /\ Decl[Name(tn)].event_s = SyncChannels(tn).event_s
      /\ Decl[Name(tn)].event_e = SyncPoint(tn).event_e
      /\ Decl[Name(tn)].event = <<"event_", tn>>
      /\ Decl[Name(tn)].kill_p = SelfOfSync(tn).kill
  BY <1>2, <1>4
<1>6. EnabledHasFlag
  BY DEF IInv
<1> QED BY <1>1, <1>2, <1>3, <1>5, <1>6, PointHears

LEMMA EventHears ==
    ASSUME IInv, NEW n \in Elements, NEW c, NEW target, NEW m,
           Speaks(n, c, target), Broadcast(n, c, target, m),
           NEW ev \in Score.events, n # Name(ev)
    PROVE  LET tn == Score.syncOf[ev]
           IN  \/ /\ loc[Name(ev)] \in {"idle", "enabled"} /\ c = SelfOfSync(tn).kill
                  /\ loc'[Name(ev)] = "finished"
               \/ /\ ~(loc[Name(ev)] \in {"idle", "enabled"} /\ c = SelfOfSync(tn).kill)
                  /\ \/ loc'[Name(ev)] = loc[Name(ev)]
                     \/ /\ loc[Name(ev)] = "idle" /\ c = SyncPoint(tn).event_e
                        /\ loc'[Name(ev)] = "enabled"
                     \/ /\ loc[Name(ev)] = "enabled" /\ c \in {<<"emax_", ev>>, <<"event_", ev>>}
                        /\ loc'[Name(ev)] \in {"timeout", "cond_true"}
<1>1. c[1] \notin SkipPrefixes
  BY SaidPrefixes
<1>2. /\ Name(ev) \in Points /\ Name(ev) \in Elements
      /\ Decl[Name(ev)] = EventPoint(ev)
  BY EventNamed DEF Points, OfKind
<1>3. loc'[Name(ev)] = After(Name(ev), c)
  BY <1>2, BroadcastEffect
<1>4. /\ EventPoint(ev).event_s = SyncPoint(Score.syncOf[ev]).event_e
      /\ EventPoint(ev).event_e = <<"emax_", ev>>
      /\ EventPoint(ev).event = <<"event_", ev>>
      /\ EventPoint(ev).kill_p = SelfOfSync(Score.syncOf[ev]).kill
  BY DEF EventPoint
<1> QED BY <1>1, <1>2, <1>3, <1>4, PointHears DEF IInv

LEMMA MergeHears ==
    ASSUME IInv, NEW n \in Elements, NEW c, NEW target, NEW m,
           Speaks(n, c, target), Broadcast(n, c, target, m),
           NEW tn \in Score.syncs, IsMerge(tn), n # ControlName(tn)
    PROVE  LET x == ControlName(tn)
           IN  \/ loc'[x] = loc[x]
               \/ loc[x] = "idle" /\ c = <<"event_s1_Control_", tn>> /\ loc'[x] = "id26"
               \/ loc[x] = "idle" /\ c = <<"event_s2_Control_", tn>> /\ loc'[x] = "error"
               \/ loc[x] = "idle" /\ c = SelfOfSync(tn).kill /\ loc'[x] = "finished"
<1>1. c[1] \notin SkipPrefixes
  BY SaidPrefixes
<1>2. /\ ControlName(tn) \in Controls /\ ControlName(tn) \in Elements
      /\ Decl[ControlName(tn)] = SyncControl(tn)
  BY SyncNamed DEF Controls, OfKind
<1>3. loc'[ControlName(tn)] = After(ControlName(tn), c)
  BY <1>2, BroadcastEffect
<1>4. /\ SyncControl(tn).event_s1 = <<"event_s1_Control_", tn>>
      /\ SyncControl(tn).event_s2 = <<"event_s2_Control_", tn>>
      /\ SyncControl(tn).kill_p = SelfOfSync(tn).kill
  BY DEF SyncControl
<1> QED BY <1>1, <1>2, <1>3, <1>4, ControlHears

-----------------------------------------------------------------------------
(* Merges are wired as their Controls expect.                              *)

\* What an element says at most, by the prefix of the channel.
LEMMA SaysPrefix ==
    ASSUME NEW n \in Elements, NEW o \in Outputs(n),
           o[2][1] \in {"event_s1_Control_", "skip_p_Control_"}
    PROVE  \/ n \in Rigids /\ \/ o = <<"wait", Decl[n].event_e1>>
                              \/ o = <<"skipped", Decl[n].skip>>
           \/ n \in Flexibles /\ \/ o = <<"wait_min", Decl[n].event_min>>
                                 \/ o = <<"skipped", Decl[n].skip>>
<1>1. CASE n \in Events \cup EventsND
  <2>1. Outputs(n) = EventOutputs(Decl[n]) \/ Outputs(n) = EventNDOutputs(Decl[n])
    BY <1>1 DEF Outputs, Events, EventsND, Rigids, Flexibles, Mixs, Controls, Points, OfKind
  <2> QED BY <1>1, <2>1, EventPrefixes DEF EventOutputs, EventNDOutputs
<1>2. CASE n \in Rigids
  <2>1. Outputs(n) = RigidOutputs(Decl[n])
    BY <1>2 DEF Outputs, Events, EventsND, Rigids, Flexibles, Mixs, Controls, Points, OfKind
  <2>2. /\ Decl[n].event_e2[1] \in {"event_e_", "event_s2_Control_"}
        /\ Decl[n].kill[1] = "kill_"
    BY <1>2, RigidPrefixes
  <2> QED BY <1>2, <2>1, <2>2 DEF RigidOutputs
<1>3. CASE n \in Flexibles
  <2>1. Outputs(n) = FlexibleOutputs(Decl[n])
    BY <1>3 DEF Outputs, Events, EventsND, Rigids, Flexibles, Mixs, Controls, Points, OfKind
  <2>2. /\ Decl[n].event_max[1] \in {"event_e_", "event_s2_Control_", "event_e2"}
        /\ Decl[n].kill[1] \in {"kill", "kill_"}
    BY <1>3, FlexiblePrefixes
  <2> QED BY <1>3, <2>1, <2>2 DEF FlexibleOutputs
<1>4. CASE n \in Mixs
  <2>1. Outputs(n) = MixOutputs(Decl[n])
    BY <1>4 DEF Outputs, Events, EventsND, Rigids, Flexibles, Mixs, Controls, Points, OfKind
  <2> QED BY <1>4, <2>1, MixPrefixes DEF MixOutputs
<1>5. CASE n \in Controls
  <2>1. Outputs(n) = ControlOutputs(Decl[n])
    BY <1>5 DEF Outputs, Events, EventsND, Rigids, Flexibles, Mixs, Controls, Points, OfKind
  <2>2. PICK tn \in Score.syncs : Decl[n] = SyncControl(tn)
    BY <1>5, ControlIs
  <2>3. Decl[n].skip = <<"skip_Control_", tn>> /\ Decl[n].event_e = <<"event_e_Control_", tn>>
    BY <2>2 DEF SyncControl
  <2> QED BY <2>1, <2>3 DEF ControlOutputs
<1>6. CASE n \in Points
  <2>1. Outputs(n) = PointOutputs(Decl[n])
    BY <1>6 DEF Outputs, Events, EventsND, Rigids, Flexibles, Mixs, Controls, Points, OfKind
  <2>2. Decl[n].skip[1] = "skip_"
    <3>1. \A x : SyncPoint(x).skip = <<"skip_", x>> /\ EventPoint(x).skip = <<"skip_", x>>
      BY DEF SyncPoint, EventPoint
    <3>2. \E x : Decl[n].skip = <<"skip_", x>>
      BY <1>6, <3>1, PointIs
    <3> QED BY <3>2
  <2>3. /\ Decl[n].event_t[1] = "ok_"
        /\ Decl[n].event_e[1] \in {"global_start", "ok_", "event_e_", "event_s2_Control_",
                                    "mix_event_e", "emax_"}
    BY <1>6, PointPrefixes
  <2> QED BY <2>1, <2>2, <2>3 DEF PointOutputs
<1> QED BY <1>1, <1>2, <1>3, <1>4, <1>5, <1>6, KindOfElement

\* An interval speaks on the channels of a Control when it reaches its merge.
LEMMA EndsAtMerge ==
    ASSUME NEW i \in Score.intervals, NEW tn
    PROVE  /\ EndChannels(i).event_e1 = <<"event_s1_Control_", tn>> <=>
                 IsMerge(tn) /\ i \in Previous(tn)
           /\ EndChannels(i).skip = <<"skip_p_Control_", tn>> <=>
                 IsMerge(tn) /\ i \in Previous(tn)
<1>1. i \in Previous(tn) <=> EndSync(i) = tn
  BY DEF Previous
<1> QED BY <1>1 DEF EndChannels

\* The intervals that feed the Control of a merge are those that reach it.
LEMMA FeedsMerge ==
    ASSUME NEW tn \in Score.syncs, IsMerge(tn)
    PROVE  Feeding(ControlName(tn)) = {Name(i) : i \in Previous(tn)}
<1>1. Decl[ControlName(tn)].event_s1 = <<"event_s1_Control_", tn>>
  <2>1. SyncControl(tn).event_s1 = <<"event_s1_Control_", tn>>
    BY DEF SyncControl
  <2> QED BY <2>1, SyncNamed
<1>2. ASSUME NEW i \in Score.intervals
      PROVE  /\ RigidElement(i).event_e1 = EndChannels(i).event_e1
             /\ FlexibleElement(i).event_min = EndChannels(i).event_e1
  BY DEF RigidElement, FlexibleElement
<1>3. Base.event_min # <<"event_s1_Control_", tn>>
  BY DEF Base
<1>4. ASSUME NEW n \in Feeding(ControlName(tn))
      PROVE  n \in {Name(i) : i \in Previous(tn)}
  <2>1. \/ n \in Rigids /\ Decl[n].event_e1 = <<"event_s1_Control_", tn>>
        \/ n \in Flexibles /\ Decl[n].event_min = <<"event_s1_Control_", tn>>
    BY <1>1 DEF Feeding
  <2>2. \E i \in Score.intervals :
           n = Name(i) /\ EndChannels(i).event_e1 = <<"event_s1_Control_", tn>>
    BY <1>2, <1>3, <2>1, RigidIs, FlexibleIs
  <2> QED BY <2>2, EndsAtMerge
<1>5. ASSUME NEW i \in Previous(tn)
      PROVE  Name(i) \in Feeding(ControlName(tn))
  <2>1. i \in Score.intervals /\ EndChannels(i).event_e1 = <<"event_s1_Control_", tn>>
    BY EndsAtMerge DEF Previous
  <2>2. \/ Name(i) \in Rigids /\ Decl[Name(i)].event_e1 = EndChannels(i).event_e1
        \/ Name(i) \in Flexibles /\ Decl[Name(i)].event_min = EndChannels(i).event_e1
    BY <1>2, <2>1, IntervalNamed, References
  <2> QED BY <1>1, <2>1, <2>2 DEF Feeding
<1> QED BY <1>4, <1>5

\* Whatever is merged into whatever, a Control is told how many intervals it
\* waits for, hears each of them end on event_s1 and be skipped on skip_p, and
\* hears nobody else there: the converted network is Wired.
THEOREM ConvertedIsWired == Wired
<1> SUFFICES ASSUME NEW x \in Controls
             PROVE  /\ IsFiniteSet(Feeding(x)) /\ Cardinality(Feeding(x)) = Decl[x].num_prev_rels
                    /\ \A n \in Elements : \A o \in Outputs(n) :
                          /\ o[2] = Decl[x].event_s1 =>
                                n \in Feeding(x) /\ o[1] \in {"wait", "wait_min"}
                          /\ o[2] = Decl[x].skip_p => n \in Feeding(x) /\ o[1] = "skipped"
  BY DEF Wired
<1>1. PICK tn \in Score.syncs : IsMerge(tn) /\ x = ControlName(tn) /\ Decl[x] = SyncControl(tn)
  BY ControlIs
<1>2. /\ Decl[x].event_s1 = <<"event_s1_Control_", tn>>
      /\ Decl[x].skip_p = <<"skip_p_Control_", tn>>
      /\ Decl[x].num_prev_rels = Cardinality(Previous(tn))
  <2>1. /\ SyncControl(tn).event_s1 = <<"event_s1_Control_", tn>>
        /\ SyncControl(tn).skip_p = <<"skip_p_Control_", tn>>
        /\ SyncControl(tn).num_prev_rels = Cardinality(Previous(tn))
    BY DEF SyncControl
  <2> QED BY <1>1, <2>1
<1>3. Feeding(x) = {Name(i) : i \in Previous(tn)}
  BY <1>1, FeedsMerge
<1>4. IsFiniteSet(Feeding(x)) /\ Cardinality(Feeding(x)) = Decl[x].num_prev_rels
  <2>1. IsFiniteSet(Previous(tn))
    <3>1. IsFiniteSet(Score.intervals)
      BY ScoreIsDocument DEF ScoreAssumption
    <3> QED BY <3>1, FS_Subset DEF Previous
  <2>2. ExistsBijection(Previous(tn), Feeding(x))
    <3> DEFINE f == [i \in Previous(tn) |-> Name(i)]
    <3>1. f \in [Previous(tn) -> Feeding(x)]
      BY <1>3
    <3>2. \A i, j \in Previous(tn) : f[i] = f[j] => i = j
      BY DEF Name
    <3>3. \A n \in Feeding(x) : \E i \in Previous(tn) : f[i] = n
      BY <1>3
    <3>4. f \in Bijection(Previous(tn), Feeding(x))
      BY <3>1, <3>2, <3>3 DEF Bijection, Injection, IsInjective, Surjection
    <3> QED BY <3>4 DEF ExistsBijection
  <2> QED BY <1>2, <2>1, <2>2, FS_Bijection
<1>5. ASSUME NEW n \in Elements, NEW o \in Outputs(n),
             o[2] \in {Decl[x].event_s1, Decl[x].skip_p}
      PROVE  /\ o[2] = Decl[x].event_s1 => n \in Feeding(x) /\ o[1] \in {"wait", "wait_min"}
             /\ o[2] = Decl[x].skip_p => n \in Feeding(x) /\ o[1] = "skipped"
  <2>1. o[2][1] \in {"event_s1_Control_", "skip_p_Control_"}
    BY <1>2, <1>5
  <2>2. \/ n \in Rigids /\ \/ o = <<"wait", Decl[n].event_e1>>
                           \/ o = <<"skipped", Decl[n].skip>>
        \/ n \in Flexibles /\ \/ o = <<"wait_min", Decl[n].event_min>>
                              \/ o = <<"skipped", Decl[n].skip>>
    BY <2>1, SaysPrefix
  <2>3. n # Name(Score.root) \/ n \notin Flexibles
    <3>1. Base.skip[1] = "skip" /\ Base.event_min[1] = "event_e1"
      BY DEF Base
    <3> QED BY <2>1, <2>2, <3>1, BaseNamed DEF Rigids, Flexibles, OfKind
  <2>4. PICK i \in Score.intervals :
           /\ n = Name(i)
           /\ n \in Rigids => Decl[n] = RigidElement(i)
           /\ n \in Flexibles => Decl[n] = FlexibleElement(i)
    BY <2>2, <2>3, RigidIs, FlexibleIs DEF Rigids, Flexibles, OfKind
  <2>5. /\ n \in Rigids => Decl[n].event_e1 = EndChannels(i).event_e1
        /\ n \in Flexibles => Decl[n].event_min = EndChannels(i).event_e1
        /\ Decl[n].skip = EndChannels(i).skip
    BY <2>2, <2>4 DEF RigidElement, FlexibleElement
  <2>6. /\ EndChannels(i).event_e1[1] \in {"event_s_", "event_s1_Control_"}
        /\ EndChannels(i).skip[1] \in SkipPrefixes
    BY EndPrefixes
  <2>7. \/ o[1] \in {"wait", "wait_min"} /\ o[2] = EndChannels(i).event_e1
        \/ o[1] = "skipped" /\ o[2] = EndChannels(i).skip
    BY <2>2, <2>5
  <2>8. i \in Previous(tn)
    BY <1>2, <1>5, <2>6, <2>7, EndsAtMerge DEF SkipPrefixes
  <2>9. n \in Feeding(x)
    BY <1>3, <2>4, <2>8
  <2>10. Decl[x].event_s1[1] \notin SkipPrefixes /\ Decl[x].skip_p[1] = "skip_p_Control_"
    BY <1>2 DEF SkipPrefixes
  <2> QED BY <2>6, <2>7, <2>9, <2>10
<1> QED BY <1>4, <1>5

\* So the Control of a merge passes a skip on only when nothing it waited for
\* was played, in every conversion of every score.
THEOREM MergesTellSkipFromPlay == Spec => []ControlTellsSkipFromPlay
BY ConvertedIsWired, ControlsTellSkipFromPlay

-----------------------------------------------------------------------------
(* What is played.                                                         *)

\* No interval that reaches a merge with a trigger ends by itself: with one
\* that does, the trigger is passed by without its Control (see WaitsForAll).
TriggersUnforced ==
    \A i \in Score.intervals :
        IsMerge(EndSync(i)) /\ Score.active[EndSync(i)] =>
            ~Score.rigid[i] /\ Score.infinite[i]

-----------------------------------------------------------------------------
(* The inductive invariant.                                                *)

\* What ends the play: the root interval, the Mix that kills it, and what is killed.
Ending(n) ==
    \/ loc[n] = "killed"
    \/ n = Name(Score.root) /\ loc[n] = "id15"
    \/ n = <<"EndMix">> /\ loc[n] = "id22"

\* A kill and an ordinary play of events are never under way at one time.
OneCascade == (\E n \in Elements : Ending(n)) => \A n \in Committed : Ending(n)

\* An interval has not left idle before the point of its event has told it to,
\* and the intervals of an event leave it together.
StartsOnCue ==
    /\ \A i \in Score.intervals :
          loc[Name(Score.startEvent[i])] \in {"idle", "enabled", "cond_true", "timeout"} =>
              Interval(i) = "idle"
    /\ \A i, j \in Score.intervals :
          Score.startEvent[i] = Score.startEvent[j] /\ Interval(i) = "idle" =>
              Interval(j) = "idle"

\* All that a sync waits for has come about.
Ready(tn) ==
    LET holder == Score.parent[Score.scenarioOf[tn]]
    IN  /\ \A i \in Previous(tn) : Phase(i) \in {"past", "over"}
        /\ Previous(tn) = {} /\ holder # Score.root => Phase(holder) # "waiting"

\* What listens to the channels on which a sync tells that it is reached has
\* heard them only when it is.
HeardWhenReady ==
    /\ \A tn \in Score.syncs :
          /\ loc[Name(tn)] \in {"enabled", "cond_true", "timeout", "id28"} => Ready(tn)
          /\ ~Score.active[tn] /\ loc[<<"Mix", tn>>] = "id22" => Ready(tn)
    /\ \A ev \in Score.events :
          loc[Name(ev)] \in {"enabled", "cond_true", "timeout"} => Ready(Score.syncOf[ev])
    /\ \A i \in Score.intervals :
          IsMerge(EndSync(i)) /\ Score.active[EndSync(i)] /\ Interval(i) = "id15" =>
              Ready(EndSync(i))

\* In particular, a trigger on a start sync, which says once more what its
\* scenario is opened by, says it after the interval that holds the scenario.
OpeningsReady ==
    \A tn \in Score.syncs :
        LET holder == Score.parent[Score.scenarioOf[tn]]
        IN  Previous(tn) = {} /\ holder # Score.root /\ Score.active[tn]
                /\ loc[Name(tn)] = "id28" => Interval(holder) # "idle"

\* A Control has counted no more intervals than have got past their minimum.
PastOf(tn) == {i \in Previous(tn) : Phase(i) \in {"past", "over"}}
CountsPast ==
    \A tn \in Score.syncs :
        IsMerge(tn) => counter[ControlName(tn)] <= Cardinality(PastOf(tn))

PlayInv == OneCascade /\ StartsOnCue /\ HeardWhenReady /\ CountsPast


-----------------------------------------------------------------------------
(* How an interval of the score can move.                                  *)

LEMMA PhaseIs ==
    ASSUME NEW i
    PROVE  /\ Phase(i) = "waiting" <=> Interval(i) = "idle"
           /\ Phase(i) = "running" <=> Interval(i) \in {"wait", "wait_min"}
           /\ Phase(i) = "past" <=>
                 Interval(i) \in {"id7", "flexible", "semi_flexible", "id15"}
           /\ Phase(i) \in {"waiting", "running", "past", "over"}
BY DEF Phase

\* The same after a step.
LEMMA PhaseThenIs ==
    ASSUME NEW i
    PROVE  /\ Phase(i)' = "waiting" <=> Interval(i)' = "idle"
           /\ Phase(i)' = "running" <=> Interval(i)' \in {"wait", "wait_min"}
           /\ Phase(i)' = "past" <=>
                 Interval(i)' \in {"id7", "flexible", "semi_flexible", "id15"}
           /\ Phase(i)' \in {"waiting", "running", "past", "over"}
BY DEF Phase

\* What an interval says of itself.
LEMMA IntervalSpeaks ==
    ASSUME NEW i \in Score.intervals, NEW c, NEW target, NEW m,
           Speaks(Name(i), c, target), Broadcast(Name(i), c, target, m)
    PROVE  \/ /\ EndSpeaks(Name(i), c, target) /\ Interval(i) \in {"wait", "wait_min"}
              /\ Interval(i)' \in {"id7", "flexible", "semi_flexible"}
              /\ c = EndChannels(i).event_e1
           \/ /\ OverSpeaks(Name(i), c, target) /\ Interval(i) \in {"id7", "id15"}
              /\ Interval(i)' = "finished" /\ c = EndChannels(i).event_e2
           \/ /\ KillSpeaks(Name(i), c, target) /\ Interval(i) = "killed"
              /\ Interval(i)' = "finished" /\ c = <<"kill_", i>>
<1>1. Name(i) \in Intervals /\ Name(i) \in Elements
  BY IntervalNamed DEF Intervals, Rigids, Flexibles, OfKind
<1>2. Interval(i)' = target
  BY <1>1, BroadcastEffect DEF Interval
<1>3. Name(i) # Name(Score.root) /\ \A j : Name(i) = Name(j) => i = j
  BY OwnNames DEF Name
<1>4. EndSpeaks(Name(i), c, target) \/ OverSpeaks(Name(i), c, target)
         \/ KillSpeaks(Name(i), c, target)
  BY <1>1 DEF Speaks, MixSpeaks, ControlSpeaks, PointSpeaks, EventSpeaks, Intervals, Rigids,
              Flexibles, Mixs, Controls, Points, Events, EventsND, OfKind
<1>5. CASE EndSpeaks(Name(i), c, target)
  <2>1. c = EndChannels(i).event_e1
    BY <1>3, <1>5, WhoEnds
  <2> QED BY <1>2, <1>5, <2>1 DEF EndSpeaks, Interval
<1>6. CASE OverSpeaks(Name(i), c, target)
  <2>1. c = EndChannels(i).event_e2
    BY <1>3, <1>6, WhoIsOver
  <2> QED BY <1>2, <1>6, <2>1 DEF OverSpeaks, Interval
<1>7. CASE KillSpeaks(Name(i), c, target)
  <2>1. c = <<"kill_", i>>
    BY <1>3, <1>7, WhoKills
  <2> QED BY <1>2, <1>7, <2>1 DEF KillSpeaks, Interval
<1> QED BY <1>4, <1>5, <1>6, <1>7

\* An interval goes from idle to its end, or is killed on the way.
LEMMA IntervalSteps ==
    ASSUME IInv, NeverSkipped, [Next]_vars, NEW i \in Score.intervals
    PROVE  \/ Interval(i)' = Interval(i)
           \/ Interval(i) = "idle" /\ Interval(i)' \in {"wait", "wait_min", "killed"}
           \/ /\ Interval(i) \in {"wait", "wait_min"}
              /\ Interval(i)' \in {"id7", "flexible", "semi_flexible", "killed"}
           \/ /\ Interval(i) \in {"flexible", "semi_flexible"}
              /\ Interval(i)' \in {"id15", "killed"}
           \/ Interval(i) \in {"id7", "id15", "killed"} /\ Interval(i)' = "finished"
<1>0. Name(i) \in Elements /\ Name(i) \notin Controls
  BY IntervalNamed DEF Intervals, Rigids, Flexibles, Controls, OfKind
<1>1. ASSUME NEW n \in Elements, NEW c, NEW target, NEW m,
             Speaks(n, c, target), Broadcast(n, c, target, m)
      PROVE  \/ Interval(i)' = Interval(i)
             \/ Interval(i) = "idle" /\ Interval(i)' \in {"wait", "wait_min", "killed"}
             \/ /\ Interval(i) \in {"wait", "wait_min"}
                /\ Interval(i)' \in {"id7", "flexible", "semi_flexible", "killed"}
             \/ /\ Interval(i) \in {"flexible", "semi_flexible"}
                /\ Interval(i)' \in {"id15", "killed"}
             \/ Interval(i) \in {"id7", "id15", "killed"} /\ Interval(i)' = "finished"
  <2>1. CASE n = Name(i)
    BY <1>1, <2>1, IntervalSpeaks
  <2>2. CASE n # Name(i)
    BY <1>1, <2>2, IntervalHears
  <2> QED BY <2>1, <2>2
<1>2. ASSUME NEW n \in Flexibles, FlexibleReachesMax(n)
      PROVE  \/ Interval(i)' = Interval(i)
             \/ Interval(i) = "semi_flexible" /\ Interval(i)' = "id15"
  BY <1>0, <1>2 DEF FlexibleReachesMax, Interval, IInv, TypeOK
<1>3. ASSUME NEW n \in Controls, ControlWaits(n)
      PROVE  Interval(i)' = Interval(i)
  BY <1>0, <1>3 DEF ControlWaits, Interval, IInv, TypeOK
<1>4. CASE Delay \/ UNCHANGED vars
  BY <1>4 DEF Delay, vars, Interval
<1> QED BY <1>1, <1>2, <1>3, <1>4, StepIs

\* No interval goes back.
LEMMA PhaseGrows ==
    ASSUME IInv, NeverSkipped, [Next]_vars, NEW i \in Score.intervals
    PROVE  /\ Phase(i) # "waiting" => Phase(i)' # "waiting"
           /\ Phase(i) \in {"past", "over"} => Phase(i)' \in {"past", "over"}
BY IntervalSteps, PhaseIs, PhaseThenIs

LEMMA ReadyStays ==
    ASSUME IInv, NeverSkipped, [Next]_vars, NEW tn \in Score.syncs, Ready(tn)
    PROVE  Ready(tn)'
<1>1. Previous(tn) \subseteq Score.intervals
  BY DEF Previous
<1>2. Score.parent[Score.scenarioOf[tn]] \in Score.intervals \cup {Score.root}
  BY References
<1> QED BY <1>1, <1>2, PhaseGrows DEF Ready

-----------------------------------------------------------------------------
(* One cascade at a time.                                                  *)

\* Kills and the end of the root interval are only said by what ends the play,
\* and what ends the play says nothing else.
LEMMA EndingSays ==
    ASSUME NEW n, NEW c, NEW target, Speaks(n, c, target)
    PROVE  Ending(n) <=> c[1] \in {"kill", "kill_", "event_e2"}
<1>0. /\ n = Name(Score.root) => n \in Flexibles
      /\ n = <<"EndMix">> => n \in Mixs
  BY BaseNamed, PrintedKinds, IsPrinted, Named DEF Mixs, OfKind
<1>1. CASE EndSpeaks(n, c, target)
  BY <1>0, <1>1, RigidPrefixes, FlexiblePrefixes
     DEF EndSpeaks, Ending, Mixs, Rigids, Flexibles, OfKind
<1>2. CASE OverSpeaks(n, c, target)
  <2>1. n \in Intervals /\ n \notin Mixs /\ loc[n] \in {"id7", "id15"}
    BY <1>2 DEF OverSpeaks, Intervals, Mixs, Rigids, Flexibles, OfKind
  <2>2. CASE n = Name(Score.root) /\ c = <<"event_e2", Score.root>> /\ loc[n] = "id15"
    BY <2>2 DEF Ending
  <2>3. CASE \E i \in Score.intervals : n = Name(i) /\ c = EndChannels(i).event_e2
    <3>1. n # Name(Score.root)
      BY <2>3, OwnNames DEF Name
    <3>2. c[1] \in {"event_e_", "event_s2_Control_"}
      BY <2>3, EndPrefixes
    <3> QED BY <1>0, <2>1, <3>1, <3>2 DEF Ending
  <2> QED BY <1>2, <2>2, <2>3, WhoIsOver
<1>3. CASE KillSpeaks(n, c, target)
  BY <1>3, RigidPrefixes, FlexiblePrefixes DEF KillSpeaks, Ending, Intervals
<1>4. CASE MixSpeaks(n, c, target)
  <2>1. n # Name(Score.root) /\ loc[n] = "id22"
    BY <1>0, <1>4 DEF MixSpeaks, Mixs, Flexibles, OfKind
  <2>2. CASE n = <<"EndMix">> /\ c = <<"kill", Score.root>>
    BY <2>1, <2>2 DEF Ending
  <2>3. CASE \E x : n = <<"Mix", x>> /\ c[1] \in {"mix_event_e", "emax_"}
    BY <2>1, <2>3 DEF Ending
  <2> QED BY <1>4, <2>2, <2>3, WhoForwards DEF MixOut
<1>5. CASE ControlSpeaks(n, c, target)
  BY <1>0, <1>5, ControlPrefixes DEF ControlSpeaks, Ending, Controls, Mixs, Flexibles, OfKind
<1>6. CASE PointSpeaks(n, c, target)
  BY <1>0, <1>6, PointPrefixes
     DEF PointSpeaks, Ending, Points, Mixs, Flexibles, OfKind, PlayPrefixes
<1>7. CASE EventSpeaks(n, c, target)
  BY <1>0, <1>7, EventPrefixes
     DEF EventSpeaks, Ending, Events, EventsND, Mixs, Flexibles, OfKind
<1> QED BY <1>1, <1>2, <1>3, <1>4, <1>5, <1>6, <1>7 DEF Speaks

\* What hearing a channel can start: more of the end on what ends the play,
\* nothing of it on anything else but the end of MainEndEvent.
LEMMA HeardStarts ==
    ASSUME EnabledHasFlag, NEW x \in Elements, NEW c, c[1] \notin SkipPrefixes,
           After(x, c) # loc[x], After(x, c) \in CommittedLocations
    PROVE  IF c[1] \in {"kill", "kill_", "event_e2"}
           THEN \/ After(x, c) = "killed"
                \/ x = <<"EndMix">> /\ After(x, c) = "id22"
           ELSE /\ After(x, c) = "killed" => c[1] \in KillPrefixes
                /\ x = <<"EndMix">> => After(x, c) # "id22"
                /\ x = Name(Score.root) /\ After(x, c) = "id15" => c = GlobalEnd
                /\ c = GlobalEnd => x = Name(Score.root) /\ After(x, c) = "id15"
<1>1. CASE x \in Events \cup EventsND
  BY <1>1, EventAfter
<1>2. CASE x \in Rigids
  BY <1>2, RigidHears, RigidPrefixes DEF CommittedLocations, KillPrefixes, GlobalEnd
<1>3. CASE x \in Flexibles
  <2>1. x = Name(Score.root) => Decl[x].event_i = GlobalEnd
    BY BaseNamed DEF Base
  <2>2. x # <<"EndMix">>
    BY <1>3, PrintedKinds, IsPrinted, Named DEF Flexibles, OfKind
  <2>3. \/ c = Decl[x].event_i /\ After(x, c) = "id15"
        \/ c = Decl[x].kill_p /\ After(x, c) = "killed"
    BY <1>3, FlexibleHears DEF CommittedLocations
  <2>4. CASE c = Decl[x].kill_p /\ After(x, c) = "killed"
    <3>1. c[1] \in KillPrefixes
      BY <1>3, <2>4, FlexiblePrefixes
    <3> QED BY <2>2, <2>4, <3>1 DEF KillPrefixes, GlobalEnd
  <2>5. CASE c = Decl[x].event_i /\ After(x, c) = "id15"
    <3>1. CASE x = Name(Score.root)
      BY <2>1, <2>2, <2>5, <3>1 DEF GlobalEnd
    <3>2. CASE x # Name(Score.root)
      <4>1. c[1] \in {"event_e_", "event_s2_Control_"}
        BY <1>3, <2>5, <3>2, FlexiblePrefixes
      <4> QED BY <2>2, <2>5, <3>2, <4>1 DEF GlobalEnd
    <3> QED BY <3>1, <3>2
  <2> QED BY <2>3, <2>4, <2>5
<1>4. CASE x \in Mixs
  <2>1. x # Name(Score.root)
    BY <1>4, BaseNamed DEF Mixs, Flexibles, OfKind
  <2> QED BY <1>4, <2>1, MixHears, MixPrefixes
          DEF CommittedLocations, KillPrefixes, PlayPrefixes, GlobalEnd
<1>5. CASE x \in Controls
  <2>1. x # Name(Score.root) /\ x # <<"EndMix">>
    BY <1>5, BaseNamed, PrintedKinds, IsPrinted, Named DEF Controls, Flexibles, OfKind
  <2> QED BY <1>5, <2>1, ControlHears, ControlPrefixes DEF CommittedLocations, GlobalEnd
<1>6. CASE x \in Points
  <2>1. x # Name(Score.root) /\ x # <<"EndMix">>
    BY <1>6, BaseNamed, PrintedKinds, IsPrinted, Named DEF Points, Flexibles, OfKind
  <2> QED BY <1>6, <2>1, PointHears, PointPrefixes
          DEF CommittedLocations, PlayPrefixes, GlobalEnd
<1> QED BY <1>1, <1>2, <1>3, <1>4, <1>5, <1>6, KindOfElement

LEMMA OneCascadeNext ==
    ASSUME IInv, NeverSkipped, OneCascade, [Next]_vars
    PROVE  OneCascade'
<1>1. ASSUME NEW n \in Elements, NEW c, NEW target, NEW m,
             Speaks(n, c, target), Broadcast(n, c, target, m)
      PROVE  OneCascade'
  <2>1. /\ c[1] \notin SkipPrefixes /\ loc'[n] = target
        /\ target \notin CommittedLocations /\ MayAct(n) /\ EnabledHasFlag
        /\ \A x \in Elements \ {n} : loc'[x] = After(x, c)
    BY <1>1, SaidPrefixes, BroadcastEffect DEF Broadcast, CommittedLocations, IInv
  <2>2. \A x \in Elements : Ending(x) => x \in Committed
    BY DEF Ending, Committed, CommittedLocations
  <2>3. \A x \in Elements : Ending(x)' => loc'[x] \in CommittedLocations
    BY DEF Ending, CommittedLocations
  <2>4. \A x \in Elements : loc'[x] = loc[x] => (Ending(x)' <=> Ending(x))
    BY DEF Ending
  <2>5. \A x : loc'[x] = "killed" => Ending(x)'
    BY DEF Ending
  <2>6. loc'[<<"EndMix">>] = "id22" => Ending(<<"EndMix">>)'
    BY DEF Ending
  <2>7. CASE \E x \in Elements : Ending(x)
    <3>1. n \in Committed /\ Ending(n)
      BY <2>1, <2>2, <2>7 DEF OneCascade, MayAct
    <3>2. c[1] \in {"kill", "kill_", "event_e2"}
      BY <1>1, <3>1, EndingSays
    <3>3. ASSUME NEW x \in Elements, loc'[x] \in CommittedLocations PROVE Ending(x)'
      <4>1. x # n /\ loc'[x] = After(x, c)
        BY <2>1, <3>3
      <4>2. CASE loc'[x] = loc[x]
        BY <2>4, <2>7, <3>3, <4>2 DEF OneCascade, Committed
      <4>3. CASE loc'[x] # loc[x]
        BY <2>1, <2>5, <2>6, <3>2, <3>3, <4>1, <4>3, HeardStarts
      <4> QED BY <4>2, <4>3
    <3> QED BY <3>3 DEF OneCascade, Committed
  <2>8. ASSUME ~\E x \in Elements : Ending(x), NEW x \in Elements, Ending(x)'
        PROVE  OneCascade'
    <3>1. c[1] \notin {"kill", "kill_", "event_e2"}
      BY <1>1, <2>8, EndingSays
    <3>2. x # n /\ loc'[x] = After(x, c) /\ loc'[x] # loc[x]
      BY <2>1, <2>3, <2>4, <2>8
    <3>3. After(x, c) # "killed"
      <4>1. c[1] # "kill_p"
        BY <1>1, WhoSays
      <4> QED BY <2>1, <3>1, <3>2, <4>1, HeardStarts DEF KillPrefixes, CommittedLocations
    <3>4. c = GlobalEnd
      BY <2>1, <2>3, <2>8, <3>1, <3>2, <3>3, HeardStarts DEF Ending
    <3>5. Committed = {}
      <4>1. n \in Events \cup EventsND /\ loc[n] \in {"waiting", "idle"}
        BY <1>1, <3>4, WhoSays DEF GlobalEnd, EventSpeaks
      <4> QED BY <2>1, <4>1 DEF MayAct, Committed, CommittedLocations
    <3>6. ASSUME NEW y \in Elements, loc'[y] \in CommittedLocations PROVE Ending(y)'
      <4>1. y # n /\ loc'[y] = After(y, c) /\ loc'[y] # loc[y]
        BY <2>1, <3>5, <3>6 DEF Committed
      <4>2. y = Name(Score.root) /\ loc'[y] = "id15"
        BY <2>1, <3>1, <3>4, <3>6, <4>1, HeardStarts
      <4> QED BY <4>2 DEF Ending
    <3> QED BY <3>6 DEF OneCascade, Committed
  <2> QED BY <2>7, <2>8 DEF OneCascade
<1>2. ASSUME NEW n \in Flexibles, FlexibleReachesMax(n)
      PROVE  OneCascade'
  <2>1. /\ n \in Elements /\ Committed = {} /\ loc' = [loc EXCEPT ![n] = "id15"]
        /\ loc \in [Elements -> AllLocations] /\ Decl[n].finite
    BY <1>2 DEF FlexibleReachesMax, MayAct, Committed, CommittedLocations, IInv, TypeOK,
                ClocksInBounds, Flexibles, OfKind
  <2>2. n # Name(Score.root) /\ n # <<"EndMix">>
    BY <2>1, BaseNamed, PrintedKinds, IsPrinted, Named DEF Base, Flexibles, OfKind
  <2>3. ASSUME NEW x \in Elements, Ending(x)' PROVE FALSE
    <3>1. x # n
      BY <2>1, <2>2, <2>3 DEF Ending
    <3> QED BY <2>1, <2>3, <3>1 DEF Ending, Committed, CommittedLocations
  <2> QED BY <2>3 DEF OneCascade
<1>3. ASSUME NEW n \in Controls, ControlWaits(n)
      PROVE  OneCascade'
  <2>1. n \in Elements /\ loc' = [loc EXCEPT ![n] = "idle"] /\ loc \in [Elements -> AllLocations]
    BY <1>3 DEF ControlWaits, IInv, TypeOK, Controls, OfKind
  <2>2. \A x \in Elements : Ending(x)' => x # n /\ Ending(x)
    BY <2>1 DEF Ending
  <2>3. \A x \in Elements \ {n} : Ending(x) => Ending(x)'
    BY <2>1 DEF Ending
  <2>4. \A x \in Elements : loc'[x] \in CommittedLocations => x # n /\ x \in Committed
    BY <2>1 DEF Committed, CommittedLocations
  <2> QED BY <2>2, <2>3, <2>4 DEF OneCascade, Committed
<1>4. CASE Delay \/ UNCHANGED vars
  BY <1>4 DEF Delay, vars, OneCascade, Ending, Committed
<1> QED BY <1>1, <1>2, <1>3, <1>4, StepIs

\* A step that nobody hears.
LEMMA SilentStep ==
    ASSUME IInv, \/ \E n \in Flexibles : FlexibleReachesMax(n)
                 \/ \E n \in Controls : ControlWaits(n)
                 \/ Delay
                 \/ UNCHANGED vars
    PROVE  /\ \A x \in Points \cup Mixs : loc'[x] = loc[x]
           /\ \A i \in Score.intervals :
                 /\ \/ Interval(i)' = Interval(i)
                    \/ /\ Interval(i) = "semi_flexible" /\ Interval(i)' = "id15"
                       /\ ~Score.rigid[i] /\ ~Score.infinite[i]
                 /\ Phase(i)' = Phase(i)
           /\ counter' = counter /\ started' = started
<1>1. \A i \in Score.intervals : Name(i) \in Elements /\ Name(i) \notin Controls
  BY IntervalNamed DEF Intervals, Rigids, Flexibles, Controls, OfKind
<1>2. ASSUME NEW n \in Flexibles, FlexibleReachesMax(n)
      PROVE  /\ \A x \in Points \cup Mixs : loc'[x] = loc[x]
             /\ \A i \in Score.intervals :
                   \/ Interval(i)' = Interval(i)
                   \/ /\ Interval(i) = "semi_flexible" /\ Interval(i)' = "id15"
                      /\ ~Score.rigid[i] /\ ~Score.infinite[i]
             /\ counter' = counter /\ started' = started
  <2>1. /\ n \in Elements /\ n \notin Points \cup Mixs /\ n \notin Rigids
        /\ loc \in [Elements -> AllLocations] /\ loc' = [loc EXCEPT ![n] = "id15"]
        /\ loc[n] = "semi_flexible" /\ Decl[n].finite
        /\ counter' = counter /\ started' = started
    BY <1>2 DEF FlexibleReachesMax, IInv, TypeOK, ClocksInBounds, Flexibles, Rigids, Points,
                Mixs, OfKind
  <2>2. ASSUME NEW i \in Score.intervals, n = Name(i)
        PROVE  ~Score.rigid[i] /\ ~Score.infinite[i]
    <3>1. ~Score.rigid[i] /\ Decl[n] = FlexibleElement(i)
      BY <2>1, <2>2, IntervalNamed
    <3>2. FlexibleElement(i).finite = ~Score.infinite[i]
      BY DEF FlexibleElement
    <3> QED BY <2>1, <3>1, <3>2, References
  <2> QED BY <1>1, <2>1, <2>2 DEF Interval, Points, Mixs, OfKind
<1>3. ASSUME NEW n \in Controls, ControlWaits(n)
      PROVE  /\ \A x \in Points \cup Mixs : loc'[x] = loc[x]
             /\ \A i \in Score.intervals : Interval(i)' = Interval(i)
             /\ counter' = counter /\ started' = started
  BY <1>1, <1>3 DEF ControlWaits, Interval, IInv, TypeOK, Controls, Points, Mixs, OfKind
<1>4. CASE Delay \/ UNCHANGED vars
  BY <1>4, PhaseIs, PhaseThenIs DEF Delay, vars, Interval
<1>5. /\ \A x \in Points \cup Mixs : loc'[x] = loc[x]
      /\ \A i \in Score.intervals :
            \/ Interval(i)' = Interval(i)
            \/ /\ Interval(i) = "semi_flexible" /\ Interval(i)' = "id15"
               /\ ~Score.rigid[i] /\ ~Score.infinite[i]
      /\ counter' = counter /\ started' = started
  BY <1>2, <1>3, <1>4
<1>6. ASSUME NEW i \in Score.intervals PROVE Phase(i)' = Phase(i)
  <2>1. CASE Interval(i)' = Interval(i)
    BY <2>1 DEF Phase
  <2>2. CASE Interval(i) = "semi_flexible" /\ Interval(i)' = "id15"
    BY <2>2, PhaseIs, PhaseThenIs
  <2> QED BY <1>5, <2>1, <2>2
<1> QED BY <1>5, <1>6

-----------------------------------------------------------------------------
(* Intervals start on their cue.                                           *)

\* The ok_ of an event is said by its point or, once more, by the start sync of
\* a scenario that an interval of the event holds, if that sync has a trigger.
LEMMA OkSaid ==
    ASSUME OpeningsReady, NEW ev \in Score.events, NEW n, NEW c, NEW target,
           Speaks(n, c, target), c = <<"ok_", ev>>
    PROVE  \/ n = Name(ev) /\ loc[n] \in {"cond_true", "timeout"}
           \/ \E i \in Score.intervals :
                 /\ Score.startEvent[i] = ev /\ Interval(i) # "idle"
                 /\ \E tn \in Score.syncs :
                       /\ n = Name(tn) /\ loc[n] = "id28"
                       /\ Score.active[tn] /\ Previous(tn) = {} /\ Holds(tn) # Score.root
<1>1. PointSpeaks(n, c, target)
  BY WhoSays
<1>2. ASSUME NEW tn \in Score.syncs PROVE c # <<"ok_", tn>>
  BY OwnNames
<1>3. ASSUME NEW tn \in Score.syncs, n = Name(tn), loc[n] = "id28", c = SyncPoint(tn).event_e
      PROVE  \E i \in Score.intervals :
                /\ Score.startEvent[i] = ev /\ Interval(i) # "idle"
                /\ \E x \in Score.syncs :
                      /\ n = Name(x) /\ loc[n] = "id28"
                      /\ Score.active[x] /\ Previous(x) = {} /\ Holds(x) # Score.root
  <2>1. Score.active[tn] /\ c = SyncChannels(tn).event_e
    BY <1>3, SyncTells DEF MixOut
  <2>2. Previous(tn) = {}
    BY <2>1, SyncTells
  <2>3. ~IsMerge(tn)
    BY <2>1, SyncTells
  <2>4. Holds(tn) # Score.root /\ c = <<"ok_", Score.startEvent[Holds(tn)]>>
    BY <2>1, <2>2, <2>3, SyncTells DEF GlobalStart
  <2>5. Holds(tn) \in Score.intervals /\ Score.startEvent[Holds(tn)] = ev
    BY <2>4, References DEF Holds
  <2>6. Interval(Holds(tn)) # "idle"
    BY <1>3, <2>1, <2>2, <2>4 DEF OpeningsReady, Holds
  <2> QED BY <1>3, <2>1, <2>2, <2>4, <2>5, <2>6
<1>4. ASSUME NEW x \in Score.events, c = <<"ok_", x>> PROVE x = ev
  BY <1>4
<1>5. ASSUME NEW x \in Score.events PROVE c # <<"emax_", x>>
  OBVIOUS
<1> QED BY <1>1, <1>2, <1>3, <1>4, <1>5, WhoTriggers

LEMMA ReadyOpenings == HeardWhenReady => OpeningsReady
BY PhaseIs DEF HeardWhenReady, Ready, OpeningsReady

LEMMA StartsOnCueNext ==
    ASSUME IInv, NeverSkipped, OneCascade, StartsOnCue, OpeningsReady, [Next]_vars
    PROVE  StartsOnCue'
<1> DEFINE Before == {"idle", "enabled", "cond_true", "timeout"}
<1>1. ASSUME NEW n \in Elements, NEW c, NEW target, NEW m,
             Speaks(n, c, target), Broadcast(n, c, target, m),
             NEW i \in Score.intervals, loc'[Name(Score.startEvent[i])] \in Before
      PROVE  Interval(i)' = "idle"
  <2> DEFINE ev == Score.startEvent[i]
  <2>1. /\ ev \in Score.events /\ Name(ev) \in Points /\ Name(ev) \in Elements
        /\ Name(i) \in Intervals
    BY References, EventNamed, IntervalNamed DEF Points, OfKind
  <2>2. n # Name(ev)
    <3>1. ASSUME n \in Points PROVE target \in {"id28", "finished"}
      BY <1>1, SaidPrefixes, <3>1 DEF Speaks, PointSpeaks, EndSpeaks, Points, Rigids, Flexibles,
         OverSpeaks, KillSpeaks, MixSpeaks, ControlSpeaks, EventSpeaks, Intervals, OfKind
    <3>2. loc'[n] = target
      BY <1>1, BroadcastEffect
    <3> QED BY <1>1, <2>1, <3>1, <3>2
  <2>3. /\ loc[Name(ev)] \in Before
        /\ loc[Name(ev)] \in {"idle", "enabled"} => c # SelfOfSync(Score.syncOf[ev]).kill
    BY <1>1, <2>1, <2>2, EventHears
  <2>4. Interval(i) = "idle"
    BY <2>3 DEF StartsOnCue
  <2>5. n # Name(i)
    BY <1>1, <2>4, IntervalSpeaks
  <2>6. c # <<"ok_", ev>>
    <3>1. ASSUME NEW j \in Score.intervals, Score.startEvent[j] = ev PROVE Interval(j) = "idle"
      BY <2>4, <3>1 DEF StartsOnCue
    <3> QED BY <1>1, <2>1, <2>2, <3>1, OkSaid
  <2>7. c # KillOf(i)
    <3>1. KillOf(i) = SelfOfSync(Score.syncOf[ev]).kill
      BY DEF KillOf, SelfOfSync, ScenarioOfInterval, StartSync
    <3>2. KillOf(i)[1] \in {"kill", "kill_"}
      BY SelfPrefixes DEF KillOf
    <3>3. ASSUME c = KillOf(i) PROVE FALSE
      <4>1. Ending(n)
        BY <1>1, <3>2, <3>3, EndingSays
      <4>2. loc[Name(ev)] \in {"cond_true", "timeout"}
        BY <2>3, <3>1, <3>3
      <4>3. Name(ev) \in Committed
        BY <2>1, <4>2 DEF Committed, CommittedLocations
      <4>4. Ending(Name(ev))
        BY <4>1, <4>3 DEF OneCascade
      <4> QED BY <4>2, <4>4 DEF Ending
    <3> QED BY <3>3
  <2> QED BY <1>1, <2>4, <2>5, <2>6, <2>7, IntervalHears
<1>2. ASSUME NEW n \in Elements, NEW c, NEW target, NEW m,
             Speaks(n, c, target), Broadcast(n, c, target, m),
             NEW i \in Score.intervals, NEW j \in Score.intervals,
             Score.startEvent[i] = Score.startEvent[j], Interval(i)' = "idle"
      PROVE  Interval(j)' = "idle"
  <2>1. Interval(i) = "idle"
    BY <1>2, IntervalSteps
  <2>2. Interval(j) = "idle"
    BY <1>2, <2>1 DEF StartsOnCue
  <2>3. n # Name(i) /\ n # Name(j)
    BY <1>2, <2>1, <2>2, IntervalSpeaks
  <2>4. KillOf(i) = KillOf(j)
    BY <1>2 DEF KillOf, ScenarioOfInterval, StartSync
  <2>5. c # <<"ok_", Score.startEvent[i]>> /\ c # KillOf(i)
    BY <1>2, <2>1, <2>3, IntervalHears
  <2> QED BY <1>2, <2>2, <2>3, <2>4, <2>5, IntervalHears
<1>3. ASSUME \/ \E n \in Flexibles : FlexibleReachesMax(n)
             \/ \E n \in Controls : ControlWaits(n)
             \/ Delay
             \/ UNCHANGED vars
      PROVE  StartsOnCue'
  <2>1. \A i \in Score.intervals :
           /\ Interval(i)' = "idle" <=> Interval(i) = "idle"
           /\ Name(Score.startEvent[i]) \in Points
    BY <1>3, SilentStep, References, EventNamed
  <2> QED BY <1>3, <2>1, SilentStep DEF StartsOnCue
<1>4. ASSUME NEW n \in Elements, NEW c, NEW target, NEW m,
             Speaks(n, c, target), Broadcast(n, c, target, m)
      PROVE  StartsOnCue'
  BY <1>1, <1>2, <1>4 DEF StartsOnCue
<1> QED BY <1>3, <1>4, StepIs

-----------------------------------------------------------------------------
(* A sync is told that it is reached only when it is.                      *)

\* Two syncs that tell on one channel are one sync, or both open a scenario.
LEMMA TellAlike ==
    ASSUME NEW tn \in Score.syncs, NEW x \in Score.syncs,
           SyncChannels(tn).event_e = SyncChannels(x).event_e
    PROVE  \/ tn = x
           \/ /\ Previous(tn) = {} /\ Previous(x) = {}
              /\ \/ Holds(tn) = Score.root
                 \/ /\ Holds(tn) # Score.root /\ Holds(x) # Score.root
                    /\ Score.startEvent[Holds(tn)] = Score.startEvent[Holds(x)]
<1> DEFINE Own(y) == SyncChannels(y).event_e \in {<<"event_s2_Control_", y>>, <<"event_e_", y>>}
<1>1. \A y \in Score.syncs :
         \/ Own(y)
         \/ /\ Previous(y) = {}
            /\ \/ Holds(y) = Score.root /\ SyncChannels(y).event_e = GlobalStart
               \/ /\ Holds(y) # Score.root
                  /\ SyncChannels(y).event_e = <<"ok_", Score.startEvent[Holds(y)]>>
  BY SyncTells
<1>2. ASSUME Own(tn) \/ Own(x) PROVE tn = x
  BY <1>1, <1>2 DEF GlobalStart
<1>3. ASSUME ~Own(tn), ~Own(x)
      PROVE  /\ Previous(tn) = {} /\ Previous(x) = {}
             /\ \/ Holds(tn) = Score.root
                \/ /\ Holds(tn) # Score.root /\ Holds(x) # Score.root
                   /\ Score.startEvent[Holds(tn)] = Score.startEvent[Holds(x)]
  BY <1>1, <1>3 DEF GlobalStart
<1> QED BY <1>2, <1>3

LEMMA ReadyAlike ==
    ASSUME StartsOnCue, NEW tn \in Score.syncs, NEW x \in Score.syncs, Ready(x),
           SyncChannels(tn).event_e = SyncChannels(x).event_e
    PROVE  Ready(tn)
<1>1. CASE tn = x
  BY <1>1
<1>2. CASE Previous(tn) = {} /\ Holds(tn) = Score.root
  BY <1>2 DEF Ready, Holds
<1>3. CASE /\ Previous(tn) = {} /\ Previous(x) = {}
           /\ Holds(tn) # Score.root /\ Holds(x) # Score.root
           /\ Score.startEvent[Holds(tn)] = Score.startEvent[Holds(x)]
  <2>1. Holds(tn) \in Score.intervals /\ Holds(x) \in Score.intervals
    BY <1>3, References DEF Holds
  <2>2. Interval(Holds(x)) # "idle"
    BY <1>3, PhaseIs DEF Ready, Holds
  <2>3. Interval(Holds(tn)) # "idle"
    BY <1>3, <2>1, <2>2 DEF StartsOnCue
  <2> QED BY <1>3, <2>3, PhaseIs DEF Ready, Holds
<1> QED BY <1>1, <1>2, <1>3, TellAlike

\* The interval that reaches a sync that is no merge is the only one.
LEMMA ReadyAlone ==
    ASSUME NEW i \in Score.intervals, ~IsMerge(EndSync(i))
    PROVE  /\ Phase(i) \in {"past", "over"} => Ready(EndSync(i))
           /\ Phase(i)' \in {"past", "over"} => Ready(EndSync(i))'
<1>1. \A j \in Previous(EndSync(i)) : j = i
  BY AloneUnlessMerge, References
<1>2. Previous(EndSync(i)) # {}
  BY References
<1> QED BY <1>1, <1>2 DEF Ready

\* A merge whose Control has counted all its intervals is ready.
LEMMA ReadyCounted ==
    ASSUME CountsPast, NEW tn \in Score.syncs, IsMerge(tn),
           counter[ControlName(tn)] = Cardinality(Previous(tn))
    PROVE  Ready(tn)
<1>1. IsFiniteSet(Previous(tn)) /\ PastOf(tn) \subseteq Previous(tn)
  BY ScoreIsDocument, FS_Subset DEF ScoreAssumption, Previous, PastOf
<1>2. /\ Cardinality(PastOf(tn)) \in Nat /\ Cardinality(Previous(tn)) \in Nat
      /\ Cardinality(PastOf(tn)) <= Cardinality(Previous(tn))
      /\ Cardinality(Previous(tn)) = Cardinality(PastOf(tn)) => Previous(tn) = PastOf(tn)
  BY <1>1, FS_Subset, FS_CardinalityType
<1>3. Cardinality(Previous(tn)) <= Cardinality(PastOf(tn))
  BY DEF CountsPast
<1>4. Previous(tn) = PastOf(tn)
  BY <1>2, <1>3
<1>5. Previous(tn) # {}
  BY FS_EmptySet DEF IsMerge
<1> QED BY <1>4, <1>5 DEF Ready, PastOf

\* A sync that opens a scenario is told with the interval that holds it.
LEMMA ReadyOpening ==
    ASSUME IInv, NeverSkipped, PlayInv, [Next]_vars,
           NEW n \in Elements, NEW c, NEW target, NEW m,
           Speaks(n, c, target), Broadcast(n, c, target, m),
           NEW tn \in Score.syncs, Previous(tn) = {}, ~IsMerge(tn),
           c = SyncChannels(tn).event_e
    PROVE  Ready(tn)'
<1>1. CASE Holds(tn) = Score.root
  BY <1>1 DEF Ready, Holds
<1>2. CASE Holds(tn) # Score.root
  <2> DEFINE h == Holds(tn)
             ev == Score.startEvent[h]
  <2>1. h \in Score.intervals /\ ev \in Score.events /\ c = <<"ok_", ev>>
    BY <1>2, References, SyncTells DEF Holds
  <2>2. Phase(h)' # "waiting"
    <3>1. CASE Interval(h) = "idle"
      <4>1. Name(h) # n
        BY <2>1, <3>1, IntervalSpeaks
      <4>2. Interval(h)' # "idle"
        BY <2>1, <3>1, <4>1, IntervalHears
      <4> QED BY <4>2, PhaseThenIs
    <3>2. CASE Interval(h) # "idle"
      BY <2>1, <3>2, PhaseIs, PhaseGrows
    <3> QED BY <3>1, <3>2
  <2> QED BY <1>2, <2>2 DEF Ready, Holds
<1> QED BY <1>1, <1>2

LEMMA Heralds ==
    ASSUME TriggersUnforced, IInv, NeverSkipped, PlayInv, [Next]_vars,
           NEW n \in Elements, NEW c, NEW target, NEW m,
           Speaks(n, c, target), Broadcast(n, c, target, m),
           NEW tn \in Score.syncs,
           c = SyncChannels(tn).event_s \/ c = SyncPoint(tn).event_e
    PROVE  Ready(tn)'
<1>0. OneCascade /\ StartsOnCue /\ HeardWhenReady /\ CountsPast
  BY DEF PlayInv
<1>1. ASSUME NEW x \in Score.syncs, n = Name(x), loc[n] = "id28", c = SyncPoint(x).event_e,
             c = SyncPoint(tn).event_e
      PROVE  Ready(tn)
  <2>1. Ready(x)
    BY <1>0, <1>1 DEF HeardWhenReady
  <2>2. SyncChannels(tn).event_e = SyncChannels(x).event_e
    <3>1. \A y \in Score.syncs :
             \/ SyncPoint(y).event_e = MixOut(y)
             \/ /\ SyncPoint(y).event_e = SyncChannels(y).event_e
                /\ SyncPoint(y).event_e[1] # "mix_event_e"
      BY SyncTells, SyncPrefixes, References
    <3>2. MixOut(tn) = MixOut(x) => SyncChannels(tn).event_e = SyncChannels(x).event_e
      BY DEF MixOut
    <3>3. MixOut(tn)[1] = "mix_event_e" /\ MixOut(x)[1] = "mix_event_e"
      BY DEF MixOut
    <3> QED BY <1>1, <3>1, <3>2, <3>3
  <2> QED BY <1>0, <2>1, <2>2, ReadyAlike
<1>2. CASE c = SyncPoint(tn).event_e /\ ~Score.active[tn]
  <2>1. c = MixOut(tn) /\ c[1] = "mix_event_e"
    BY <1>2, SyncTells DEF MixOut
  <2>2. CASE MixSpeaks(n, c, target)
    <3>1. PICK x \in Score.syncs : ~Score.active[x] /\ n = <<"Mix", x>> /\ c = MixOut(x)
      BY <2>1, <2>2, WhoForwards
    <3>2. Ready(x)
      BY <1>0, <2>2, <3>1 DEF HeardWhenReady, MixSpeaks
    <3>3. SyncChannels(tn).event_e = SyncChannels(x).event_e
      BY <2>1, <3>1 DEF MixOut
    <3>4. Ready(tn)
      BY <1>0, <3>2, <3>3, ReadyAlike
    <3> QED BY <3>4, ReadyStays
  <2>3. CASE PointSpeaks(n, c, target)
    <3>1. Ready(tn)
      BY <1>1, <1>2, <2>1, <2>3, WhoTriggers
    <3> QED BY <3>1, ReadyStays
  <2> QED BY <2>1, <2>2, <2>3, WhoSays
<1>3. CASE c = SyncChannels(tn).event_s /\ IsMerge(tn)
  <2>1. c = <<"event_e_Control_", tn>>
    BY <1>3, SyncTells
  <2>2. ControlSpeaks(n, c, target)
    BY <2>1, WhoSays
  <2>3. n = ControlName(tn) /\ counter[n] = Cardinality(Previous(tn))
    BY <2>1, <2>2, WhoReleases
  <2>4. Ready(tn)
    BY <1>0, <1>3, <2>3, ReadyCounted
  <2> QED BY <2>4, ReadyStays
<1>4. CASE c = SyncChannels(tn).event_s /\ ~IsMerge(tn) /\ Previous(tn) # {}
  <2>1. c = <<"event_s_", tn>>
    BY <1>4, SyncTells
  <2>2. EndSpeaks(n, c, target)
    BY <2>1, WhoSays
  <2>3. PICK i \in Score.intervals : n = Name(i) /\ c = EndChannels(i).event_e1
    BY <2>1, <2>2, WhoEnds
  <2>4. EndSync(i) = tn
    BY <2>1, <2>3, IntervalTells
  <2>5. Interval(i)' \in {"id7", "flexible", "semi_flexible"}
    <3>1. loc'[n] = target
      BY BroadcastEffect
    <3> QED BY <2>2, <2>3, <3>1 DEF EndSpeaks, Interval
  <2> QED BY <1>4, <2>4, <2>5, PhaseThenIs, ReadyAlone
<1>5. CASE c = SyncChannels(tn).event_s /\ ~IsMerge(tn) /\ Previous(tn) = {}
  BY <1>5, SyncTells, ReadyOpening
<1>6. CASE c = SyncPoint(tn).event_e /\ Score.active[tn] /\ ~IsMerge(tn) /\ Previous(tn) = {}
  BY <1>6, SyncTells, ReadyOpening
<1>7. CASE /\ c = SyncPoint(tn).event_e /\ Score.active[tn]
           /\ IsMerge(tn) \/ Previous(tn) # {}
  <2>1. /\ c = SyncChannels(tn).event_e
        /\ c = IF IsMerge(tn) THEN <<"event_s2_Control_", tn>> ELSE <<"event_e_", tn>>
    BY <1>7, SyncTells
  <2>2. CASE OverSpeaks(n, c, target)
    <3>1. PICK i \in Score.intervals :
             /\ n = Name(i) /\ c = EndChannels(i).event_e2
             /\ Interval(i) = IF Score.rigid[i] THEN "id7" ELSE "id15"
      BY <2>1, <2>2, WhoIsOver
    <3>2. EndSync(i) = tn
      BY <2>1, <3>1, IntervalTells
    <3>3. CASE IsMerge(tn)
      <4>1. ~Score.rigid[i]
        BY <1>7, <3>2, <3>3 DEF TriggersUnforced
      <4>2. Ready(tn)
        BY <1>0, <1>7, <3>1, <3>2, <3>3, <4>1 DEF HeardWhenReady
      <4> QED BY <4>2, ReadyStays
    <3>4. CASE ~IsMerge(tn)
      <4>1. Phase(i) \in {"past", "over"}
        BY <3>1, PhaseIs
      <4>2. Ready(tn)
        BY <3>2, <3>4, <4>1, ReadyAlone
      <4> QED BY <4>2, ReadyStays
    <3> QED BY <3>3, <3>4
  <2>3. CASE PointSpeaks(n, c, target)
    <3>1. Ready(tn)
      BY <1>1, <1>7, <2>1, <2>3, WhoTriggers
    <3> QED BY <3>1, ReadyStays
  <2> QED BY <2>1, <2>2, <2>3, WhoSays
<1> QED BY <1>2, <1>3, <1>4, <1>5, <1>6, <1>7

LEMMA HeardWhenReadyNext ==
    ASSUME TriggersUnforced, IInv, NeverSkipped, PlayInv, [Next]_vars
    PROVE  HeardWhenReady'
<1>0. HeardWhenReady
  BY DEF PlayInv
<1>1. ASSUME NEW n \in Elements, NEW c, NEW target, NEW m,
             Speaks(n, c, target), Broadcast(n, c, target, m)
      PROVE  HeardWhenReady'
  <2>0. /\ loc'[n] = target /\ c[1] \notin SkipPrefixes
        /\ target \notin {"enabled", "cond_true", "timeout", "id22", "id15"}
        /\ \A x \in Elements \ {n} : loc'[x] = After(x, c)
    BY <1>1, SaidPrefixes, BroadcastEffect
  <2>1. ASSUME NEW tn \in Score.syncs,
               loc'[Name(tn)] \in {"enabled", "cond_true", "timeout", "id28"}
        PROVE  Ready(tn)'
    <3>1. CASE n = Name(tn)
      <4>1. n \in Points /\ target = "id28"
        BY <2>0, <2>1, <3>1, SyncNamed
      <4>2. loc[n] = "cond_true"
        BY <1>1, <4>1 DEF Speaks, EndSpeaks, OverSpeaks, KillSpeaks, MixSpeaks, ControlSpeaks,
                          PointSpeaks, EventSpeaks
      <4> QED BY <1>0, <3>1, <4>2, ReadyStays DEF HeardWhenReady
    <3>2. CASE n # Name(tn)
      <4>1. CASE loc[Name(tn)] \in {"enabled", "cond_true", "timeout", "id28"}
        BY <1>0, <4>1, ReadyStays DEF HeardWhenReady
      <4>2. CASE loc[Name(tn)] \notin {"enabled", "cond_true", "timeout", "id28"}
        <5>1. c = SyncChannels(tn).event_s
          BY <1>1, <2>1, <3>2, <4>2, SyncHears
        <5> QED BY <1>1, <5>1, Heralds
      <4> QED BY <4>1, <4>2
    <3> QED BY <3>1, <3>2
  <2>2. ASSUME NEW tn \in Score.syncs, ~Score.active[tn], loc'[<<"Mix", tn>>] = "id22"
        PROVE  Ready(tn)'
    <3>1. /\ <<"Mix", tn>> \in Mixs /\ <<"Mix", tn>> \in Elements
          /\ Decl[<<"Mix", tn>>].event_in = SyncChannels(tn).event_s
      <4>1. <<"Mix", tn>> \in Mixs /\ Decl[<<"Mix", tn>>] = SyncMix(tn)
        BY <2>2, SyncNamed
      <4> QED BY <4>1 DEF SyncMix, Mixs, OfKind
    <3>2. <<"Mix", tn>> # n
      BY <2>0, <2>2
    <3>3. CASE loc[<<"Mix", tn>>] = "id22"
      BY <1>0, <2>2, <3>3, ReadyStays DEF HeardWhenReady
    <3>4. CASE loc[<<"Mix", tn>>] # "id22"
      <4>1. c = SyncChannels(tn).event_s
        BY <2>0, <2>2, <3>1, <3>2, <3>4, MixHears
      <4> QED BY <1>1, <4>1, Heralds
    <3> QED BY <3>3, <3>4
  <2>3. ASSUME NEW ev \in Score.events,
               loc'[Name(ev)] \in {"enabled", "cond_true", "timeout"}
        PROVE  Ready(Score.syncOf[ev])'
    <3>0. Score.syncOf[ev] \in Score.syncs /\ n # Name(ev)
      BY <2>0, <2>3, References
    <3>1. CASE loc[Name(ev)] \in {"enabled", "cond_true", "timeout"}
      BY <1>0, <3>0, <3>1, ReadyStays DEF HeardWhenReady
    <3>2. CASE loc[Name(ev)] \notin {"enabled", "cond_true", "timeout"}
      <4>1. c = SyncPoint(Score.syncOf[ev]).event_e
        BY <1>1, <2>3, <3>0, <3>2, EventHears
      <4> QED BY <1>1, <3>0, <4>1, Heralds
    <3> QED BY <3>1, <3>2
  <2>4. ASSUME NEW i \in Score.intervals, IsMerge(EndSync(i)), Score.active[EndSync(i)],
               Interval(i)' = "id15"
        PROVE  Ready(EndSync(i))'
    <3>0. EndSync(i) \in Score.syncs /\ n # Name(i)
      BY <2>0, <2>4, References DEF Interval
    <3>1. CASE Interval(i) = "id15"
      BY <1>0, <2>4, <3>0, <3>1, ReadyStays DEF HeardWhenReady
    <3>2. CASE Interval(i) # "id15"
      <4>1. c = EndChannels(i).event_e2
        BY <1>1, <2>4, <3>0, <3>2, IntervalHears
      <4>2. c = SyncPoint(EndSync(i)).event_e
        BY <2>4, <3>0, <4>1, IntervalTells, SyncTells
      <4> QED BY <1>1, <3>0, <4>2, Heralds
    <3> QED BY <3>1, <3>2
  <2> QED BY <2>1, <2>2, <2>3, <2>4 DEF HeardWhenReady
<1>2. ASSUME \/ \E n \in Flexibles : FlexibleReachesMax(n)
             \/ \E n \in Controls : ControlWaits(n)
             \/ Delay
             \/ UNCHANGED vars
      PROVE  HeardWhenReady'
  <2>1. /\ \A tn \in Score.syncs :
              /\ loc'[Name(tn)] = loc[Name(tn)]
              /\ ~Score.active[tn] => loc'[<<"Mix", tn>>] = loc[<<"Mix", tn>>]
        /\ \A ev \in Score.events : loc'[Name(ev)] = loc[Name(ev)]
    BY <1>2, SilentStep, SyncNamed, EventNamed
  <2>2. ASSUME NEW i \in Score.intervals, IsMerge(EndSync(i)), Score.active[EndSync(i)],
               Interval(i)' = "id15"
        PROVE  Interval(i) = "id15"
    BY <1>2, <2>2, SilentStep DEF TriggersUnforced
  <2> QED BY <1>0, <2>1, <2>2, ReadyStays, References DEF HeardWhenReady
<1> QED BY <1>1, <1>2, StepIs

-----------------------------------------------------------------------------
(* A Control counts intervals that have ended.                             *)

LEMMA CountsPastNext ==
    ASSUME IInv, NeverSkipped, CountsPast, [Next]_vars
    PROVE  CountsPast'
<1> SUFFICES ASSUME NEW tn \in Score.syncs, IsMerge(tn)
             PROVE  counter'[ControlName(tn)] <= Cardinality(PastOf(tn)')
  BY DEF CountsPast
<1> DEFINE x == ControlName(tn)
<1>1. /\ Previous(tn) \subseteq Score.intervals /\ IsFiniteSet(Previous(tn))
      /\ PastOf(tn)' \subseteq Previous(tn)
  BY ScoreIsDocument, FS_Subset DEF ScoreAssumption, Previous, PastOf
<1>2. PastOf(tn) \subseteq PastOf(tn)'
  BY <1>1, PhaseGrows DEF PastOf
<1>3. IsFiniteSet(PastOf(tn)') /\ IsFiniteSet(PastOf(tn))
  BY <1>1, <1>2, FS_Subset
<1>4. /\ Cardinality(PastOf(tn)) \in Nat /\ Cardinality(PastOf(tn)') \in Nat
      /\ Cardinality(PastOf(tn)) <= Cardinality(PastOf(tn)')
  BY <1>2, <1>3, FS_Subset, FS_CardinalityType
<1>5. /\ x \in Controls /\ Decl[x] = SyncControl(tn) /\ counter[x] \in Nat
      /\ counter[x] <= Cardinality(PastOf(tn))
  BY SyncNamed DEF IInv, TypeOK, CountsPast
<1>6. ASSUME NEW n \in Elements, NEW c, NEW target, NEW m,
             Speaks(n, c, target), Broadcast(n, c, target, m)
      PROVE  counter'[x] <= Cardinality(PastOf(tn)')
  <2>1. CASE counter'[x] = counter[x]
    BY <1>4, <1>5, <2>1
  <2>2. CASE /\ x # n /\ loc[x] = "idle" /\ loc'[x] = "id26"
             /\ counter'[x] = counter[x] + 1
    <3>1. c = <<"event_s1_Control_", tn>>
      BY <1>6, <2>2, MergeHears
    <3>2. EndSpeaks(n, c, target)
      BY <1>6, <3>1, WhoSays
    <3>3. PICK i \in Score.intervals : n = Name(i) /\ c = EndChannels(i).event_e1
      BY <3>1, <3>2, WhoEnds
    <3>4. i \in Previous(tn)
      BY <3>1, <3>3, IntervalTells, References
    <3>5. i \notin PastOf(tn)
      BY <3>2, <3>3, PhaseIs DEF EndSpeaks, PastOf, Interval
    <3>6. i \in PastOf(tn)'
      <4>1. loc'[n] = target
        BY <1>6, BroadcastEffect
      <4>2. Interval(i)' \in {"id7", "flexible", "semi_flexible"}
        BY <3>2, <3>3, <4>1 DEF EndSpeaks, Interval
      <4> QED BY <3>4, <4>2, PhaseThenIs DEF PastOf
    <3>7. Cardinality(PastOf(tn) \cup {i}) = Cardinality(PastOf(tn)) + 1
      BY <1>3, <3>5, FS_AddElement
    <3>8. Cardinality(PastOf(tn) \cup {i}) <= Cardinality(PastOf(tn)')
      BY <1>2, <1>3, <3>6, FS_Subset
    <3> QED BY <1>4, <1>5, <2>2, <3>7, <3>8
  <2> QED BY <1>5, <1>6, <2>1, <2>2, BroadcastEffect
<1>7. ASSUME \/ \E n \in Flexibles : FlexibleReachesMax(n)
             \/ \E n \in Controls : ControlWaits(n)
             \/ Delay
             \/ UNCHANGED vars
      PROVE  counter'[x] <= Cardinality(PastOf(tn)')
  BY <1>4, <1>5, <1>7, SilentStep
<1> QED BY <1>6, <1>7, StepIs

LEMMA PlayInvInit ==
    ASSUME Init
    PROVE  PlayInv
<1>1. \A n \in Elements : loc[n] \in {"idle", "waiting"}
  BY DEF Init
<1>2. OneCascade
  <2>1. \A n \in Elements : ~Ending(n)
    BY <1>1 DEF Ending
  <2> QED BY <2>1 DEF OneCascade
<1>3. \A i \in Score.intervals : Interval(i) = "idle"
  BY IntervalNamed DEF Init, Interval, Intervals, Rigids, Flexibles, Events, OfKind
<1>4. StartsOnCue
  BY <1>3 DEF StartsOnCue
<1>5. HeardWhenReady
  <2>1. /\ \A tn \in Score.syncs :
              /\ Name(tn) \in Elements
              /\ ~Score.active[tn] => <<"Mix", tn>> \in Elements
        /\ \A ev \in Score.events : Name(ev) \in Elements
    BY SyncNamed, EventNamed DEF Points, Mixs, OfKind
  <2> QED BY <1>1, <1>3, <2>1 DEF HeardWhenReady
<1>6. CountsPast
  <2> SUFFICES ASSUME NEW tn \in Score.syncs, IsMerge(tn)
               PROVE  counter[ControlName(tn)] <= Cardinality(PastOf(tn))
    BY DEF CountsPast
  <2>1. counter[ControlName(tn)] = 0
    BY SyncNamed DEF Init
  <2>2. IsFiniteSet(PastOf(tn))
    BY ScoreIsDocument, FS_Subset DEF ScoreAssumption, Previous, PastOf
  <2> QED BY <2>1, <2>2, FS_CardinalityType
<1> QED BY <1>2, <1>4, <1>5, <1>6 DEF PlayInv

LEMMA PlayInvNext ==
    ASSUME TriggersUnforced, IInv, NeverSkipped, PlayInv, [Next]_vars
    PROVE  PlayInv'
<1>1. OneCascade' /\ StartsOnCue' /\ HeardWhenReady' /\ CountsPast'
  BY OneCascadeNext, StartsOnCueNext, ReadyOpenings, HeardWhenReadyNext, CountsPastNext DEF PlayInv
<1> QED BY <1>1 DEF PlayInv

\* What the theorems below rest on, in every reachable state.
LEMMA PlayInvariance ==
    ASSUME TriggersUnforced
    PROVE  Spec => [](IInv /\ NeverSkipped /\ PlayInv)
<1>1. Init => IInv /\ NeverSkipped /\ PlayInv
  BY InitInv, NeverSkippedInit, PlayInvInit
<1>2. IInv /\ NeverSkipped /\ PlayInv /\ [Next]_vars => (IInv /\ NeverSkipped /\ PlayInv)'
  BY NextInv, NeverSkippedNext, PlayInvNext
<1> QED BY <1>1, <1>2, PTL DEF Spec

-----------------------------------------------------------------------------
(* The network plays the score: each step is a step of ScorePlay, or none. *)

LEMMA StartedAfter ==
    ASSUME NEW n \in Elements, NEW c, NEW target, NEW m, Broadcast(n, c, target, m),
           NEW i \in Intervals
    PROVE  started'[i] = IF loc[i] = "idle" /\ loc'[i] \in {"wait", "wait_min"}
                         THEN now ELSE started[i]
<1>1. i \in Elements
  BY DEF Intervals, Rigids, Flexibles, OfKind
<1> QED BY <1>1 DEF Broadcast, Counts, SkipV, Flags

\* An interval that is neither cued nor killed keeps its phase while others speak.
LEMMA OthersKept ==
    ASSUME IInv, NEW n \in Elements, NEW c, NEW target, NEW m,
           Speaks(n, c, target), Broadcast(n, c, target, m),
           NEW i \in Score.intervals, n # Name(i), c # KillOf(i),
           Interval(i) = "idle" => c # <<"ok_", Score.startEvent[i]>>
    PROVE  Phase(i)' = Phase(i) /\ started'[Name(i)] = started[Name(i)]
<1>1. \/ Interval(i)' = Interval(i)
      \/ Interval(i) \in {"flexible", "semi_flexible"} /\ Interval(i)' = "id15"
  BY IntervalHears
<1>2. Phase(i)' = Phase(i)
  <2>1. CASE Interval(i)' = Interval(i)
    BY <2>1 DEF Phase
  <2>2. CASE Interval(i) \in {"flexible", "semi_flexible"} /\ Interval(i)' = "id15"
    BY <2>2, PhaseIs, PhaseThenIs
  <2> QED BY <1>1, <2>1, <2>2
<1>3. started'[Name(i)] = started[Name(i)]
  BY <1>1, IntervalNamed, StartedAfter DEF Interval
<1> QED BY <1>2, <1>3

LEMMA PlayStutters ==
    ASSUME \A i \in Score.intervals :
              Phase(i)' = Phase(i) /\ started'[Name(i)] = started[Name(i)],
           now' = now
    PROVE  UNCHANGED Play!playVars
BY DEF Play!playVars

\* The channel on which s stops what it holds.
Kills(s) == IF s = Score.root THEN <<"kill", Score.root>> ELSE <<"kill_", s>>

LEMMA KillOfIs ==
    ASSUME NEW i \in Score.intervals, NEW s
    PROVE  KillOf(i) = Kills(s) <=> HolderOf(i) = s
BY DEF KillOf, HolderOf, Self, Kills

LEMMA KillStops ==
    ASSUME IInv, NEW n \in Elements, NEW c, NEW target, NEW m,
           Speaks(n, c, target), Broadcast(n, c, target, m),
           NEW s, c = Kills(s)
    PROVE  [Play!PlayNext]_(Play!playVars)
<1>0. c[1] \in {"kill", "kill_"} /\ now' = now
  BY BroadcastEffect DEF Kills
<1>1. ASSUME NEW i \in Score.intervals
      PROVE  /\ HolderOf(i) # s => Phase(i)' = Phase(i)
             /\ HolderOf(i) = s => \/ Phase(i)' = "over"
                                   \/ Phase(i) = "past" /\ Phase(i)' = "past"
             /\ started'[Name(i)] = started[Name(i)]
  <2>1. CASE n = Name(i)
    <3>1. Interval(i) = "killed" /\ Interval(i)' = "finished"
      BY <1>0, <2>1, IntervalSpeaks, EndPrefixes
    <3>2. Phase(i) = "over" /\ Phase(i)' = "over"
      BY <3>1, PhaseIs, PhaseThenIs
    <3>3. started'[Name(i)] = started[Name(i)]
      BY <3>1, IntervalNamed, StartedAfter DEF Interval
    <3> QED BY <3>2, <3>3
  <2>2. CASE n # Name(i) /\ HolderOf(i) # s
    BY <1>0, <2>2, KillOfIs, OthersKept
  <2>3. CASE n # Name(i) /\ HolderOf(i) = s
    <3>1. c = KillOf(i) /\ c[1] # "ok_"
      BY <1>0, <2>3, KillOfIs
    <3>2. c # EndChannels(i).event_e2
      BY <1>0, EndPrefixes
    <3>3. \/ Interval(i)' = "killed"
          \/ /\ Interval(i)' = Interval(i)
             /\ Interval(i) \notin {"idle", "wait", "wait_min", "flexible", "semi_flexible"}
      BY <2>3, <3>1, <3>2, IntervalHears
    <3>4. started'[Name(i)] = started[Name(i)]
      BY <3>3, IntervalNamed, StartedAfter DEF Interval
    <3> QED BY <2>3, <3>3, <3>4, PhaseIs, PhaseThenIs
  <2> QED BY <2>1, <2>2, <2>3
<1>2. CASE \A i \in Score.intervals : HolderOf(i) # s
  BY <1>0, <1>1, <1>2, PlayStutters
<1>3. ASSUME NEW j \in Score.intervals, HolderOf(j) = s
      PROVE  Play!PlayNext
  <2> DEFINE ending == {i \in Score.intervals :
                           HolderOf(i) = s /\ Phase(i) = "past" /\ Phase(i)' = "past"}
  <2>1. \A i \in Score.intervals :
           Phase(i)' = IF HolderOf(i) = s /\ i \notin ending THEN "over" ELSE Phase(i)
    BY <1>1
  <2>2. Play!Stop(s)
    <3>1. ending \in SUBSET {i \in Score.intervals :
                             /\ [k \in Score.intervals |-> HolderOf(k)][i] = s
                             /\ [k \in Score.intervals |-> Phase(k)][i] = "past"}
      OBVIOUS
    <3>2. [i \in Score.intervals |-> Phase(i)]' =
             [i \in Score.intervals |->
                 IF /\ [k \in Score.intervals |-> HolderOf(k)][i] = s
                    /\ i \notin ending
                 THEN "over" ELSE [k \in Score.intervals |-> Phase(k)][i]]
      BY <2>1
    <3>3. UNCHANGED <<[i \in Score.intervals |-> started[Name(i)]], now>>
      BY <1>0, <1>1
    <3> HIDE DEF ending
    <3> QED BY <3>1, <3>2, <3>3 DEF Play!Stop
  <2> QED BY <1>3, <2>2 DEF Play!PlayNext
<1> QED BY <1>2, <1>3

\* Dividing by the factor keeps the order of durations.
LEMMA TicksGrow ==
    ASSUME NEW a \in Nat, NEW b \in Nat, a <= b
    PROVE  Ticks(a) \in Nat /\ Ticks(b) \in Nat /\ Ticks(a) <= Ticks(b)
<1>1. DivisionFactor \in Nat \ {0}
  BY FactorAssumption
<1> DEFINE k == a \div DivisionFactor
           l == b \div DivisionFactor
<1>2. /\ k \in Int /\ l \in Int
      /\ DivisionFactor * k <= a /\ a < DivisionFactor * k + DivisionFactor
      /\ DivisionFactor * l <= b /\ b < DivisionFactor * l + DivisionFactor
  BY <1>1
<1>3. k >= 0 /\ l >= 0
  BY <1>1, <1>2
<1>4. ASSUME l + 1 <= k PROVE FALSE
  <2>1. DivisionFactor * (l + 1) <= DivisionFactor * k
    BY <1>1, <1>2, <1>4
  <2> QED BY <1>1, <1>2, <2>1
<1> QED BY <1>2, <1>3, <1>4 DEF Ticks

\* The printed durations of an interval.
LEMMA Durations ==
    ASSUME NEW i \in Score.intervals
    PROVE  /\ Score.rigid[i] => /\ Name(i) \in Rigids
                                /\ Decl[Name(i)].dur = Ticks(Score.dur[i])
                                /\ Ticks(Score.dur[i]) \in Nat
           /\ ~Score.rigid[i] =>
                 /\ Name(i) \in Flexibles
                 /\ Decl[Name(i)].dmin = Ticks(Score.min[i])
                 /\ Decl[Name(i)].finite = ~Score.infinite[i]
                 /\ Ticks(Score.min[i]) \in Nat
                 /\ ~Score.infinite[i] => /\ Decl[Name(i)].dmax = Ticks(Score.max[i])
                                          /\ Ticks(Score.max[i]) \in Nat
                                          /\ Ticks(Score.min[i]) <= Ticks(Score.max[i])
<1>1. /\ Score.dur[i] \in Nat /\ Score.min[i] \in Nat /\ Score.max[i] \in Nat
      /\ ~Score.rigid[i] /\ ~Score.infinite[i] => Score.min[i] <= Score.max[i]
  BY ScoreIsDocument DEF ScoreAssumption
<1>2. CASE Score.rigid[i]
  <2>1. RigidElement(i).dur = Ticks(Score.dur[i])
    BY DEF RigidElement
  <2> QED BY <1>1, <1>2, <2>1, IntervalNamed, TicksGrow
<1>3. CASE ~Score.rigid[i]
  <2>1. /\ FlexibleElement(i).dmin = Ticks(Score.min[i])
        /\ FlexibleElement(i).finite = ~Score.infinite[i]
        /\ ~Score.infinite[i] => FlexibleElement(i).dmax = Ticks(Score.max[i])
    BY DEF FlexibleElement
  <2>2. Decl[Name(i)] = FlexibleElement(i) /\ Name(i) \in Flexibles
    BY <1>3, IntervalNamed
  <2>3. Ticks(Score.min[i]) \in Nat /\ Ticks(Score.max[i]) \in Nat
    BY <1>1, TicksGrow
  <2>4. ~Score.infinite[i] => Ticks(Score.min[i]) <= Ticks(Score.max[i])
    BY <1>1, <1>3, TicksGrow
  <2> QED BY <1>3, <2>1, <2>2, <2>3, <2>4
<1> QED BY <1>2, <1>3

\* Time only passes while no interval is at its maximum.
LEMMA DelayTicks ==
    ASSUME IInv, Delay
    PROVE  Play!Tick
<1>1. ASSUME NEW i \in Score.intervals
      PROVE  /\ Phase(i) \in {"running", "past"} =>
                   IF Score.rigid[i] THEN now - started[Name(i)] < Ticks(Score.dur[i])
                   ELSE Score.infinite[i] \/ now - started[Name(i)] < Ticks(Score.max[i])
             /\ Phase(i)' = Phase(i) /\ started'[Name(i)] = started[Name(i)]
             /\ Score.rigid[i] \in BOOLEAN /\ Score.infinite[i] \in BOOLEAN
  <2>1. /\ Name(i) \in Intervals /\ Name(i) \in Elements
        /\ started[Name(i)] \in Int /\ now \in Int
        /\ Interval(i) \notin CommittedLocations \cup UrgentLocations
    BY IntervalNamed, HorizonAssumption
       DEF IInv, TypeOK, Delay, MayDelay, Interval, Intervals, Rigids, Flexibles, OfKind
  <2>2. Phase(i)' = Phase(i) /\ started'[Name(i)] = started[Name(i)]
    BY DEF Delay, Phase, Interval
  <2>3. Score.rigid[i] \in BOOLEAN /\ Score.infinite[i] \in BOOLEAN
    BY References
  <2>4. ASSUME Score.rigid[i], Phase(i) \in {"running", "past"}
        PROVE  now - started[Name(i)] < Ticks(Score.dur[i])
    <3>1. /\ Name(i) \in Rigids /\ Decl[Name(i)].dur = Ticks(Score.dur[i])
      BY <2>4, Durations
    <3>2. Interval(i) = "wait"
      <4>1. Interval(i) \in {"idle", "wait", "id7", "skipped", "killed", "finished"}
        BY <2>1, <3>1, TemplateLocations DEF IInv, TypeOK, Interval
      <4> QED BY <2>1, <2>4, <4>1, PhaseIs DEF UrgentLocations
    <3> QED BY <3>1, <3>2 DEF Delay, MayDelay, Interval, t
  <2>5. ASSUME ~Score.rigid[i], ~Score.infinite[i], Phase(i) \in {"running", "past"}
        PROVE  now - started[Name(i)] < Ticks(Score.max[i])
    <3>1. /\ Name(i) \in Flexibles /\ Decl[Name(i)].dmin = Ticks(Score.min[i])
          /\ Decl[Name(i)].dmax = Ticks(Score.max[i]) /\ Decl[Name(i)].finite
          /\ Ticks(Score.min[i]) \in Nat /\ Ticks(Score.max[i]) \in Nat
          /\ Ticks(Score.min[i]) <= Ticks(Score.max[i])
      BY <2>5, Durations
    <3>2. Interval(i) \in {"wait_min", "flexible", "semi_flexible"}
      <4>1. Interval(i) # "wait"
        BY <2>1, <3>1, TemplateLocations DEF IInv, TypeOK, Interval
      <4> QED BY <2>1, <2>5, <4>1, PhaseIs DEF UrgentLocations, CommittedLocations
    <3>3. Interval(i) # "flexible"
      BY <3>1 DEF IInv, ClocksInBounds, Interval
    <3>4. CASE Interval(i) = "wait_min"
      <4>1. now - started[Name(i)] < Ticks(Score.min[i])
        BY <3>1, <3>4 DEF Delay, MayDelay, Interval, t
      <4> QED BY <2>1, <3>1, <4>1
    <3>5. CASE Interval(i) = "semi_flexible"
      BY <3>1, <3>5 DEF Delay, MayDelay, Interval, t
    <3> QED BY <3>2, <3>3, <3>4, <3>5
  <2> QED BY <2>2, <2>3, <2>4, <2>5
<1>2. now' = now + 1
  BY DEF Delay
<1> QED BY <1>1, <1>2 DEF Play!Tick

\* One interval moves, the others keep their phase.
LEMMA EndStep ==
    ASSUME IInv, NEW n \in Elements, NEW c, NEW target, NEW m,
           Speaks(n, c, target), Broadcast(n, c, target, m),
           EndSpeaks(n, c, target) \/ OverSpeaks(n, c, target)
    PROVE  [Play!PlayNext]_(Play!playVars)
<1>0. /\ now' = now /\ loc'[n] = target
      /\ \A i \in Score.intervals : c # KillOf(i) /\ c # <<"ok_", Score.startEvent[i]>>
  <2>1. c[1] \in {"event_s_", "event_s1_Control_", "event_e1", "event_e_", "event_s2_Control_",
                  "event_e2"}
    BY RigidPrefixes, FlexiblePrefixes DEF EndSpeaks, OverSpeaks
  <2>2. \A i : KillOf(i)[1] \in {"kill", "kill_"}
    BY SelfPrefixes DEF KillOf
  <2> QED BY <2>1, <2>2, BroadcastEffect
<1>1. CASE \A i \in Score.intervals : n # Name(i)
  BY <1>0, <1>1, OthersKept, PlayStutters
<1>2. ASSUME NEW i \in Score.intervals, n = Name(i)
      PROVE  [Play!PlayNext]_(Play!playVars)
  <2>1. \A j \in Score.intervals \ {i} : n # Name(j)
    BY <1>2 DEF Name
  <2>2. \A j \in Score.intervals \ {i} :
           Phase(j)' = Phase(j) /\ started'[Name(j)] = started[Name(j)]
    BY <1>0, <2>1, OthersKept
  <2>3. Interval(i) # "idle" /\ started'[Name(i)] = started[Name(i)]
    <3>1. Interval(i) # "idle"
      BY <1>2, IntervalSpeaks
    <3> QED BY <1>2, <3>1, IntervalNamed, StartedAfter DEF Interval
  <2>4. UNCHANGED <<[k \in Score.intervals |-> started[Name(k)]], now>>
    BY <1>0, <2>2, <2>3
  <2>5. CASE EndSpeaks(n, c, target)
    <3>1. Phase(i) = "running" /\ Phase(i)' = "past"
      <4>1. Interval(i) \in {"wait", "wait_min"}
        BY <1>2, <2>5 DEF EndSpeaks, Interval
      <4>2. Interval(i)' \in {"id7", "flexible", "semi_flexible"}
        BY <1>0, <1>2, <2>5 DEF EndSpeaks, Interval
      <4> QED BY <4>1, <4>2, PhaseIs, PhaseThenIs
    <3>2. now - started[Name(i)] >= Ticks(IF Score.rigid[i] THEN Score.dur[i] ELSE Score.min[i])
      <4>1. CASE Score.rigid[i]
        <5>1. n \notin Flexibles
          BY <1>2, <4>1, IntervalNamed DEF Rigids, Flexibles, OfKind
        <5>2. t(n) = Ticks(Score.dur[i]) /\ Ticks(Score.dur[i]) \in Nat
          BY <1>2, <2>5, <4>1, <5>1, Durations DEF EndSpeaks
        <5> QED BY <1>2, <4>1, <5>2 DEF t
      <4>2. CASE ~Score.rigid[i]
        <5>1. n \notin Rigids
          BY <1>2, <4>2, IntervalNamed DEF Rigids, Flexibles, OfKind
        <5>2. t(n) = Ticks(Score.min[i]) /\ Ticks(Score.min[i]) \in Nat
          BY <1>2, <2>5, <4>2, <5>1, Durations DEF EndSpeaks
        <5> QED BY <1>2, <4>2, <5>2 DEF t
      <4> QED BY <4>1, <4>2
    <3>3. Play!Reach(i)
      BY <2>2, <2>4, <3>1, <3>2 DEF Play!Reach
    <3> QED BY <3>3 DEF Play!PlayNext
  <2>6. CASE OverSpeaks(n, c, target)
    <3>1. Phase(i) = "past" /\ Phase(i)' = "over"
      <4>1. Interval(i) \in {"id7", "id15"} /\ Interval(i)' = "finished"
        BY <1>0, <1>2, <2>6 DEF OverSpeaks, Interval
      <4> QED BY <4>1, PhaseIs, PhaseThenIs DEF Phase
    <3>2. Play!End(i)
      BY <2>2, <2>4, <3>1 DEF Play!End
    <3> QED BY <3>2 DEF Play!PlayNext
  <2> QED BY <2>5, <2>6
<1> QED BY <1>1, <1>2

\* The intervals of an event start together, once their sync is ready.
LEMMA StartStep ==
    ASSUME IInv, NeverSkipped, PlayInv, NEW n \in Elements, NEW c, NEW target, NEW m,
           Speaks(n, c, target), Broadcast(n, c, target, m),
           NEW ev \in Score.events, c = <<"ok_", ev>>
    PROVE  [Play!PlayNext]_(Play!playVars)
<1>0. /\ now' = now /\ StartsOnCue /\ HeardWhenReady
      /\ \A i : c # KillOf(i)
      /\ \A i \in Score.intervals : n # Name(i)
  <2>1. \A i : KillOf(i)[1] \in {"kill", "kill_"}
    BY SelfPrefixes DEF KillOf
  <2>2. PointSpeaks(n, c, target)
    BY WhoSays
  <2>3. \A i \in Score.intervals : n # Name(i)
    BY <2>2, IntervalNamed DEF PointSpeaks, Points, Intervals, Rigids, Flexibles, OfKind
  <2> QED BY <2>1, <2>3, BroadcastEffect DEF PlayInv
<1>1. \A i \in Score.intervals :
         Interval(i) # "idle" \/ Score.startEvent[i] # ev =>
            Phase(i)' = Phase(i) /\ started'[Name(i)] = started[Name(i)]
  BY <1>0, OthersKept
<1>2. CASE \A i \in Score.intervals : Score.startEvent[i] = ev => Interval(i) # "idle"
  BY <1>0, <1>1, <1>2, PlayStutters
<1>3. ASSUME NEW j \in Score.intervals, Score.startEvent[j] = ev, Interval(j) = "idle"
      PROVE  Play!Start(ev)
  <2>1. \A i \in Score.intervals : Score.startEvent[i] = ev => Interval(i) = "idle"
    BY <1>0, <1>3 DEF StartsOnCue
  <2>2. n = Name(ev) /\ loc[n] \in {"cond_true", "timeout"}
    BY <1>0, <2>1, OkSaid, ReadyOpenings
  <2>3. Ready(Score.syncOf[ev])
    BY <1>0, <2>2 DEF HeardWhenReady
  <2>4. ASSUME NEW i \in Score.intervals, Score.startEvent[i] = ev
        PROVE  /\ Phase(i) = "waiting" /\ Phase(i)' = "running"
               /\ started'[Name(i)] = now
    <3>1. Interval(i) = "idle"
      BY <2>1, <2>4
    <3>2. Interval(i)' \in {"wait", "wait_min"}
      BY <1>0, <2>4, <3>1, IntervalHears
    <3>3. started'[Name(i)] = now
      BY <3>1, <3>2, IntervalNamed, StartedAfter DEF Interval
    <3> QED BY <3>1, <3>2, <3>3, PhaseIs, PhaseThenIs
  <2> DEFINE cue == {i \in Score.intervals : Score.startEvent[i] = ev}
  <2>5. cue # {} /\ \A i \in cue : Phase(i) = "waiting"
    BY <1>3, <2>4
  <2>6. \A i \in Previous(Score.syncOf[ev]) :
           i \in Score.intervals /\ Phase(i) \in {"past", "over"}
    BY <2>3 DEF Ready, Previous
  <2>7. \A i \in IF Opens(ev)
                 THEN {Score.parent[Score.scenarioOf[Score.syncOf[ev]]]} \ {Score.root}
                 ELSE {} :
           i \in Score.intervals /\ Phase(i) # "waiting"
    BY <2>3, References DEF Ready, Opens
  <2>8. [i \in Score.intervals |-> Phase(i)]' =
           [i \in Score.intervals |-> IF i \in cue THEN "running" ELSE Phase(i)]
    BY <1>1, <2>4
  <2>9. [i \in Score.intervals |-> started[Name(i)]]' =
           [i \in Score.intervals |-> IF i \in cue THEN now ELSE started[Name(i)]]
    BY <1>1, <2>4
  <2> QED BY <1>0, <2>5, <2>6, <2>7, <2>8, <2>9 DEF Play!Start
<1> QED BY <1>2, <1>3 DEF Play!PlayNext

LEMMA PlayStep ==
    ASSUME TriggersUnforced, IInv, NeverSkipped, PlayInv, [Next]_vars
    PROVE  [Play!PlayNext]_(Play!playVars)
<1>1. ASSUME NEW n \in Elements, NEW c, NEW target, NEW m,
             Speaks(n, c, target), Broadcast(n, c, target, m)
      PROVE  [Play!PlayNext]_(Play!playVars)
  <2>0. now' = now
    BY <1>1, BroadcastEffect
  <2>1. CASE EndSpeaks(n, c, target) \/ OverSpeaks(n, c, target)
    BY <1>1, <2>1, EndStep
  <2>2. CASE \E s : c = Kills(s)
    BY <1>1, <2>2, KillStops
  <2>3. CASE \E ev \in Score.events : c = <<"ok_", ev>>
    BY <1>1, <2>3, StartStep
  <2>4. ASSUME ~(EndSpeaks(n, c, target) \/ OverSpeaks(n, c, target)), ~\E s : c = Kills(s),
               ~\E ev \in Score.events : c = <<"ok_", ev>>
        PROVE  UNCHANGED Play!playVars
    <3>1. ~KillSpeaks(n, c, target)
      BY <2>4, WhoKills, OwnNames DEF Kills
    <3>2. \A i \in Score.intervals : n # Name(i)
      <4>1. n \in Mixs \cup Controls \cup Points \cup Events \cup EventsND
        BY <1>1, <2>4, <3>1 DEF Speaks, MixSpeaks, ControlSpeaks, PointSpeaks, EventSpeaks
      <4> QED BY <4>1, IntervalNamed DEF Intervals, Rigids, Flexibles, Mixs, Controls, Points,
                                         Events, EventsND, OfKind
    <3>3. \A i \in Score.intervals : c # KillOf(i)
      BY <2>4, KillOfIs
    <3>4. \A i \in Score.intervals : c # <<"ok_", Score.startEvent[i]>>
      BY <2>4, References
    <3> QED BY <1>1, <2>0, <3>2, <3>3, <3>4, OthersKept, PlayStutters
  <2> QED BY <2>1, <2>2, <2>3, <2>4
<1>2. ASSUME \/ \E n \in Flexibles : FlexibleReachesMax(n)
             \/ \E n \in Controls : ControlWaits(n)
             \/ UNCHANGED vars
      PROVE  UNCHANGED Play!playVars
  <2>1. now' = now
    BY <1>2 DEF FlexibleReachesMax, ControlWaits, vars
  <2> QED BY <1>2, <2>1, SilentStep, PlayStutters
<1>3. CASE Delay
  BY <1>3, DelayTicks DEF Play!PlayNext
<1> QED BY <1>1, <1>2, <1>3, StepIs

LEMMA PlayStarts ==
    ASSUME Init
    PROVE  Play!PlayInit
<1>1. ASSUME NEW i \in Score.intervals
      PROVE  Phase(i) = "waiting" /\ started[Name(i)] = -1
  <2>1. Interval(i) = "idle"
    BY IntervalNamed DEF Init, Interval, Intervals, Rigids, Flexibles, Events, OfKind
  <2>2. started[Name(i)] = -1
    BY IntervalNamed DEF Init
  <2> QED BY <2>1, <2>2, PhaseIs
<1>2. now = 0
  BY DEF Init
<1> QED BY <1>1, <1>2 DEF Play!PlayInit

\* Whatever the points, mixes and controls do in between, the network of every
\* score plays it: the intervals of an event start together and only when all
\* that reach its sync are past their minimum, none ends early or runs past its
\* maximum, and a kill stops what an interval holds whole.
THEOREM NetworkPlaysScore ==
    ASSUME TriggersUnforced
    PROVE  Spec => PlaysScore
<1>1. Init => Play!PlayInit
  BY PlayStarts
<1>2. IInv /\ NeverSkipped /\ PlayInv /\ [Next]_vars => [Play!PlayNext]_(Play!playVars)
  BY PlayStep
<1> QED BY <1>1, <1>2, PlayInvariance, PTL DEF Spec, PlaysScore, Play!PlaySpec

\* Only a Start of its event sets an interval running.
LEMMA RunsByStart ==
    ASSUME [Play!PlayNext]_(Play!playVars), NEW i \in Score.intervals,
           Phase(i) = "waiting", Phase(i)' = "running"
    PROVE  Play!Start(Score.startEvent[i])
<1> DEFINE phase == [k \in Score.intervals |-> Phase(k)]
<1>1. phase[i] = "waiting" /\ phase'[i] = "running"
  OBVIOUS
<1>2. ~(UNCHANGED Play!playVars)
  BY <1>1 DEF Play!playVars
<1>3. ASSUME NEW k \in Score.intervals, Play!Reach(k) \/ Play!End(k) PROVE FALSE
  <2>1. \E p \in {"past", "over"} : phase' = [phase EXCEPT ![k] = p]
    BY <1>3 DEF Play!Reach, Play!End
  <2> QED BY <1>1, <2>1
<1>4. ASSUME NEW s, Play!Stop(s) PROVE FALSE
  <2>1. phase'[i] \in {"over", phase[i]}
    BY <1>4 DEF Play!Stop
  <2> QED BY <1>1, <2>1
<1>5. ~Play!Tick
  <2>1. Play!Tick => phase' = phase
    BY DEF Play!Tick
  <2> QED BY <1>1, <2>1
<1>6. ASSUME NEW ev \in Score.events, Play!Start(ev) PROVE Score.startEvent[i] = ev
  <2>1. phase'[i] = IF Score.startEvent[i] = ev THEN "running" ELSE phase[i]
    BY <1>6 DEF Play!Start
  <2> QED BY <1>1, <2>1
<1> QED BY <1>2, <1>3, <1>4, <1>5, <1>6 DEF Play!PlayNext

\* "We put a Control inbetween": an interval starts only when every interval
\* that reaches its start sync has reached its end or minimum.  The hypothesis
\* is what the run of a merge with a trigger shows to be needed.
THEOREM MergesWaitForAll ==
    ASSUME TriggersUnforced
    PROVE  Spec => WaitsForAll
<1> DEFINE Waits ==
      \A i \in Score.intervals : Phase(i) = "waiting" /\ Phase(i)' = "running" =>
          \A j \in Previous(StartSync(i)) : Phase(j) \in {"past", "over"}
<1>1. IInv /\ NeverSkipped /\ PlayInv /\ [Next]_vars => [Waits]_vars
  <2> SUFFICES ASSUME IInv, NeverSkipped, PlayInv, [Next]_vars,
                      NEW i \in Score.intervals, Phase(i) = "waiting", Phase(i)' = "running"
               PROVE  \A j \in Previous(StartSync(i)) : Phase(j) \in {"past", "over"}
    OBVIOUS
  <2>1. Play!Start(Score.startEvent[i])
    BY PlayStep, RunsByStart
  <2>2. Score.startEvent[i] \in Score.events /\ Previous(StartSync(i)) \subseteq Score.intervals
    BY References DEF Previous
  <2> QED BY <2>1, <2>2 DEF Play!Start, StartSync
<1> QED BY <1>1, PlayInvariance, PTL DEF Spec, WaitsForAll
=============================================================================
