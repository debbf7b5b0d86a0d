-------------------------- MODULE TANetworkProofs --------------------------
(***************************************************************************)
(* Proofs about the templates of model-uppaal.xml.in, for every network    *)
(* and every horizon.                                                      *)
(***************************************************************************)
EXTENDS TANetwork, FiniteSetTheorems, TLAPS

(***************************************************************************)
(* What an element can do on hearing a channel, template by template.      *)
(***************************************************************************)

\* An element that hears a channel stays or follows one of its input edges.
LEMMA AfterEdge ==
    ASSUME NEW n, NEW c
    PROVE  \/ After(n, c) = loc[n]
           \/ \E r \in Inputs(n) : r[1] = loc[n] /\ r[2] = c /\ r[3] = After(n, c)
<1>1. CASE Edges(n, c) = {}
  BY <1>1 DEF After
<1>2. CASE Edges(n, c) # {}
  <2>1. (CHOOSE r \in Edges(n, c) : TRUE) \in Edges(n, c)
    BY <1>2
  <2> QED BY <1>2, <2>1 DEF After, Edges
<1> QED BY <1>1, <1>2

\* A Rigid only leaves idle or wait, to start or to give up.
LEMMA RigidAfter ==
    ASSUME NEW n \in Rigids, NEW c
    PROVE  \/ After(n, c) = loc[n]
           \/ loc[n] = "idle" /\ After(n, c) \in {"wait", "skipped", "killed"}
           \/ loc[n] = "wait" /\ After(n, c) = "killed"
<1>1. Inputs(n) = RigidInputs(Decl[n])
  BY DEF Inputs, InputsWhen, Rigids, Flexibles, Mixs, Controls, Points, OfKind
<1> QED BY <1>1, AfterEdge DEF RigidInputs

\* A Flexible only ends early, on event_i, past its minimum.
LEMMA FlexibleAfter ==
    ASSUME NEW n \in Flexibles, NEW c
    PROVE  \/ After(n, c) = loc[n]
           \/ loc[n] = "idle" /\ After(n, c) \in {"wait_min", "skipped", "killed"}
           \/ loc[n] \in {"flexible", "semi_flexible"} /\ After(n, c) \in {"id15", "killed"}
           \/ loc[n] = "wait_min" /\ After(n, c) = "killed"
<1>1. Inputs(n) = FlexibleInputs(Decl[n])
  BY DEF Inputs, InputsWhen, Rigids, Flexibles, Mixs, Controls, Points, OfKind
<1> QED BY <1>1, AfterEdge DEF FlexibleInputs

\* A Mix hears something only while idle, once.
LEMMA MixAfter ==
    ASSUME NEW n \in Mixs, NEW c
    PROVE  \/ After(n, c) = loc[n]
           \/ loc[n] = "idle" /\ After(n, c) \in {"id22", "finished"}
<1>1. Inputs(n) = MixInputs(Decl[n])
  BY DEF Inputs, InputsWhen, Rigids, Flexibles, Mixs, Controls, Points, OfKind
<1> QED BY <1>1, AfterEdge DEF MixInputs

\* A Control hears something only while idle.
LEMMA ControlAfter ==
    ASSUME NEW n \in Controls, NEW c
    PROVE  \/ After(n, c) = loc[n]
           \/ loc[n] = "idle" /\ After(n, c) \in {"id26", "error", "finished"}
<1>1. Inputs(n) = ControlInputs(Decl[n])
  BY DEF Inputs, InputsWhen, Rigids, Flexibles, Mixs, Controls, Points, OfKind
<1> QED BY <1>1, AfterEdge DEF ControlInputs

\* A Point times out only with its flag up.
LEMMA PointAfter ==
    ASSUME NEW n \in Points, NEW c
    PROVE  \/ After(n, c) = loc[n]
           \/ loc[n] = "idle" /\ After(n, c) \in {"enabled", "skipped", "finished"}
           \/ loc[n] = "enabled" /\ After(n, c) \in {"finished", "skipped", "cond_true"}
           \/ loc[n] = "enabled" /\ After(n, c) = "timeout" /\ en[n]
<1>1. Inputs(n) = PointInputs(Decl[n], n \in Points /\ en[n])
  BY DEF Inputs, InputsWhen, Rigids, Flexibles, Mixs, Controls, Points, OfKind
<1> QED BY <1>1, AfterEdge DEF PointInputs

\* Events listen to nothing.
LEMMA EventAfter ==
    ASSUME NEW n \in Events \cup EventsND, NEW c
    PROVE  After(n, c) = loc[n]
<1>1. Inputs(n) = {}
  BY DEF Inputs, InputsWhen, Rigids, Flexibles, Mixs, Controls, Points, Events, EventsND, OfKind
<1> QED BY <1>1, AfterEdge

\* Every element comes from one of the templates.
LEMMA KindOfElement ==
    \A n \in Elements :
        n \in Events \cup EventsND \cup Rigids \cup Flexibles \cup Mixs \cup Controls \cup Points
BY DeclAssumption
   DEF Kinds, Events, EventsND, Rigids, Flexibles, Mixs, Controls, Points, OfKind

\* The locations of each template, spelled out.
LEMMA TemplateLocations ==
    /\ \A n \in Events : LocationsOf(Decl[n].kind) = {"waiting", "finished"}
    /\ \A n \in EventsND : LocationsOf(Decl[n].kind) = {"idle", "finished"}
    /\ \A n \in Rigids : LocationsOf(Decl[n].kind) =
          {"idle", "wait", "id7", "skipped", "killed", "finished"}
    /\ \A n \in Flexibles : LocationsOf(Decl[n].kind) =
          {"idle", "wait_min", "flexible", "semi_flexible", "id15", "skipped", "killed",
           "finished"}
    /\ \A n \in Mixs : LocationsOf(Decl[n].kind) = {"idle", "id22", "finished"}
    /\ \A n \in Controls : LocationsOf(Decl[n].kind) = {"idle", "id26", "error", "finished"}
    /\ \A n \in Points : LocationsOf(Decl[n].kind) =
          {"idle", "enabled", "cond_true", "id28", "timeout", "skipped", "finished"}
BY DEF LocationsOf, Events, EventsND, Rigids, Flexibles, Mixs, Controls, Points, OfKind

\* Hearing a channel keeps an element in a location of its template.
LEMMA AfterLocation ==
    ASSUME TypeOK, NEW n \in Elements, NEW c
    PROVE  After(n, c) \in LocationsOf(Decl[n].kind)
<1>0. loc[n] \in LocationsOf(Decl[n].kind)
  BY DEF TypeOK
<1>1. CASE n \in Events \cup EventsND
  BY <1>0, <1>1, EventAfter
<1>2. CASE n \in Rigids
  BY <1>0, <1>2, RigidAfter, TemplateLocations
<1>3. CASE n \in Flexibles
  BY <1>0, <1>3, FlexibleAfter, TemplateLocations
<1>4. CASE n \in Mixs
  BY <1>0, <1>4, MixAfter, TemplateLocations
<1>5. CASE n \in Controls
  BY <1>0, <1>5, ControlAfter, TemplateLocations
<1>6. CASE n \in Points
  BY <1>0, <1>6, PointAfter, TemplateLocations
<1> QED BY <1>1, <1>2, <1>3, <1>4, <1>5, <1>6, KindOfElement
(***************************************************************************)
(* The inductive invariant.  ControlCounts and ClocksInBounds are          *)
(* inductive together with the types; EnabledHasFlag needs PointAfter.     *)
(***************************************************************************)
IInv == TypeOK /\ ControlCounts /\ ClocksInBounds /\ EnabledHasFlag

\* What an emitting edge must bring for the location it leads to.
Arrives(n, target) ==
    \/ target \in {"finished", "id7", "id28"}
    \/ /\ n \in Flexibles /\ target = "flexible"
       /\ ~Decl[n].finite /\ t(n) >= Decl[n].dmin
    \/ /\ n \in Flexibles /\ target = "semi_flexible"
       /\ Decl[n].finite /\ t(n) >= Decl[n].dmin /\ t(n) <= Decl[n].dmax

\* The pointwise effect of a broadcast, and the types it keeps.
LEMMA BroadcastEffect ==
    ASSUME NEW n \in Elements, NEW c, NEW target, NEW m, Broadcast(n, c, target, m)
    PROVE  /\ DOMAIN loc' = Elements
           /\ loc'[n] = target
           /\ \A x \in Elements \ {n} : loc'[x] = After(x, c)
           /\ \A i \in Intervals :
                 \/ started'[i] = started[i]
                       /\ ~(loc[i] = "idle" /\ loc'[i] \in {"wait", "wait_min"})
                 \/ started'[i] = now /\ loc[i] = "idle"
           /\ \A x \in Controls :
                 \/ /\ x # n /\ loc[x] = "idle" /\ loc'[x] = "id26"
                    /\ counter'[x] = counter[x] + 1
                 \/ /\ ~(x # n /\ loc[x] = "idle" /\ loc'[x] = "id26")
                    /\ counter'[x] = counter[x]
           /\ \A p \in Points \ {n} :
                 en'[p] <=> (en[p] \/ (loc[p] = "idle" /\ loc'[p] = "enabled"))
           /\ now' = now
<1>1. Intervals \subseteq Elements /\ Controls \subseteq Elements /\ Points \subseteq Elements
  BY DEF Intervals, Rigids, Flexibles, Controls, Points, OfKind
<1>2. loc' = [x \in Elements |-> IF x = n THEN target ELSE After(x, c)]
  BY DEF Broadcast, Counts, SkipV, Flags
<1>3. \A i \in Intervals :
         started'[i] = IF loc[i] = "idle" /\ loc'[i] \in {"wait", "wait_min"}
                       THEN now ELSE started[i]
  BY <1>1, <1>2 DEF Broadcast, Counts, SkipV, Flags
<1>4. \A x \in Controls :
         counter'[x] = IF x # n /\ loc[x] = "idle" /\ loc'[x] = "id26"
                       THEN counter[x] + 1 ELSE counter[x]
  BY <1>1, <1>2 DEF Broadcast, Counts, SkipV, Flags
<1>5. \A p \in Points \ {n} :
         en'[p] = (en[p] \/ (loc[p] = "idle" /\ loc'[p] = "enabled"))
  BY <1>1, <1>2 DEF Broadcast, Counts, SkipV, Flags
<1>6. now' = now
  BY DEF Broadcast, Counts, SkipV, Flags
<1> QED BY <1>2, <1>3, <1>4, <1>5, <1>6

\* A broadcast keeps every variable in its domain.
LEMMA BroadcastTypes ==
    ASSUME TypeOK, NEW n \in Elements, NEW c, NEW target \in LocationsOf(Decl[n].kind),
           NEW m \in [Messages -> Int], Broadcast(n, c, target, m)
    PROVE  TypeOK'
<1>1. \A x \in Elements : loc'[x] \in LocationsOf(Decl[x].kind)
  BY BroadcastEffect, AfterLocation
<1>2. loc' \in [Elements -> AllLocations]
  <2>1. \A x \in Elements : LocationsOf(Decl[x].kind) \subseteq AllLocations
    BY DeclAssumption DEF AllLocations
  <2>2. loc' = [x \in Elements |-> loc'[x]]
    BY DEF Broadcast, Counts, SkipV, Flags
  <2>3. \A x \in Elements : loc'[x] \in AllLocations
    BY <1>1, <2>1
  <2> QED BY <2>2, <2>3
<1>3. started' \in [Intervals -> Int]
  BY DEF Broadcast, Counts, SkipV, Flags, TypeOK
<1>4. counter' \in [Controls -> Nat]
  BY DEF Broadcast, Counts, SkipV, Flags, TypeOK
<1>5. skip_v' \in [Controls -> BOOLEAN]
  BY DEF Broadcast, Counts, SkipV, Flags, TypeOK
<1>6. en' \in [Points -> BOOLEAN]
  BY DEF Broadcast, Counts, SkipV, Flags, TypeOK
<1>7. msg' \in [Messages -> Int] /\ now' \in 0..Horizon
  BY DEF Broadcast, Counts, SkipV, Flags, TypeOK
<1> QED BY <1>1, <1>2, <1>3, <1>4, <1>5, <1>6, <1>7 DEF TypeOK

\* A broadcast keeps the invariant, when its sender goes where its template lets
\* it: listeners count, start and raise en as the invariant says.
LEMMA BroadcastKeeps ==
    ASSUME IInv, NEW n \in Elements, NEW c, NEW target \in LocationsOf(Decl[n].kind),
           NEW m \in [Messages -> Int], Broadcast(n, c, target, m), Arrives(n, target)
    PROVE  IInv'
<1>1. TypeOK'
  BY BroadcastTypes DEF IInv
<1>2. ControlCounts'
  <2> SUFFICES ASSUME NEW x \in Controls
               PROVE  /\ loc'[x] = "idle"  => counter'[x] < Decl[x].num_prev_rels
                      /\ loc'[x] = "id26"  => counter'[x] \in 1..Decl[x].num_prev_rels
                      /\ loc'[x] = "error" => counter'[x] < Decl[x].num_prev_rels
    BY DEF ControlCounts
  <2>1. /\ x \in Elements /\ counter[x] \in Nat /\ Decl[x].num_prev_rels \in Nat
        /\ loc[x] = "idle" => counter[x] < Decl[x].num_prev_rels
        /\ loc[x] = "id26"  => counter[x] \in 1..Decl[x].num_prev_rels
        /\ loc[x] = "error" => counter[x] < Decl[x].num_prev_rels
    BY DeclAssumption DEF IInv, TypeOK, ControlCounts, Controls, OfKind
  <2>2. x \notin Flexibles
    BY DEF Controls, Flexibles, OfKind
  <2>3. CASE x = n
    <3>1. loc'[x] \in {"finished", "id7", "id28"}
      BY <2>2, <2>3, BroadcastEffect DEF Arrives
    <3> QED BY <3>1
  <2>4. CASE x # n
    <3>1. loc'[x] = After(x, c)
      BY <2>1, <2>4, BroadcastEffect
    <3>2. \/ /\ loc[x] = "idle" /\ loc'[x] = "id26"
             /\ counter'[x] = counter[x] + 1
          \/ /\ ~(loc[x] = "idle" /\ loc'[x] = "id26")
             /\ counter'[x] = counter[x]
      BY <2>4, BroadcastEffect
    <3> QED BY <2>1, <3>1, <3>2, ControlAfter
  <2> QED BY <2>3, <2>4
<1>3. ClocksInBounds'
  <2>1. now' = now /\ now \in Int /\ now >= 0
    BY BroadcastEffect, HorizonAssumption DEF IInv, TypeOK
  <2>2. ASSUME NEW x \in Events
        PROVE  loc'[x] = "waiting" => now' <= Decl[x].date
    <3>1. x \in Elements /\ x \notin Flexibles
      BY DEF Events, Flexibles, OfKind
    <3>2. CASE x = n
      BY <3>1, <3>2, BroadcastEffect DEF Arrives
    <3>3. CASE x # n
      <4>1. loc'[x] = loc[x]
        BY <3>1, <3>3, BroadcastEffect, EventAfter
      <4> QED BY <2>1, <4>1 DEF IInv, ClocksInBounds
    <3> QED BY <3>2, <3>3
  <2>3. ASSUME NEW x \in Intervals
        PROVE  -1 <= started'[x] /\ started'[x] <= now' /\ started'[x] \in Int
    <3>1. started[x] \in Int /\ -1 <= started[x] /\ started[x] <= now
      BY DEF IInv, TypeOK, ClocksInBounds
    <3>2. started'[x] = started[x] \/ started'[x] = now
      BY BroadcastEffect
    <3> QED BY <2>1, <3>1, <3>2
  <2>4. ASSUME NEW x \in Rigids
        PROVE  loc'[x] = "wait" => now' - started'[x] <= Decl[x].dur
    <3>1. /\ x \in Elements /\ x \in Intervals /\ x \notin Flexibles
          /\ Decl[x].dur \in Nat /\ started[x] \in Int
          /\ loc[x] = "wait" => now - started[x] <= Decl[x].dur
      BY DeclAssumption
         DEF Rigids, Flexibles, Intervals, OfKind, IInv, TypeOK, ClocksInBounds, t
    <3>2. CASE x = n
      BY <3>1, <3>2, BroadcastEffect DEF Arrives
    <3>3. CASE x # n
      <4>1. loc'[x] = After(x, c)
        BY <3>1, <3>3, BroadcastEffect
      <4>2. \/ /\ started'[x] = started[x]
               /\ ~(loc[x] = "idle" /\ loc'[x] = "wait")
            \/ started'[x] = now /\ loc[x] = "idle"
        BY <3>1, BroadcastEffect
      <4>3. \/ loc'[x] = loc[x]
            \/ loc[x] = "idle" /\ loc'[x] \in {"wait", "skipped", "killed"}
            \/ loc[x] = "wait" /\ loc'[x] = "killed"
        BY <4>1, RigidAfter
      <4>4. CASE started'[x] = now /\ loc[x] = "idle"
        BY <2>1, <3>1, <4>4
      <4>5. CASE started'[x] = started[x] /\ ~(loc[x] = "idle" /\ loc'[x] = "wait")
        BY <2>1, <3>1, <4>3, <4>5
      <4> QED BY <4>2, <4>4, <4>5
    <3> QED BY <3>2, <3>3
  <2>5. ASSUME NEW x \in Flexibles
        PROVE  /\ loc'[x] = "wait_min" => now' - started'[x] <= Decl[x].dmin
               /\ loc'[x] = "flexible" =>
                     ~Decl[x].finite /\ now' - started'[x] >= Decl[x].dmin
               /\ loc'[x] = "semi_flexible" =>
                     /\ Decl[x].finite /\ now' - started'[x] >= Decl[x].dmin
                     /\ now' - started'[x] <= Decl[x].dmax
    <3>1. /\ x \in Elements /\ x \in Intervals /\ started[x] \in Int
          /\ Decl[x].dmin \in Nat /\ Decl[x].dmax \in Nat
          /\ loc[x] = "wait_min" => now - started[x] <= Decl[x].dmin
          /\ loc[x] = "flexible" =>
                ~Decl[x].finite /\ now - started[x] >= Decl[x].dmin
          /\ loc[x] = "semi_flexible" =>
                /\ Decl[x].finite /\ now - started[x] >= Decl[x].dmin
                /\ now - started[x] <= Decl[x].dmax
      BY DeclAssumption DEF Flexibles, Intervals, OfKind, IInv, TypeOK, ClocksInBounds, t
    <3>2. \/ /\ started'[x] = started[x]
             /\ ~(loc[x] = "idle" /\ loc'[x] = "wait_min")
          \/ started'[x] = now /\ loc[x] = "idle"
      BY <3>1, BroadcastEffect
    <3>3. CASE x = n
      <4>1. loc'[x] = target
        BY <3>3, BroadcastEffect
      <4>2. /\ target # "wait_min"
            /\ target = "flexible" => ~Decl[x].finite /\ now - started[x] >= Decl[x].dmin
            /\ target = "semi_flexible" =>
                  /\ Decl[x].finite /\ now - started[x] >= Decl[x].dmin
                  /\ now - started[x] <= Decl[x].dmax
        BY <3>3 DEF Arrives, t
      <4>3. CASE started'[x] = started[x]
        BY <2>1, <4>1, <4>2, <4>3
      <4>4. CASE started'[x] = now /\ loc[x] = "idle"
        \* an interval that emits has left idle
        <5>1. started'[x] = IF loc[x] = "idle" /\ loc'[x] \in {"wait", "wait_min"}
                            THEN now ELSE started[x]
          BY <3>1 DEF Broadcast, Counts, SkipV, Flags
        <5>2. loc'[x] \notin {"wait", "wait_min"}
          BY <4>1, <3>3 DEF Arrives
        <5>3. started'[x] = started[x]
          BY <5>1, <5>2
        <5> QED BY <4>3, <5>3
      <4> QED BY <3>2, <4>3, <4>4
    <3>4. CASE x # n
      <4>1. loc'[x] = After(x, c)
        BY <3>1, <3>4, BroadcastEffect
      <4> QED BY <2>1, <3>1, <3>2, <4>1, FlexibleAfter
    <3> QED BY <3>3, <3>4
  <2> QED BY <2>2, <2>3, <2>4, <2>5 DEF ClocksInBounds, t
<1>4. EnabledHasFlag'
  <2> SUFFICES ASSUME NEW p \in Points, loc'[p] \in {"enabled", "cond_true", "timeout"}
               PROVE  en'[p]
    BY DEF EnabledHasFlag
  <2>1. p \in Elements /\ p \notin Flexibles
    BY DEF Points, Flexibles, OfKind
  <2>2. p # n
    BY <2>1, BroadcastEffect DEF Arrives
  <2>3. loc'[p] = After(p, c)
    BY <2>1, <2>2, BroadcastEffect
  <2>4. en'[p] <=> (en[p] \/ (loc[p] = "idle" /\ loc'[p] = "enabled"))
    BY <2>2, BroadcastEffect
  <2>5. loc[p] \in {"enabled", "cond_true", "timeout"} => en[p]
    BY DEF IInv, EnabledHasFlag
  <2> QED BY <2>3, <2>4, <2>5, PointAfter
<1> QED BY <1>1, <1>2, <1>3, <1>4 DEF IInv

\* The network as UPPAAL starts it satisfies the invariant.
LEMMA InitInv == Init => IInv
<1> SUFFICES ASSUME Init PROVE IInv
  OBVIOUS
<1>1. TypeOK
  <2>1. \A n \in Elements : loc[n] \in LocationsOf(Decl[n].kind)
    BY KindOfElement, TemplateLocations DEF Init, Events, OfKind, LocationsOf, Kinds
  <2>2. loc \in [Elements -> AllLocations]
    <3>1. \A n \in Elements : loc[n] \in AllLocations
      BY <2>1, DeclAssumption DEF AllLocations
    <3> QED BY <3>1 DEF Init
  <2>3. started \in [Intervals -> Int] /\ counter \in [Controls -> Nat]
        /\ skip_v \in [Controls -> BOOLEAN] /\ en \in [Points -> BOOLEAN]
    BY DEF Init
  <2>4. msg \in [Messages -> Int] /\ now \in 0..Horizon
    BY HorizonAssumption DEF Init
  <2> QED BY <2>1, <2>2, <2>3, <2>4 DEF TypeOK
<1>2. \A n \in Elements \ Events : loc[n] = "idle"
  BY DEF Init
<1>3. ControlCounts
  BY <1>2, DeclAssumption DEF Init, ControlCounts, Controls, Events, OfKind
<1>4. ClocksInBounds
  <2>1. \A n \in Events : now <= Decl[n].date
    BY DeclAssumption DEF Init
  <2>2. \A n \in Intervals : started[n] = -1 /\ now = 0
    BY DEF Init
  <2>3. \A n \in Intervals : n \in Elements \ Events
    BY DEF Events, Intervals, Rigids, Flexibles, OfKind
  <2> QED BY <1>2, <2>1, <2>2, <2>3 DEF ClocksInBounds, Intervals
<1>5. EnabledHasFlag
  BY <1>2 DEF EnabledHasFlag, Points, Events, OfKind
<1> QED BY <1>1, <1>3, <1>4, <1>5 DEF IInv

\* The two edges without a channel, and the passing of time.
LEMMA InternalKeeps ==
    ASSUME IInv, NEW n,
           \/ n \in Flexibles /\ FlexibleReachesMax(n)
           \/ n \in Controls /\ ControlWaits(n)
    PROVE  IInv'
<1>1. n \in Elements
  BY DEF Flexibles, Controls, OfKind
<1>2. PICK target \in {"id15", "idle"} :
         /\ loc' = [loc EXCEPT ![n] = target]
         /\ target = "id15" => n \in Flexibles
         /\ target = "idle" => n \in Controls /\ counter[n] < Decl[n].num_prev_rels
  BY DEF FlexibleReachesMax, ControlWaits
<1>3. /\ loc'[n] = target
      /\ \A x \in Elements \ {n} : loc'[x] = loc[x]
      /\ UNCHANGED <<started, counter, skip_v, en, msg, now>>
  BY <1>1, <1>2 DEF IInv, TypeOK, FlexibleReachesMax, ControlWaits
<1>4. TypeOK'
  <2>1. target \in LocationsOf(Decl[n].kind)
    BY <1>2, TemplateLocations
  <2>2. target \in AllLocations
    BY <1>1, <2>1, DeclAssumption DEF AllLocations
  <2>3. loc' \in [Elements -> AllLocations]
    BY <1>2, <2>2 DEF IInv, TypeOK
  <2> QED BY <1>3, <2>1, <2>3 DEF IInv, TypeOK
<1>5. ControlCounts'
  BY <1>2, <1>3 DEF IInv, ControlCounts, Controls, Flexibles, OfKind
<1>6. ClocksInBounds'
  BY <1>2, <1>3 DEF IInv, ClocksInBounds, t, Controls, Events, Intervals, Rigids, Flexibles, OfKind
<1>7. EnabledHasFlag'
  BY <1>2, <1>3 DEF IInv, EnabledHasFlag, Points, Controls, Flexibles, OfKind
<1> QED BY <1>4, <1>5, <1>6, <1>7 DEF IInv

\* A unit of time passes no bound: the invariants of locations stop it.
LEMMA DelayKeeps ==
    ASSUME IInv, Delay
    PROVE  IInv'
<1>1. /\ now' = now + 1 /\ now' \in 0..Horizon /\ now \in Int
      /\ UNCHANGED <<loc, started, counter, skip_v, en, msg>>
  BY HorizonAssumption DEF Delay, IInv, TypeOK
<1>2. TypeOK'
  BY <1>1 DEF IInv, TypeOK
<1>3. ControlCounts'
  BY <1>1 DEF IInv, ControlCounts
<1>4. ClocksInBounds'
  <2>1. \A i \in Intervals : started[i] \in Int
    BY DEF IInv, TypeOK
  <2>2. \A n \in Events : loc'[n] = "waiting" => now' <= Decl[n].date
    BY <1>1, DeclAssumption DEF Delay, MayDelay
  <2>3. \A n \in Intervals : -1 <= started'[n] /\ started'[n] <= now'
    BY <1>1, <2>1 DEF IInv, ClocksInBounds
  <2>4. \A n \in Rigids : loc'[n] = "wait" => now' - started'[n] <= Decl[n].dur
    BY <1>1, <2>1, DeclAssumption DEF Delay, MayDelay, Intervals, t
  <2>5. ASSUME NEW n \in Flexibles
        PROVE  /\ loc'[n] = "wait_min" => now' - started'[n] <= Decl[n].dmin
               /\ loc'[n] = "flexible" =>
                     ~Decl[n].finite /\ now' - started'[n] >= Decl[n].dmin
               /\ loc'[n] = "semi_flexible" =>
                     /\ Decl[n].finite /\ now' - started'[n] >= Decl[n].dmin
                     /\ now' - started'[n] <= Decl[n].dmax
    BY <1>1, <2>1, DeclAssumption DEF Delay, MayDelay, Intervals, t, IInv, ClocksInBounds
  <2> QED BY <2>2, <2>3, <2>4, <2>5 DEF ClocksInBounds, t
<1>5. EnabledHasFlag'
  BY <1>1 DEF IInv, EnabledHasFlag
<1> QED BY <1>2, <1>3, <1>4, <1>5 DEF IInv

\* Edges that lead out of the template's last committed or urgent location.
LEMMA SendKeeps ==
    ASSUME IInv, NEW n \in Elements, NEW c, NEW target \in {"finished", "id7", "id28"},
           target \in LocationsOf(Decl[n].kind), Send(n, c, target)
    PROVE  IInv'
<1>1. msg \in [Messages -> Int]
  BY DEF IInv, TypeOK
<1> QED BY <1>1, BroadcastKeeps DEF Send, Arrives

\* Every step of every element, a delay and the stutter keep the invariant.
LEMMA NextInv == IInv /\ [Next]_vars => IInv'
<1> SUFFICES ASSUME IInv, [Next]_vars PROVE IInv'
  OBVIOUS
<1>a. \A n \in Events \cup EventsND \cup Intervals \cup Mixs \cup Controls \cup Points :
          n \in Elements
  BY DEF Events, EventsND, Intervals, Rigids, Flexibles, Mixs, Controls, Points, OfKind
<1>1. ASSUME NEW n \in Events \cup EventsND, EventFires(n) \/ EventNDFires(n)
      PROVE  IInv'
  <2>1. [msg EXCEPT ![Decl[n].message] = Decl[n].val] \in [Messages -> Int]
    BY DeclAssumption DEF IInv, TypeOK
  <2>2. "finished" \in LocationsOf(Decl[n].kind)
    BY TemplateLocations
  <2> QED BY <1>1, <1>a, <2>1, <2>2, BroadcastKeeps DEF EventFires, EventNDFires, Arrives
<1>2. ASSUME NEW n \in Rigids, RigidStep(n)
      PROVE  IInv'
  <2>1. n \in Elements /\ {"finished", "id7"} \subseteq LocationsOf(Decl[n].kind)
    BY <1>a, TemplateLocations DEF Intervals
  <2> QED BY <1>2, <2>1, SendKeeps
          DEF RigidStep, RigidEnds, RigidSyncs, IntervalSkips, IntervalKills
<1>3. ASSUME NEW n \in Flexibles, FlexibleStep(n)
      PROVE  IInv'
  <2>1. /\ n \in Elements
        /\ {"finished", "flexible", "semi_flexible"} \subseteq LocationsOf(Decl[n].kind)
    BY <1>a, TemplateLocations DEF Intervals
  <2>2. CASE FlexibleReachesMin(n)
    <3>1. msg \in [Messages -> Int] /\ t(n) >= Decl[n].dmin
      BY <2>2, DeclAssumption DEF IInv, TypeOK, FlexibleReachesMin
    <3>2. CASE ~Decl[n].finite /\ Send(n, Decl[n].event_min, "flexible")
      BY <2>1, <3>1, <3>2, BroadcastKeeps DEF Send, Arrives
    <3>3. CASE /\ Decl[n].finite /\ t(n) <= Decl[n].dmax
               /\ Send(n, Decl[n].event_min, "semi_flexible")
      BY <2>1, <3>1, <3>3, BroadcastKeeps DEF Send, Arrives
    <3> QED BY <2>2, <3>2, <3>3 DEF FlexibleReachesMin
  <2>3. CASE FlexibleReachesMax(n)
    BY <2>3, InternalKeeps
  <2>4. CASE FlexibleEnds(n) \/ IntervalSkips(n) \/ IntervalKills(n)
    BY <2>1, <2>4, SendKeeps DEF FlexibleEnds, IntervalSkips, IntervalKills
  <2> QED BY <1>3, <2>2, <2>3, <2>4 DEF FlexibleStep
<1>4. ASSUME NEW n \in Mixs, MixForwards(n)
      PROVE  IInv'
  BY <1>4, <1>a, TemplateLocations, SendKeeps DEF MixForwards
<1>5. ASSUME NEW n \in Controls, ControlStep(n)
      PROVE  IInv'
  <2>1. n \in Elements /\ "finished" \in LocationsOf(Decl[n].kind)
    BY <1>a, TemplateLocations
  <2>2. CASE ControlWaits(n)
    BY <2>2, InternalKeeps
  <2>3. CASE ControlSkips(n) \/ ControlReleases(n)
    BY <2>1, <2>3, SendKeeps DEF ControlSkips, ControlReleases
  <2> QED BY <1>5, <2>2, <2>3 DEF ControlStep
<1>6. ASSUME NEW n \in Points, PointStep(n)
      PROVE  IInv'
  <2>1. n \in Elements /\ {"finished", "id28"} \subseteq LocationsOf(Decl[n].kind)
    BY <1>a, TemplateLocations
  <2> QED BY <1>6, <2>1, SendKeeps
          DEF PointStep, PointTriggers, PointSyncs, PointSkips, PointTimesOut
<1>7. CASE Delay
  BY <1>7, DelayKeeps
<1>8. CASE UNCHANGED vars
  BY <1>8 DEF vars, IInv, TypeOK, ControlCounts, ClocksInBounds, EnabledHasFlag, t
<1> QED BY <1>1, <1>2, <1>3, <1>4, <1>5, <1>6, <1>7, <1>8 DEF Next, ElementStep, HorizonReached

\* The inductive invariant holds in every reachable state of every network.
THEOREM Invariance == Spec => []IInv
BY InitInv, NextInv, PTL DEF Spec

\* Every element stays in the locations of its own template, and every
\* variable of the network in its domain.
THEOREM TypeCorrect == Spec => []TypeOK
<1>1. IInv => TypeOK
  BY DEF IInv
<1> QED BY <1>1, Invariance, PTL

\* A Control never counts more ends than it waits for: its committed location
\* id26 always has an edge to leave by.
THEOREM ControlsCount == Spec => []ControlCounts
<1>1. IInv => ControlCounts
  BY DEF IInv
<1> QED BY <1>1, Invariance, PTL

\* No interval and no event is ever later than its template allows.
THEOREM ClocksBounded == Spec => []ClocksInBounds
<1>1. IInv => ClocksInBounds
  BY DEF IInv
<1> QED BY <1>1, Invariance, PTL

\* The edge of Point guarded by en == false is dead.
THEOREM EnabledFlagged == Spec => []EnabledHasFlag
<1>1. IInv => EnabledHasFlag
  BY DEF IInv
<1> QED BY <1>1, Invariance, PTL

-----------------------------------------------------------------------------
(* Minimal durations.                                                      *)

\* What a step can do to an interval that is not the one that acts.
LEMMA OthersStep ==
    ASSUME IInv, NEW n \in Elements, NEW c, NEW target, NEW m, Broadcast(n, c, target, m)
    PROVE  /\ \A x \in Rigids \ {n} : loc[x] = "wait" => loc'[x] # "id7"
           /\ \A x \in Flexibles \ {n} :
                 loc[x] # "id15" /\ loc'[x] = "id15" => t(x) >= Decl[x].dmin
<1>1. \A x \in Elements \ {n} : loc'[x] = After(x, c)
  BY BroadcastEffect
<1>2. Rigids \subseteq Elements /\ Flexibles \subseteq Elements
  BY DEF Rigids, Flexibles, OfKind
<1>3. \A x \in Rigids \ {n} : loc[x] = "wait" => loc'[x] # "id7"
  BY <1>1, <1>2, RigidAfter
<1>4. ASSUME NEW x \in Flexibles \ {n}, loc[x] # "id15", loc'[x] = "id15"
      PROVE  t(x) >= Decl[x].dmin
  <2>1. loc[x] \in {"flexible", "semi_flexible"}
    BY <1>1, <1>2, <1>4, FlexibleAfter
  <2> QED BY <2>1 DEF IInv, ClocksInBounds
<1> QED BY <1>3, <1>4

\* The same for the element that acts.
SelfRespects(n, target) ==
    /\ n \in Rigids /\ loc[n] = "wait" /\ target = "id7" => t(n) = Decl[n].dur
    /\ n \in Flexibles /\ loc[n] # "id15" => target # "id15"

\* A broadcast leaves no interval short of its minimum.
LEMMA BroadcastRespects ==
    ASSUME IInv, NEW n \in Elements, NEW c, NEW target, NEW m, Broadcast(n, c, target, m),
           SelfRespects(n, target)
    PROVE  /\ \A x \in Rigids : loc[x] = "wait" /\ loc'[x] = "id7" => t(x) = Decl[x].dur
           /\ \A x \in Flexibles :
                 loc[x] \notin {"id15"} /\ loc'[x] = "id15" => t(x) >= Decl[x].dmin
<1>1. loc'[n] = target
  BY BroadcastEffect
<1> QED BY <1>1, OthersStep DEF SelfRespects

\* However a run interleaves cues, kills and the ends of other intervals, a
\* Rigid ends at its duration and a Flexible never before its minimum.
THEOREM MinimumIsRespected == Spec => MinimumRespected
<1> DEFINE Respected ==
      /\ \A n \in Rigids : loc[n] = "wait" /\ loc'[n] = "id7" => t(n) = Decl[n].dur
      /\ \A n \in Flexibles : loc[n] \notin {"id15"} /\ loc'[n] = "id15"
                                 => t(n) >= Decl[n].dmin
<1>1. IInv /\ [Next]_vars => [Respected]_vars
  <2> SUFFICES ASSUME IInv, Next PROVE Respected
    BY DEF vars
  <2>0. \A n \in Events \cup EventsND \cup Intervals \cup Mixs \cup Controls \cup Points :
           n \in Elements
    BY DEF Events, EventsND, Intervals, Rigids, Flexibles, Mixs, Controls, Points, OfKind
  <2>1. ASSUME NEW n \in Elements, NEW c, NEW target \in {"finished", "id28"}, NEW m,
               Broadcast(n, c, target, m)
        PROVE  Respected
    <3>1. SelfRespects(n, target)
      BY DEF SelfRespects
    <3> QED BY <2>1, <3>1, BroadcastRespects
  <2>2. ASSUME NEW n \in Events \cup EventsND, EventFires(n) \/ EventNDFires(n)
        PROVE  Respected
    BY <2>0, <2>1, <2>2 DEF EventFires, EventNDFires
  <2>3. ASSUME NEW n \in Rigids, RigidStep(n)
        PROVE  Respected
    <3>1. n \in Elements /\ n \notin Flexibles
      BY DEF Rigids, Flexibles, OfKind
    <3>2. CASE RigidEnds(n)
      <4>1. SelfRespects(n, "id7")
        BY <3>1, <3>2 DEF SelfRespects, RigidEnds
      <4> QED BY <3>1, <3>2, <4>1, BroadcastRespects DEF RigidEnds, Send
    <3> QED BY <2>1, <2>3, <3>1, <3>2
            DEF RigidStep, RigidSyncs, IntervalSkips, IntervalKills, Send
  <2>4. ASSUME NEW n \in Flexibles, FlexibleStep(n)
        PROVE  Respected
    <3>1. n \in Elements /\ n \notin Rigids
      BY DEF Rigids, Flexibles, OfKind
    <3>2. CASE FlexibleReachesMin(n)
      <4>1. SelfRespects(n, "flexible") /\ SelfRespects(n, "semi_flexible")
        BY <3>1 DEF SelfRespects
      <4> QED BY <3>1, <3>2, <4>1, BroadcastRespects DEF FlexibleReachesMin, Send
    <3>3. CASE FlexibleReachesMax(n)
      <4>1. loc[n] = "semi_flexible" /\ t(n) >= Decl[n].dmin
        BY <3>3 DEF FlexibleReachesMax, IInv, ClocksInBounds
      <4>2. loc' = [loc EXCEPT ![n] = "id15"]
        BY <3>3 DEF FlexibleReachesMax
      <4> QED BY <3>1, <4>1, <4>2 DEF IInv, TypeOK
    <3> QED BY <2>1, <2>4, <3>1, <3>2, <3>3
            DEF FlexibleStep, FlexibleEnds, IntervalSkips, IntervalKills, Send
  <2>5. ASSUME NEW n \in Mixs, MixForwards(n)
        PROVE  Respected
    BY <2>0, <2>1, <2>5 DEF MixForwards, Send
  <2>6. ASSUME NEW n \in Controls, ControlStep(n)
        PROVE  Respected
    <3>1. CASE ControlWaits(n)
      <4>1. n \in Elements /\ n \notin Intervals
        BY DEF Controls, Intervals, Rigids, Flexibles, OfKind
      <4>2. loc' = [loc EXCEPT ![n] = "idle"]
        BY <3>1 DEF ControlWaits
      <4> QED BY <4>1, <4>2 DEF IInv, TypeOK
    <3> QED BY <2>0, <2>1, <2>6, <3>1 DEF ControlStep, ControlSkips, ControlReleases, Send
  <2>7. ASSUME NEW n \in Points, PointStep(n)
        PROVE  Respected
    BY <2>0, <2>1, <2>7 DEF PointStep, PointTriggers, PointSyncs, PointSkips, PointTimesOut, Send
  <2>8. CASE Delay
    BY <2>8 DEF Delay
  <2>9. CASE HorizonReached
    BY <2>9 DEF HorizonReached, vars
  <2> QED BY <2>2, <2>3, <2>4, <2>5, <2>6, <2>7, <2>8, <2>9 DEF Next, ElementStep
<1> QED BY <1>1, Invariance, PTL DEF Spec, MinimumRespected

-----------------------------------------------------------------------------
(* Controls.                                                               *)

\* The edges <<source, channel>> of a template that carry a "channel!" label.
EventOutputs(e)    == {<<"waiting", e.event>>}
EventNDOutputs(e)  == {<<"idle", e.event>>}
RigidOutputs(e)    == {<<"wait", e.event_e1>>, <<"id7", e.event_e2>>, <<"skipped", e.skip>>,
                       <<"killed", e.kill>>}
FlexibleOutputs(e) == {<<"wait_min", e.event_min>>, <<"id15", e.event_max>>,
                       <<"skipped", e.skip>>, <<"killed", e.kill>>}
MixOutputs(e)      == {<<"id22", e.event_out>>}
ControlOutputs(e)  == {<<"id26", e.skip>>, <<"id26", e.event_e>>}
PointOutputs(e)    == {<<"cond_true", e.event_t>>, <<"id28", e.event_e>>,
                       <<"skipped", e.skip>>, <<"timeout", e.event_t>>, <<"timeout", e.skip>>}

Outputs(n) ==
    CASE n \in Events    -> EventOutputs(Decl[n])
      [] n \in EventsND  -> EventNDOutputs(Decl[n])
      [] n \in Rigids    -> RigidOutputs(Decl[n])
      [] n \in Flexibles -> FlexibleOutputs(Decl[n])
      [] n \in Mixs      -> MixOutputs(Decl[n])
      [] n \in Controls  -> ControlOutputs(Decl[n])
      [] n \in Points    -> PointOutputs(Decl[n])
      [] OTHER           -> {}

\* What the converter does for every merge (TAConversion.cpp:385-401, :606-617):
\* the Control is told the number of the intervals it waits for, its event_s1 is
\* said where one of them ends or reaches its minimum, and its skip_p where one
\* passes a skip on.
Wired ==
    \A c \in Controls :
        /\ IsFiniteSet(Feeding(c)) /\ Cardinality(Feeding(c)) = Decl[c].num_prev_rels
        /\ \A n \in Elements : \A o \in Outputs(n) :
              /\ o[2] = Decl[c].event_s1 => n \in Feeding(c) /\ o[1] \in {"wait", "wait_min"}
              /\ o[2] = Decl[c].skip_p   => n \in Feeding(c) /\ o[1] = "skipped"

\* An interval that has said its end or its skip, or that was killed.
Past(i) == loc[i] \notin {"idle", "wait", "wait_min", "skipped"}

\* Only an interval that was played has a date in started.
Begun ==
    \A i \in Intervals : /\ loc[i] \in {"idle", "skipped"} => started[i] = -1
                         /\ loc[i] \in {"wait", "wait_min"} => started[i] >= 0

\* A Control has counted as many intervals as are in some set of intervals that
\* are past their end; all were skipped if skip_v is still up.
Counted(c, S) ==
    /\ \A i \in S : Past(i)
    /\ Cardinality(S) = counter[c]
    /\ skip_v[c] => \A i \in S : started[i] = -1

Tallied ==
    \A c \in Controls : /\ \E S \in SUBSET Feeding(c) : Counted(c, S)
                        /\ ~skip_v[c] => \E i \in Feeding(c) : started[i] >= 0

\* Where an output edge can lead.
Targets == {"finished", "id7", "id28", "flexible", "semi_flexible"}

\* A step is a broadcast along an output edge, one of the two silent edges, or
\* changes no location.
LEMMA StepSays ==
    ASSUME [Next]_vars
    PROVE  \/ \E n \in Elements, target \in Targets : \E c, m :
                 <<loc[n], c>> \in Outputs(n) /\ Broadcast(n, c, target, m)
           \/ \E n \in Flexibles : FlexibleReachesMax(n)
           \/ \E n \in Controls : ControlWaits(n)
           \/ UNCHANGED <<loc, started, counter, skip_v>>
<1> DEFINE Said == \E n \in Elements, target \in Targets : \E c, m :
                      <<loc[n], c>> \in Outputs(n) /\ Broadcast(n, c, target, m)
<1>0. \A n \in Events \cup EventsND \cup Intervals \cup Mixs \cup Controls \cup Points :
         n \in Elements
  BY DEF Events, EventsND, Intervals, Rigids, Flexibles, Mixs, Controls, Points, OfKind
<1>s. ASSUME NEW n \in Elements, NEW target \in Targets, NEW c, NEW m,
             <<loc[n], c>> \in Outputs(n), Broadcast(n, c, target, m)
      PROVE  Said
  BY <1>s
<1> HIDE DEF Said
<1>1. ASSUME NEW n \in Events, EventFires(n)
      PROVE  Said
  <2>1. n \in Elements /\ Outputs(n) = EventOutputs(Decl[n])
    BY <1>0 DEF Outputs, Events, EventsND, Rigids, Flexibles, Intervals, Mixs, Controls,
                Points, OfKind
  <2> QED BY <1>1, <1>s, <2>1 DEF EventFires, Targets, EventOutputs
<1>2. ASSUME NEW n \in EventsND, EventNDFires(n)
      PROVE  Said
  <2>1. n \in Elements /\ Outputs(n) = EventNDOutputs(Decl[n])
    BY <1>0 DEF Outputs, Events, EventsND, Rigids, Flexibles, Intervals, Mixs, Controls,
                Points, OfKind
  <2> QED BY <1>2, <1>s, <2>1 DEF EventNDFires, Targets, EventNDOutputs
<1>3. ASSUME NEW n \in Rigids, RigidStep(n)
      PROVE  Said
  <2>1. n \in Elements /\ Outputs(n) = RigidOutputs(Decl[n])
    BY <1>0 DEF Outputs, Events, EventsND, Rigids, Flexibles, Intervals, Mixs, Controls,
                Points, OfKind
  <2> QED BY <1>3, <1>s, <2>1
          DEF RigidStep, RigidEnds, RigidSyncs, IntervalSkips, IntervalKills, Send, Targets,
              RigidOutputs
<1>4. ASSUME NEW n \in Flexibles, FlexibleStep(n), ~FlexibleReachesMax(n)
      PROVE  Said
  <2>1. n \in Elements /\ Outputs(n) = FlexibleOutputs(Decl[n])
    BY <1>0 DEF Outputs, Events, EventsND, Rigids, Flexibles, Intervals, Mixs, Controls,
                Points, OfKind
  <2> QED BY <1>4, <1>s, <2>1
          DEF FlexibleStep, FlexibleReachesMin, FlexibleEnds, IntervalSkips, IntervalKills,
              Send, Targets, FlexibleOutputs
<1>5. ASSUME NEW n \in Mixs, MixForwards(n)
      PROVE  Said
  <2>1. n \in Elements /\ Outputs(n) = MixOutputs(Decl[n])
    BY <1>0 DEF Outputs, Events, EventsND, Rigids, Flexibles, Intervals, Mixs, Controls,
                Points, OfKind
  <2> QED BY <1>5, <1>s, <2>1 DEF MixForwards, Send, Targets, MixOutputs
<1>6. ASSUME NEW n \in Controls, ControlStep(n), ~ControlWaits(n)
      PROVE  Said
  <2>1. n \in Elements /\ Outputs(n) = ControlOutputs(Decl[n])
    BY <1>0 DEF Outputs, Events, EventsND, Rigids, Flexibles, Intervals, Mixs, Controls,
                Points, OfKind
  <2> QED BY <1>6, <1>s, <2>1
         DEF ControlStep, ControlSkips, ControlReleases, Send, Targets, ControlOutputs
<1>7. ASSUME NEW n \in Points, PointStep(n)
      PROVE  Said
  <2>1. n \in Elements /\ Outputs(n) = PointOutputs(Decl[n])
    BY <1>0 DEF Outputs, Events, EventsND, Rigids, Flexibles, Intervals, Mixs, Controls,
                Points, OfKind
  <2> QED BY <1>7, <1>s, <2>1
          DEF PointStep, PointTriggers, PointSyncs, PointSkips, PointTimesOut, Send, Targets,
              PointOutputs
<1>8. Delay \/ HorizonReached \/ UNCHANGED vars => UNCHANGED <<loc, started, counter, skip_v>>
  BY DEF Delay, HorizonReached, vars
<1>9. Said \/ (\E n \in Flexibles : FlexibleReachesMax(n))
           \/ (\E n \in Controls : ControlWaits(n))
           \/ UNCHANGED <<loc, started, counter, skip_v>>
  BY <1>1, <1>2, <1>3, <1>4, <1>5, <1>6, <1>7, <1>8 DEF Next, ElementStep
<1> QED BY <1>9 DEF Said

\* A Control counts only when it hears that an interval ends or is skipped.
LEMMA CountsOnHearing ==
    ASSUME NEW x \in Controls, NEW c, loc[x] = "idle", After(x, c) = "id26"
    PROVE  c \in {Decl[x].event_s1, Decl[x].skip_p}
<1>1. Inputs(x) = ControlInputs(Decl[x])
  BY DEF Inputs, InputsWhen, Rigids, Flexibles, Mixs, Controls, Points, OfKind
<1> QED BY <1>1, AfterEdge DEF ControlInputs

\* What a broadcast does to the intervals that a Control counts: those that are
\* past their end stay there, and a date is only given to those that start.
LEMMA IntervalsAfter ==
    ASSUME IInv, Begun, NEW n \in Elements, NEW target \in Targets, NEW c, NEW m,
           <<loc[n], c>> \in Outputs(n), Broadcast(n, c, target, m)
    PROVE  /\ Begun'
           /\ \A i \in Intervals : /\ Past(i) => Past(i)' /\ started'[i] = started[i]
                                   /\ started[i] >= 0 => started'[i] >= 0
           /\ n \in Intervals => Past(n)' /\ started'[n] = started[n]
<1>1. /\ Intervals \subseteq Elements /\ now \in Int /\ now >= 0
      /\ \A i \in Intervals : started[i] \in Int
  BY HorizonAssumption DEF Intervals, Rigids, Flexibles, OfKind, IInv, TypeOK
<1>2. loc' = [x \in Elements |-> IF x = n THEN target ELSE After(x, c)]
  BY DEF Broadcast, Counts, SkipV, Flags
<1>3. \A i \in Intervals :
         started'[i] = IF loc[i] = "idle" /\ loc'[i] \in {"wait", "wait_min"}
                       THEN now ELSE started[i]
  BY <1>1, <1>2 DEF Broadcast, Counts, SkipV, Flags
<1>4. ASSUME NEW i \in Intervals
      PROVE  \/ i = n /\ loc'[i] = target /\ started'[i] = started[i]
             \/ /\ i # n
                /\ \/ loc'[i] = loc[i]
                   \/ loc[i] = "idle" /\ loc'[i] \in {"wait", "wait_min", "skipped", "killed"}
                   \/ loc[i] \in {"wait", "wait_min", "flexible", "semi_flexible"}
                         /\ loc'[i] \in {"killed", "id15"}
  <2>1. CASE i = n
    <3>1. loc'[i] = target
      BY <1>2, <2>1
    <3>2. loc'[i] \notin {"wait", "wait_min"}
      BY <3>1 DEF Targets
    <3> QED BY <1>3, <2>1, <3>1, <3>2
  <2>2. CASE i # n
    <3>1. loc'[i] = After(i, c)
      BY <1>1, <1>2, <2>2
    <3>2. i \in Rigids \/ i \in Flexibles
      BY DEF Intervals
    <3> QED BY <2>2, <3>1, <3>2, RigidAfter, FlexibleAfter
  <2> QED BY <2>1, <2>2
<1>5. ASSUME NEW i \in Intervals
      PROVE  /\ loc'[i] \in {"idle", "skipped"} => started'[i] = -1
             /\ loc'[i] \in {"wait", "wait_min"} => started'[i] >= 0
  <2>1. /\ loc[i] \in {"idle", "skipped"} => started[i] = -1
        /\ loc[i] \in {"wait", "wait_min"} => started[i] >= 0
    BY DEF Begun
  <2>2. started'[i] = IF loc[i] = "idle" /\ loc'[i] \in {"wait", "wait_min"}
                      THEN now ELSE started[i]
    BY <1>3
  <2>3. target \notin {"idle", "skipped", "wait", "wait_min"}
    BY DEF Targets
  <2> QED BY <1>1, <1>4, <2>1, <2>2, <2>3
<1>6. ASSUME NEW i \in Intervals, Past(i)
      PROVE  Past(i)' /\ started'[i] = started[i]
  <2>1. target \notin {"idle", "skipped", "wait", "wait_min"}
    BY DEF Targets
  <2>2. loc[i] \notin {"idle", "wait", "wait_min", "skipped"}
    BY <1>6 DEF Past
  <2>3. started'[i] = started[i]
    BY <1>3, <2>2
  <2> QED BY <1>4, <2>1, <2>2, <2>3 DEF Past
<1>7. ASSUME NEW i \in Intervals, started[i] >= 0
      PROVE  started'[i] >= 0
  BY <1>1, <1>3, <1>7
<1>8. ASSUME n \in Intervals
      PROVE  Past(n)' /\ started'[n] = started[n]
  BY <1>4, <1>8 DEF Past, Targets
<1> QED BY <1>5, <1>6, <1>7, <1>8 DEF Begun

\* A broadcast is counted by a Control for the interval that says it, once.
LEMMA BroadcastTallied ==
    ASSUME Wired, IInv, Begun, Tallied,
           NEW n \in Elements, NEW target \in Targets, NEW c, NEW m,
           <<loc[n], c>> \in Outputs(n), Broadcast(n, c, target, m)
    PROVE  Tallied'
<1> SUFFICES ASSUME NEW x \in Controls
             PROVE  /\ \E S \in SUBSET Feeding(x) : Counted(x, S)'
                    /\ ~skip_v'[x] => \E i \in Feeding(x) : started'[i] >= 0
  BY DEF Tallied, Feeding
<1>1. /\ x \in Elements /\ Feeding(x) \subseteq Intervals /\ IsFiniteSet(Feeding(x))
      /\ Decl[x].event_s1 # Decl[x].skip_p /\ skip_v[x] \in BOOLEAN
  BY DeclAssumption DEF Controls, OfKind, Feeding, Intervals, Wired, IInv, TypeOK
<1>2. PICK S \in SUBSET Feeding(x) : Counted(x, S)
  BY DEF Tallied
<1>3. ~skip_v[x] => \E i \in Feeding(x) : started[i] >= 0
  BY DEF Tallied
<1>4. /\ \A i \in Intervals : /\ Past(i) => Past(i)' /\ started'[i] = started[i]
                              /\ started[i] >= 0 => started'[i] >= 0
      /\ n \in Intervals => Past(n)' /\ started'[n] = started[n]
  BY IntervalsAfter
<1>5. \A i \in S : i \in Intervals /\ Past(i)' /\ started'[i] = started[i]
  BY <1>1, <1>2, <1>4 DEF Counted
<1>6. skip_v'[x] = IF x # n /\ loc[x] = "idle" /\ loc'[x] = "id26" /\ c = Decl[x].event_s1
                   THEN FALSE ELSE skip_v[x]
  BY <1>1 DEF Broadcast, Counts, SkipV, Flags
<1>7. CASE x # n /\ loc[x] = "idle" /\ loc'[x] = "id26"
  <2>1. counter'[x] = counter[x] + 1
    BY <1>7, BroadcastEffect
  <2>2. c \in {Decl[x].event_s1, Decl[x].skip_p}
    <3>1. loc'[x] = After(x, c)
      BY <1>1, <1>7, BroadcastEffect
    <3> QED BY <1>7, <3>1, CountsOnHearing
  <2>3. /\ n \in Feeding(x)
        /\ c = Decl[x].event_s1 => loc[n] \in {"wait", "wait_min"}
        /\ c = Decl[x].skip_p => loc[n] = "skipped"
    <3>1. \A o \in Outputs(n) :
             /\ o[2] = Decl[x].event_s1 => n \in Feeding(x) /\ o[1] \in {"wait", "wait_min"}
             /\ o[2] = Decl[x].skip_p   => n \in Feeding(x) /\ o[1] = "skipped"
      BY DEF Wired
    <3>2. /\ c = Decl[x].event_s1 => n \in Feeding(x) /\ loc[n] \in {"wait", "wait_min"}
          /\ c = Decl[x].skip_p   => n \in Feeding(x) /\ loc[n] = "skipped"
      BY <3>1
    <3> QED BY <2>2, <3>2
  <2>4. n \notin S
    BY <1>2, <2>2, <2>3 DEF Counted, Past
  <2>5. n \in Intervals /\ Past(n)' /\ started'[n] = started[n]
    BY <1>1, <1>4, <2>3
  <2>6. Cardinality(S \cup {n}) = counter'[x]
    <3>1. IsFiniteSet(S)
      BY <1>1, FS_Subset
    <3>2. Cardinality(S \cup {n}) = Cardinality(S) + 1
      BY <2>4, <3>1, FS_AddElement
    <3> QED BY <1>2, <2>1, <3>2 DEF Counted
  <2>7. CASE c = Decl[x].event_s1
    <3>1. ~skip_v'[x]
      BY <1>6, <1>7, <2>7
    <3>2. started'[n] >= 0
      BY <2>3, <2>5, <2>7 DEF Begun
    <3>3. Counted(x, S \cup {n})'
      BY <1>5, <2>5, <2>6, <3>1 DEF Counted
    <3>4. S \cup {n} \in SUBSET Feeding(x)
      BY <2>3
    <3> QED BY <2>3, <3>2, <3>3, <3>4
  <2>8. CASE c = Decl[x].skip_p
    <3>1. skip_v'[x] = skip_v[x]
      BY <1>1, <1>6, <2>8
    <3>2. started'[n] = -1
      BY <2>3, <2>5, <2>8 DEF Begun
    <3>3. Counted(x, S \cup {n})'
      BY <1>2, <1>5, <2>5, <2>6, <3>1, <3>2 DEF Counted
    <3>4. S \cup {n} \in SUBSET Feeding(x)
      BY <2>3
    <3>5. ~skip_v'[x] => \E i \in Feeding(x) : started'[i] >= 0
      BY <1>1, <1>3, <1>4, <3>1
    <3> QED BY <3>3, <3>4, <3>5
  <2> QED BY <2>2, <2>7, <2>8
<1>8. CASE ~(x # n /\ loc[x] = "idle" /\ loc'[x] = "id26")
  <2>1. counter'[x] = counter[x]
    BY <1>8, BroadcastEffect
  <2>2. skip_v'[x] = skip_v[x]
    BY <1>6, <1>8
  <2>3. Counted(x, S)'
    BY <1>2, <1>5, <2>1, <2>2 DEF Counted
  <2>4. ~skip_v'[x] => \E i \in Feeding(x) : started'[i] >= 0
    BY <1>1, <1>3, <1>4, <2>2
  <2> QED BY <2>3, <2>4
<1> QED BY <1>7, <1>8

\* The silent edges end a Flexible that is past its minimum, and let a Control wait.
LEMMA SilentTallied ==
    ASSUME IInv, Begun, Tallied, NEW n,
           \/ n \in Flexibles /\ FlexibleReachesMax(n)
           \/ n \in Controls /\ ControlWaits(n)
    PROVE  Begun' /\ Tallied'
<1>1. /\ UNCHANGED <<started, counter, skip_v>>
      /\ \A x \in Elements \ {n} : loc'[x] = loc[x]
      /\ n \in Intervals => loc[n] = "semi_flexible" /\ loc'[n] = "id15"
  BY DEF IInv, TypeOK, FlexibleReachesMax, ControlWaits, Intervals, Rigids, Flexibles,
         Controls, OfKind
<1>2. Intervals \subseteq Elements /\ \A x \in Controls : Feeding(x) \subseteq Intervals
  BY DEF Intervals, Rigids, Flexibles, OfKind, Feeding
<1>3. Begun'
  BY <1>1, <1>2 DEF Begun
<1>4. \A i \in Intervals : Past(i) => Past(i)'
  BY <1>1, <1>2 DEF Past
<1>5. ASSUME NEW x \in Controls, NEW S \in SUBSET Feeding(x), Counted(x, S)
      PROVE  Counted(x, S)'
  BY <1>1, <1>2, <1>4, <1>5 DEF Counted
<1>6. Tallied'
  BY <1>1, <1>5 DEF Tallied, Feeding
<1> QED BY <1>3, <1>6

\* The tally is kept whatever is said, in every network that is wired.
LEMMA TallyKept == ASSUME Wired PROVE Spec => [](IInv /\ Begun /\ Tallied)
<1>1. Init => Begun /\ Tallied
  <2> SUFFICES ASSUME Init PROVE Begun /\ Tallied
    OBVIOUS
  <2>1. Begun
    BY DEF Init, Begun, Intervals, Rigids, Flexibles, Events, OfKind
  <2>2. ASSUME NEW x \in Controls
        PROVE  /\ \E S \in SUBSET Feeding(x) : Counted(x, S)
               /\ ~skip_v[x] => \E i \in Feeding(x) : started[i] >= 0
    <3>1. counter[x] = 0 /\ skip_v[x] = TRUE
      BY DEF Init
    <3>2. Counted(x, {})
      BY <3>1, FS_EmptySet DEF Counted
    <3> QED BY <3>1, <3>2
  <2> QED BY <2>1, <2>2 DEF Tallied
<1>2. IInv /\ Begun /\ Tallied /\ [Next]_vars => Begun' /\ Tallied'
  <2> SUFFICES ASSUME IInv, Begun, Tallied, [Next]_vars PROVE Begun' /\ Tallied'
    OBVIOUS
  <2>1. ASSUME NEW n \in Elements, NEW target \in Targets, NEW c, NEW m,
               <<loc[n], c>> \in Outputs(n), Broadcast(n, c, target, m)
        PROVE  Begun' /\ Tallied'
    BY <2>1, IntervalsAfter, BroadcastTallied
  <2>2. CASE UNCHANGED <<loc, started, counter, skip_v>>
    BY <2>2 DEF Begun, Tallied, Counted, Past, Feeding
  <2> QED BY <2>1, <2>2, StepSays, SilentTallied
<1> QED BY <1>1, <1>2, Invariance, PTL DEF Spec

\* A Control passes a skip on only when every interval it waited for was
\* skipped, and does not when one of them was played, in every network that is
\* wired as the converter wires its merges: whatever the order in which the
\* intervals end, are skipped and are killed, in however many cascades.
THEOREM ControlsTellSkipFromPlay == ASSUME Wired PROVE Spec => []ControlTellsSkipFromPlay
<1>1. IInv /\ Tallied => ControlTellsSkipFromPlay
  <2> SUFFICES ASSUME IInv, Tallied, NEW x \in Controls
               PROVE  /\ ~skip_v[x] => \E i \in Feeding(x) : started[i] >= 0
                      /\ loc[x] = "id26" /\ counter[x] = Decl[x].num_prev_rels /\ skip_v[x] =>
                            \A i \in Feeding(x) : started[i] = -1
    BY DEF ControlTellsSkipFromPlay
  <2>1. PICK S \in SUBSET Feeding(x) : Counted(x, S)
    BY DEF Tallied
  <2>2. counter[x] = Decl[x].num_prev_rels => S = Feeding(x)
    BY <2>1, FS_Subset DEF Wired, Counted
  <2> QED BY <2>1, <2>2 DEF Tallied, Counted
<1> QED BY <1>1, TallyKept, PTL
=============================================================================
