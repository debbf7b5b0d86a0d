----------------------------- MODULE TANetwork -----------------------------
(***************************************************************************)
(* The timed automata that model-uppaal.xml.in declares, run in parallel.  *)
(*                                                                         *)
(* TAConversion.cpp writes one instantiation line per element ("name =     *)
(* Rigid(...)") and UPPAAL composes the templates.  Here Decl maps the     *)
(* name of every element to the structure of TAConversion.hpp it was       *)
(* printed from, with a field kind naming its template; the fields keep    *)
(* the names of TAConversion.hpp, with the values that are printed, and    *)
(* the locations those of the templates.                                   *)
(*                                                                         *)
(* Clocks are read as differences with one global date: `started' is the   *)
(* date of the last reset of t that a guard or an invariant still reads.   *)
(* All constants are integers and no guard is strict, so unit delays reach *)
(* every location that dense time reaches.                                 *)
(***************************************************************************)
EXTENDS Naturals, Integers

CONSTANTS
    Decl,      \* element name -> structure printed by TAConversion.cpp
    Horizon    \* bound on time: the date after which runs are not explored

Elements == DOMAIN Decl
OfKind(k) == {n \in Elements : Decl[n].kind = k}

Events    == OfKind("Event")
EventsND  == OfKind("Event_ND")
Rigids    == OfKind("Rigid")
Flexibles == OfKind("Flexible")
Mixs      == OfKind("Mix")
Controls  == OfKind("Control")
Points    == OfKind("Point")
Intervals == Rigids \cup Flexibles
Messages  == {Decl[n].message : n \in Events \cup EventsND}
                 \cup {Decl[p].conditionMessage : p \in Points}

LocationsOf(k) ==
    CASE k = "Event"    -> {"waiting", "finished"}
      [] k = "Event_ND" -> {"idle", "finished"}
      [] k = "Rigid"    -> {"idle", "wait", "id7", "skipped", "killed", "finished"}
      [] k = "Flexible" -> {"idle", "wait_min", "flexible", "semi_flexible",
                            "id15", "skipped", "killed", "finished"}
      [] k = "Mix"      -> {"idle", "id22", "finished"}
      [] k = "Control"  -> {"idle", "id26", "error", "finished"}
      [] k = "Point"    -> {"idle", "enabled", "cond_true", "id28", "timeout",
                            "skipped", "finished"}
      [] OTHER          -> {}

Kinds == {"Event", "Event_ND", "Rigid", "Flexible", "Mix", "Control", "Point"}
AllLocations == UNION {LocationsOf(k) : k \in Kinds}
\* Faulty: the location of the template is not marked committed.
MixNotCommitted ==
    {"skipped", "killed", "id15", "id26", "timeout", "cond_true"}

CommittedLocations ==
    {"skipped", "killed", "id15", "id22", "id26", "timeout", "cond_true"}
UrgentLocations == {"id7", "id28"}

-----------------------------------------------------------------------------
(* What the converter guarantees of the structures it prints.              *)

ASSUME HorizonAssumption == Horizon \in Nat

ASSUME DeclAssumption ==
    /\ \A n \in Elements : Decl[n].kind \in Kinds
    /\ \A n \in Events \cup EventsND : Decl[n].date \in Nat /\ Decl[n].val \in Int
    /\ \A n \in Rigids : Decl[n].dur \in Nat
    /\ \A n \in Flexibles :
          Decl[n].dmin \in Nat /\ Decl[n].dmax \in Nat /\ Decl[n].finite \in BOOLEAN
    /\ \A n \in Controls :
          Decl[n].num_prev_rels \in Nat \ {0} /\ Decl[n].event_s1 # Decl[n].skip_p
    /\ \A n \in Points : Decl[n].urgent \in BOOLEAN

-----------------------------------------------------------------------------
VARIABLES
    loc,       \* location of every element
    started,   \* date at which an interval left idle, -1 before: its clock t is now - started
    counter,   \* Control.counter
    skip_v,    \* Control.skip_v
    en,        \* the bool &en of every Point (TAConversion gives each its own)
    msg,       \* the int &msg of Events and Points
    now        \* date since the network was started

vars == <<loc, started, counter, skip_v, en, msg, now>>

t(i) == now - started[i]

Init ==
    /\ loc = [n \in Elements |-> IF n \in Events THEN "waiting" ELSE "idle"]
    /\ started = [i \in Intervals |-> -1]
    /\ counter = [c \in Controls |-> 0]
    /\ skip_v = [c \in Controls |-> TRUE]
    /\ en = [p \in Points |-> FALSE]
    /\ msg = [m \in Messages |-> 0]
    /\ now = 0

-----------------------------------------------------------------------------
(* Receiving: the edges <<source, channel, target>> of a template that     *)
(* carry a "channel?" label.                                               *)

RigidInputs(e) ==
    {<<"idle", e.event_s, "wait">>, <<"idle", e.skip_p, "skipped">>,
     <<"idle", e.kill_p, "killed">>, <<"wait", e.kill_p, "killed">>}

\* Faulty: the start edge copied from Rigid, and event_i heard too early.
FlexibleStartsAsRigid(e) ==
    {<<"idle", e.event_s, "wait">>, <<"idle", e.skip_p, "skipped">>}
        \cup {<<l, e.event_i, "id15">> : l \in {"flexible", "semi_flexible"}}
FlexibleEndsAnytime(e) ==
    {<<"idle", e.event_s, "wait_min">>, <<"idle", e.skip_p, "skipped">>}
        \cup {<<l, e.event_i, "id15">> : l \in {"wait_min", "flexible", "semi_flexible"}}

FlexibleInputs(e) ==
    {<<"idle", e.event_s, "wait_min">>, <<"idle", e.skip_p, "skipped">>}
        \cup {<<l, e.event_i, "id15">> : l \in {"flexible", "semi_flexible"}}
        \cup {<<l, e.kill_p, "killed">> :
                 l \in {"idle", "wait_min", "flexible", "semi_flexible"}}

MixInputs(e) ==
    {<<"idle", e.event_in, "id22">>, <<"idle", e.skip_p, "finished">>,
     <<"idle", e.kill_p, "finished">>}

ControlInputs(e) ==
    {<<"idle", e.event_s1, "id26">>, <<"idle", e.skip_p, "id26">>,
     <<"idle", e.kill_p, "finished">>, <<"idle", e.event_s2, "error">>}

PointInputs(e, enabled) ==
    {<<"idle", e.event_s, "enabled">>, <<"idle", e.skip_p, "skipped">>,
     <<"idle", e.kill_p, "finished">>, <<"enabled", e.kill_p, "finished">>,
     <<"enabled", e.event_e, IF enabled THEN "timeout" ELSE "skipped">>,
     <<"enabled", e.event, "cond_true">>}

InputsWhen(n, enabled) ==
    CASE n \in Rigids    -> RigidInputs(Decl[n])
      [] n \in Flexibles -> FlexibleInputs(Decl[n])
      [] n \in Mixs      -> MixInputs(Decl[n])
      [] n \in Controls  -> ControlInputs(Decl[n])
      [] n \in Points    -> PointInputs(Decl[n], enabled)
      [] OTHER           -> {}

Inputs(n) == InputsWhen(n, n \in Points /\ en[n])

\* Where element n goes when channel c is emitted by another element.
Edges(n, c) == {r \in Inputs(n) : r[1] = loc[n] /\ r[2] = c}
After(n, c) == IF Edges(n, c) = {} THEN loc[n]
               ELSE (CHOOSE r \in Edges(n, c) : TRUE)[3]

\* Point's condition(): what the message in m is compared with.
Condition(e, m) ==
    LET v == m[e.conditionMessage]
    IN  CASE e.condition = 0 -> TRUE
          [] e.condition = 1 -> v = e.conditionValue
          [] e.condition = 2 -> v < e.conditionValue
          [] e.condition = 3 -> v <= e.conditionValue
          [] e.condition = 4 -> v > e.conditionValue
          [] e.condition = 5 -> v >= e.conditionValue
          [] OTHER           -> FALSE

\* No location of an element listens twice to one channel, so that what an
\* element does when it hears a channel is determined.
ASSUME DistinctInputs ==
    \A n \in Elements, b \in BOOLEAN : \A r, s \in InputsWhen(n, b) :
        r[1] = s[1] /\ r[2] = s[2] => r = s

-----------------------------------------------------------------------------
(* Sending.  While some element is in a committed location only such       *)
(* elements act.  A broadcast moves the sender and every element that is   *)
(* listening, in one step, and is impossible when a listening Point would  *)
(* enter cond_true, whose invariant is cond == true, with a false cond.    *)

Committed == {n \in Elements : loc[n] \in CommittedLocations}
MayAct(n) == Committed # {} => n \in Committed

Counts(x, n, next) == x # n /\ loc[x] = "idle" /\ next[x] = "id26"

\* Faulty: skip_v is cleared by the skips that are counted, too.
SkipClears(n, c, next) ==
    [x \in Controls |-> IF Counts(x, n, next) THEN FALSE ELSE skip_v[x]]

SkipV(n, c, next) ==
    [x \in Controls |->
        IF Counts(x, n, next) /\ c = Decl[x].event_s1 THEN FALSE ELSE skip_v[x]]

\* Faulty: the flag falls when the Point hears its event, not when it tells.
FlagFallsEarly(n, next) ==
    [p \in Points |-> /\ en[p] \/ (loc[p] = "idle" /\ next[p] = "enabled")
                      /\ next[p] # "cond_true"]

Flags(n, next) ==
    [p \in Points |->
        IF p = n THEN (IF loc[n] = "cond_true" THEN FALSE ELSE en[p])
        ELSE en[p] \/ (loc[p] = "idle" /\ next[p] = "enabled")]

Broadcast(n, c, target, m) ==
    LET next == [x \in Elements |-> IF x = n THEN target ELSE After(x, c)]
    IN  /\ MayAct(n)
        /\ \A p \in Points \ {n} :
              loc[p] = "enabled" /\ next[p] = "cond_true" => Condition(Decl[p], m)
        /\ loc' = next
        /\ started' = [i \in Intervals |->
              IF loc[i] = "idle" /\ next[i] \in {"wait", "wait_min"} THEN now ELSE started[i]]
        /\ counter' = [x \in Controls |->
              IF Counts(x, n, next) THEN counter[x] + 1 ELSE counter[x]]
        /\ skip_v' = SkipV(n, c, next)
        /\ en' = Flags(n, next)
        /\ msg' = m
        /\ UNCHANGED now

Send(n, c, target) == Broadcast(n, c, target, msg)

-----------------------------------------------------------------------------
(* One action per emitting or internal edge of the templates.              *)

EventFires(n) ==
    /\ loc[n] = "waiting" /\ now = Decl[n].date
    /\ Broadcast(n, Decl[n].event, "finished", [msg EXCEPT ![Decl[n].message] = Decl[n].val])

EventNDFires(n) ==
    /\ loc[n] = "idle"
    /\ Broadcast(n, Decl[n].event, "finished", [msg EXCEPT ![Decl[n].message] = Decl[n].val])

RigidEnds(n)  == loc[n] = "wait" /\ t(n) = Decl[n].dur /\ Send(n, Decl[n].event_e1, "id7")
RigidSyncs(n) == loc[n] = "id7" /\ Send(n, Decl[n].event_e2, "finished")

IntervalSkips(n) == loc[n] = "skipped" /\ Send(n, Decl[n].skip, "finished")

IntervalKills(n) == loc[n] = "killed" /\ Send(n, Decl[n].kill, "finished")

FlexibleReachesMin(n) ==
    /\ loc[n] = "wait_min" /\ t(n) = Decl[n].dmin
    /\ \/ ~Decl[n].finite /\ Send(n, Decl[n].event_min, "flexible")
       \/ Decl[n].finite /\ t(n) <= Decl[n].dmax /\ Send(n, Decl[n].event_min, "semi_flexible")

\* Faulty: the maximum is reached, and nobody told.
FlexibleNeverEnds(n) ==
    /\ loc[n] = "semi_flexible" /\ t(n) = Decl[n].dmax /\ MayAct(n)
    /\ started' = [started EXCEPT ![n] = now]
    /\ UNCHANGED <<loc, counter, skip_v, en, msg, now>>

FlexibleReachesMax(n) ==
    /\ loc[n] = "semi_flexible" /\ t(n) = Decl[n].dmax
    /\ MayAct(n)
    /\ loc' = [loc EXCEPT ![n] = "id15"]
    /\ UNCHANGED <<started, counter, skip_v, en, msg, now>>

FlexibleEnds(n) == loc[n] = "id15" /\ Send(n, Decl[n].event_max, "finished")

MixForwards(n) == loc[n] = "id22" /\ Send(n, Decl[n].event_out, "finished")

\* Faulty: a Control waits for one interval too many, or for the first only.
ControlWaitsForMore(n) ==
    /\ loc[n] = "id26" /\ counter[n] <= Decl[n].num_prev_rels
    /\ loc' = [loc EXCEPT ![n] = "idle"]
    /\ UNCHANGED <<started, counter, skip_v, en, msg, now>>
ControlReleasesAtOnce(n) ==
    loc[n] = "id26" /\ ~skip_v[n] /\ Send(n, Decl[n].event_e, "finished")

ControlWaits(n) ==
    /\ loc[n] = "id26" /\ counter[n] < Decl[n].num_prev_rels
    /\ loc' = [loc EXCEPT ![n] = "idle"]
    /\ UNCHANGED <<started, counter, skip_v, en, msg, now>>

ControlSkips(n) ==
    /\ loc[n] = "id26" /\ counter[n] = Decl[n].num_prev_rels /\ skip_v[n]
    /\ Send(n, Decl[n].skip, "finished")

ControlReleases(n) ==
    /\ loc[n] = "id26" /\ counter[n] = Decl[n].num_prev_rels /\ ~skip_v[n]
    /\ Send(n, Decl[n].event_e, "finished")

PointTriggers(n) == loc[n] = "cond_true" /\ Send(n, Decl[n].event_t, "id28")
PointSyncs(n)    == loc[n] = "id28" /\ Send(n, Decl[n].event_e, "finished")
PointSkips(n)    == loc[n] = "skipped" /\ Send(n, Decl[n].skip, "finished")

PointTimesOut(n) ==
    /\ loc[n] = "timeout"
    /\ \/ Decl[n].urgent /\ Send(n, Decl[n].event_t, "finished")
       \/ ~Decl[n].urgent /\ Send(n, Decl[n].skip, "finished")

-----------------------------------------------------------------------------
(* Time: no delay in a committed or urgent location, none that breaks the  *)
(* invariant of a location.                                                *)

\* Faulty: the location wait of Rigid without its invariant.
MayDelayPastEnd ==
    /\ \A n \in Elements : loc[n] \notin CommittedLocations \cup UrgentLocations
    /\ \A n \in Events : loc[n] = "waiting" => now < Decl[n].date
    /\ \A n \in Flexibles : /\ loc[n] = "wait_min" => t(n) < Decl[n].dmin
                            /\ loc[n] = "semi_flexible" => t(n) < Decl[n].dmax

MayDelay ==
    /\ \A n \in Elements : loc[n] \notin CommittedLocations \cup UrgentLocations
    /\ \A n \in Events : loc[n] = "waiting" => now < Decl[n].date
    /\ \A n \in Rigids : loc[n] = "wait" => t(n) < Decl[n].dur
    /\ \A n \in Flexibles : /\ loc[n] = "wait_min" => t(n) < Decl[n].dmin
                            /\ loc[n] = "semi_flexible" => t(n) < Decl[n].dmax

Delay ==
    /\ now < Horizon /\ MayDelay
    /\ now' = now + 1
    /\ UNCHANGED <<loc, started, counter, skip_v, en, msg>>

\* Exploration stops at Horizon; a state that can neither act nor delay
\* before that is a timelock of the network, and TLC reports it as a deadlock.
HorizonReached == now = Horizon /\ MayDelay /\ UNCHANGED vars

RigidStep(n)    == RigidEnds(n) \/ RigidSyncs(n) \/ IntervalSkips(n) \/ IntervalKills(n)
FlexibleStep(n) == \/ FlexibleReachesMin(n) \/ FlexibleReachesMax(n) \/ FlexibleEnds(n)
                   \/ IntervalSkips(n) \/ IntervalKills(n)
ControlStep(n)  == ControlWaits(n) \/ ControlSkips(n) \/ ControlReleases(n)
PointStep(n)    == PointTriggers(n) \/ PointSyncs(n) \/ PointSkips(n) \/ PointTimesOut(n)

ElementStep ==
    \/ \E n \in Events : EventFires(n)
    \/ \E n \in EventsND : EventNDFires(n)
    \/ \E n \in Rigids : RigidStep(n)
    \/ \E n \in Flexibles : FlexibleStep(n)
    \/ \E n \in Mixs : MixForwards(n)
    \/ \E n \in Controls : ControlStep(n)
    \/ \E n \in Points : PointStep(n)

Next == ElementStep \/ Delay \/ HorizonReached

Spec == Init /\ [][Next]_vars

\* An observer watches for ever: something happens as long as something can.
FairSpec == Spec /\ WF_vars(ElementStep \/ Delay)

-----------------------------------------------------------------------------
(* Properties of the templates, whatever network they are put in.          *)

TypeOK ==
    /\ loc \in [Elements -> AllLocations]
    /\ \A n \in Elements : loc[n] \in LocationsOf(Decl[n].kind)
    /\ started \in [Intervals -> Int]
    /\ counter \in [Controls -> Nat]
    /\ skip_v \in [Controls -> BOOLEAN]
    /\ en \in [Points -> BOOLEAN]
    /\ msg \in [Messages -> Int]
    /\ now \in 0..Horizon

\* A Control never counts past the number of intervals it waits for, so that
\* one of the three edges that leave its committed location is always enabled
\* (model-uppaal.xml.in:360-423): counter == n is tested, never counter > n.
ControlCounts ==
    \A c \in Controls :
        /\ loc[c] = "idle"  => counter[c] < Decl[c].num_prev_rels
        /\ loc[c] = "id26"  => counter[c] \in 1..Decl[c].num_prev_rels
        /\ loc[c] = "error" => counter[c] < Decl[c].num_prev_rels

\* The clock of a running interval and the clock of an Event respect the
\* invariants of the locations they are in: time never runs past the end of a
\* Rigid, the minimum of a Flexible, a finite maximum, or an event date.
ClocksInBounds ==
    /\ \A n \in Events : loc[n] = "waiting" => now <= Decl[n].date
    /\ \A n \in Intervals : -1 <= started[n] /\ started[n] <= now
    /\ \A n \in Rigids : loc[n] = "wait" => t(n) <= Decl[n].dur
    /\ \A n \in Flexibles :
        /\ loc[n] = "wait_min" => t(n) <= Decl[n].dmin
        /\ loc[n] = "flexible" => ~Decl[n].finite /\ t(n) >= Decl[n].dmin
        /\ loc[n] = "semi_flexible" =>
              Decl[n].finite /\ t(n) >= Decl[n].dmin /\ t(n) <= Decl[n].dmax

\* An enabled Point has its en flag up, and keeps it until it has told the
\* events of its sync: the edge "enabled -> skipped [en == false]"
\* (model-uppaal.xml.in:513-520) can never be taken.
EnabledHasFlag ==
    \A p \in Points : loc[p] \in {"enabled", "cond_true", "timeout"} => en[p]

\* A minimal duration is respected whatever ends an interval: a step that
\* leaves it past its minimum comes at that date or later, except when it is
\* killed or skipped.
MinimumRespected ==
    [][/\ \A n \in Rigids : loc[n] = "wait" /\ loc'[n] = "id7" => t(n) = Decl[n].dur
       /\ \A n \in Flexibles : loc[n] \notin {"id15"} /\ loc'[n] = "id15"
                                  => t(n) >= Decl[n].dmin]_vars

\* What feeds a Control: the intervals whose end it counts.
Feeding(c) ==
    {i \in Rigids : Decl[i].event_e1 = Decl[c].event_s1}
        \cup {i \in Flexibles : Decl[i].event_min = Decl[c].event_s1}

\* A Control passes a skip on only when every interval it waited for was
\* skipped, and does not when one of them was played.
ControlTellsSkipFromPlay ==
    \A c \in Controls :
        /\ ~skip_v[c] => \E i \in Feeding(c) : started[i] >= 0
        /\ loc[c] = "id26" /\ counter[c] = Decl[c].num_prev_rels /\ skip_v[c] =>
              \A i \in Feeding(c) : started[i] = -1
=============================================================================
