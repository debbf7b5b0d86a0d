------------------------------ MODULE MCScores ------------------------------
(***************************************************************************)
(* Small scores for TLC.  Durations are multiples of the division factor   *)
(* of the code, 100 msec, so that a tick is one unit of the model.         *)
(***************************************************************************)
EXTENDS ScoreNetwork, TLC

\* An interval from event f to event g.
Fixed(f, g, d) == [from |-> f, to |-> g, min |-> d, dur |-> d, max |-> d,
                   rigid |-> TRUE, infinite |-> FALSE]
Between(f, g, lo, hi) == [from |-> f, to |-> g, min |-> lo, dur |-> hi, max |-> hi,
                          rigid |-> FALSE, infinite |-> FALSE]
AtLeast(f, g, lo) == [from |-> f, to |-> g, min |-> lo, dur |-> lo, max |-> 0,
                      rigid |-> FALSE, infinite |-> TRUE]

\* scen: scenario -> [parent, start]; sync: sync -> [scen, date, active];
\* ev: event -> sync; iv: interval -> one of the above; cond: expressions.
MakeScore(scen, sync, ev, iv, cond) ==
    [root |-> "C0",
     scenarios |-> DOMAIN scen,
     parent |-> [s \in DOMAIN scen |-> scen[s].parent],
     startSync |-> [s \in DOMAIN scen |-> scen[s].start],
     syncs |-> DOMAIN sync,
     scenarioOf |-> [x \in DOMAIN sync |-> sync[x].scen],
     date |-> [x \in DOMAIN sync |-> sync[x].date],
     active |-> [x \in DOMAIN sync |-> sync[x].active],
     events |-> DOMAIN ev, syncOf |-> ev,
     intervals |-> DOMAIN iv,
     startEvent |-> [i \in DOMAIN iv |-> iv[i].from],
     endEvent |-> [i \in DOMAIN iv |-> iv[i].to],
     min |-> [i \in DOMAIN iv |-> iv[i].min],
     dur |-> [i \in DOMAIN iv |-> iv[i].dur],
     max |-> [i \in DOMAIN iv |-> iv[i].max],
     rigid |-> [i \in DOMAIN iv |-> iv[i].rigid],
     infinite |-> [i \in DOMAIN iv |-> iv[i].infinite],
     expression |-> cond]

Sync(s, d) == [scen |-> s, date |-> d, active |-> FALSE]
Trigger(s, d) == [scen |-> s, date |-> d, active |-> TRUE]
NoConditions == [x \in {} |-> 0]
TopLevel == "S1" :> [parent |-> "C0", start |-> "T0"]

\* No trigger: a chain, a fork, and two branches that meet again, one of them
\* in two intervals (the first sync with a Control), beside a conditioned event;
\* then three intervals of which two lose half a tick each.
Rigidity ==
    MakeScore(TopLevel,
        "T0" :> Sync("S1", 0) @@ "T1" :> Sync("S1", 100) @@ "T2" :> Sync("S1", 300)
            @@ "T3" :> Sync("S1", 450) @@ "T4" :> Sync("S1", 200) @@ "T5" :> Sync("S1", 600)
            @@ "T6" :> Sync("S1", 700),
        "E0" :> "T0" @@ "E1" :> "T1" @@ "E2" :> "T2" @@ "E3" :> "T3" @@ "E4" :> "T4"
            @@ "E5" :> "T1" @@ "E6" :> "T5" @@ "E7" :> "T6",
        "C1" :> Fixed("E0", "E1", 100) @@ "C2" :> Fixed("E1", "E2", 200)
            @@ "C3" :> Fixed("E0", "E2", 300) @@ "C4" :> Fixed("E2", "E3", 150)
            @@ "C5" :> Fixed("E5", "E4", 100) @@ "C6" :> Fixed("E3", "E6", 150)
            @@ "C7" :> Fixed("E6", "E7", 100),
        "E5" :> [op |-> "EQUAL", value |-> 100])

\* A trigger, then an interval that holds a scenario, with a trigger of its own;
\* beside them another interval, and a trigger where it meets the holder.  What is
\* held lasts no longer than the holder at least does.
Interactive ==
    MakeScore("S1" :> [parent |-> "C0", start |-> "T0"]
            @@ "S2" :> [parent |-> "C1", start |-> "T2"],
        "T0" :> Sync("S1", 0) @@ "T6" :> Trigger("S1", 100) @@ "T1" :> Trigger("S1", 300)
            @@ "T5" :> Sync("S1", 400)
            @@ "T2" :> Sync("S2", 0) @@ "T3" :> Trigger("S2", 100) @@ "T4" :> Sync("S2", 200),
        "E0" :> "T0" @@ "E6" :> "T6" @@ "E1" :> "T1" @@ "E5" :> "T5"
            @@ "E2" :> "T2" @@ "E3" :> "T3" @@ "E4" :> "T4",
        "C5" :> AtLeast("E0", "E6", 100) @@ "C1" :> AtLeast("E6", "E1", 200)
            @@ "C7" :> AtLeast("E0", "E1", 200) @@ "C4" :> Fixed("E1", "E5", 100)
            @@ "C2" :> Between("E2", "E3", 0, 100) @@ "C3" :> Fixed("E3", "E4", 100),
        NoConditions)

\* Triggers after an interval with a maximum: every interval ends some day.
Bounded ==
    MakeScore(TopLevel,
        "T0" :> Sync("S1", 0) @@ "T1" :> Trigger("S1", 200) @@ "T2" :> Trigger("S1", 400)
            @@ "T3" :> Sync("S1", 500) @@ "T4" :> Trigger("S1", 200),
        "E0" :> "T0" @@ "E1" :> "T1" @@ "E2" :> "T2" @@ "E3" :> "T3" @@ "E4" :> "T4",
        "C1" :> Between("E0", "E1", 100, 300) @@ "C2" :> Between("E1", "E2", 100, 200)
            @@ "C3" :> Fixed("E2", "E3", 100) @@ "C4" :> Between("E0", "E4", 0, 200),
        NoConditions)

\* Two branches of one length that meet: all a consistent score can ask for.
Merge ==
    MakeScore(TopLevel,
        "T0" :> Sync("S1", 0) @@ "T1" :> Sync("S1", 200) @@ "T2" :> Sync("S1", 300),
        "E0" :> "T0" @@ "E1" :> "T1" @@ "E2" :> "T2",
        "C1" :> Fixed("E0", "E1", 200) @@ "C2" :> Fixed("E0", "E1", 200)
            @@ "C3" :> Fixed("E1", "E2", 100),
        NoConditions)

\* Two flexible branches that meet on a trigger.
TriggeredMerge ==
    MakeScore(TopLevel,
        "T0" :> Sync("S1", 0) @@ "T1" :> Trigger("S1", 200) @@ "T2" :> Sync("S1", 300),
        "E0" :> "T0" @@ "E1" :> "T1" @@ "E2" :> "T2",
        "C1" :> Between("E0", "E1", 100, 100) @@ "C2" :> Between("E0", "E1", 200, 300)
            @@ "C3" :> Fixed("E1", "E2", 100),
        NoConditions)

\* A trigger on the condition that a message is lower than 50.
Conditioned ==
    MakeScore(TopLevel,
        "T0" :> Sync("S1", 0) @@ "T1" :> Trigger("S1", 200),
        "E0" :> "T0" @@ "E1" :> "T1",
        "C1" :> Between("E0", "E1", 100, 300),
        "T1" :> [op |-> "LOWER", value |-> 50])
=============================================================================
