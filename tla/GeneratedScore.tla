--------------------------- MODULE GeneratedScore ---------------------------
(***************************************************************************)
(* The converter applied to what the menu actions make: at every moment    *)
(* the document is one that TAConversion can print.                        *)
(***************************************************************************)
EXTENDS ScoreGenerator, FiniteSets

CONSTANTS ImportMin, ImportMax    \* t_min and t_max, 3000 and 5000

ASSUME ImportAssumption == ImportMin \in Nat /\ ImportMax \in Nat /\ ImportMin <= ImportMax

Sync(k) == <<"T", k>>
Event(k) == <<"E", k>>
Interval(c) == <<"C", c>>
Root == Interval(0)

Syncs == {Sync(k) : k \in Events}
Durations == [x \in {Interval(c) : c \in Intervals} |->
                 date[EndSyncOf(x[2])] - date[StartSyncOf(x[2])]]

\* The document.  AddTrigger lets the intervals that end on the sync last
\* longer or less long than drawn; the others are rigid.  SetMinDuration and
\* SetMaxDuration bound the one that was imported.
MadeScore ==
    LET cs == {Interval(c) : c \in Intervals}
        flexible(x) == active[EndSyncOf(x[2])]
        bounded(x) == x[2] \in limited
    IN  [root |-> Root, scenarios |-> {"S1"}, parent |-> [s \in {"S1"} |-> Root],
         startSync |-> [s \in {"S1"} |-> Sync(1)],
         syncs |-> Syncs, scenarioOf |-> [x \in Syncs |-> "S1"],
         date |-> [x \in Syncs |-> date[x[2]]],
         active |-> [x \in Syncs |-> active[x[2]]],
         events |-> {Event(k) : k \in Events},
         syncOf |-> [x \in {Event(k) : k \in Events} |-> Sync(x[2])],
         intervals |-> cs,
         startEvent |-> [x \in cs |-> Event(StartSyncOf(x[2]))],
         endEvent |-> [x \in cs |-> Event(EndSyncOf(x[2]))],
         min |-> [x \in cs |-> CASE bounded(x) -> ImportMin
                                 [] flexible(x) /\ ~bounded(x) -> 0
                                 [] OTHER -> Durations[x]],
         dur |-> Durations,
         max |-> [x \in cs |-> IF bounded(x) THEN ImportMax ELSE Durations[x]],
         rigid |-> [x \in cs |-> ~flexible(x)],
         infinite |-> [x \in cs |-> flexible(x) /\ ~bounded(x)],
         expression |-> [x \in {} |-> 0]]

TA(document) == INSTANCE TAConversion WITH
    Score <- document, DivisionFactor <- 100, EndDate <- 18000

\* The document, at every moment that an undo may bring back, is one the
\* converter can work on: its scenarios are well formed and no minimum exceeds its
\* maximum (ScoreAssumption).  The conversion never aborts (SCORE_ABORT,
\* TAConversion.cpp:431), and every channel of the network is declared, whatever
\* the mix of start syncs, single predecessors and merges that generations and
\* imports leave.
GeneratedConverts ==
    LET made == MadeScore
    IN  TA(made)!ScoreAssumption /\ TA(made)!Convertible /\ TA(made)!ChannelsDeclared
=============================================================================
