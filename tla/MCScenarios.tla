---------------------------- MODULE MCScenarios ----------------------------
(***************************************************************************)
(* Small scenarios for the visitors of ScenarioMetrics.cpp.                *)
(***************************************************************************)
EXTENDS CyclomaticVisitor

\* Interval k goes from the first sync of edges[k] to the second.  Sync n has
\* the event 10 + n, and 15 + n, with a condition, where n is in cond: what
\* leaves the sync leaves it from there.
Graph(syncs, edges, active, cond) ==
    LET ks     == DOMAIN edges
        starts == {30 + k : k \in ks}
        ends   == {40 + k : k \in ks}
        leaves(n) == IF n \in cond THEN 15 + n ELSE 10 + n
    IN  [intervals |-> {20 + k : k \in ks},
         states |-> starts \cup ends,
         events |-> {10 + n : n \in syncs} \cup {15 + n : n \in cond},
         syncs |-> syncs,
         startState |-> [i \in {20 + k : k \in ks} |-> i + 10],
         endState |-> [i \in {20 + k : k \in ks} |-> i + 20],
         eventOf |-> [x \in starts \cup ends |->
                         IF x \in starts THEN leaves(edges[x - 30][1])
                         ELSE 10 + edges[x - 40][2]],
         syncOf |-> [e \in {10 + n : n \in syncs} \cup {15 + n : n \in cond} |->
                         IF e > 15 THEN e - 15 ELSE e - 10],
         active |-> active, conditioned |-> {15 + n : n \in cond}]

Chain    == <<<<2, 1>>, <<1, 3>>>>
Diamond  == <<<<1, 2>>, <<1, 3>>, <<2, 4>>, <<3, 4>>>>
Backward == <<<<4, 2>>, <<4, 1>>, <<4, 3>>, <<3, 1>>>>
Doubled  == <<<<1, 2>>, <<1, 2>>, <<2, 3>>>>
Apart    == <<<<1, 2>>, <<4, 3>>>>

Varied ==
    {Graph(1..4, e, a, c) : e \in {Chain, Diamond, Backward, Doubled, Apart},
                            a \in {{}, {1}, {3}, {1, 3}, {2, 4}}, c \in {{}, {1}, {3}}}
=============================================================================
