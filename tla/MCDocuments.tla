---------------------------- MODULE MCDocuments ----------------------------
(***************************************************************************)
(* Small documents for the visitors: scenarios within scenarios, whose     *)
(* objects have the same ids.                                              *)
(***************************************************************************)
EXTENDS ScoreVisitors

\* edges[p][k]: interval k of scenario p goes from the first sync to the second;
\* sync 0 is where p starts.  It leaves and reaches states of its own, and has a
\* fixed duration unless it is flexible.
Document(kind, holder, id, edges, flexible, conditioned, triggered, devices) ==
    LET ps      == DOMAIN edges
        ends(p) == UNION {{edges[p][k][1], edges[p][k][2]} : k \in DOMAIN edges[p]}
        syncs   == UNION {{<<"timeSync", p, n>> : n \in {0} \cup ends(p)} : p \in ps}
        itvs    == UNION {{<<"interval", p, k>> : k \in DOMAIN edges[p]} : p \in ps}
        states  == {<<"state", c[2], 2 * c[3]>> : c \in itvs}
                      \cup {<<"state", c[2], 2 * c[3] + 1>> : c \in itvs}
        evs     == {<<"event", tn[2], tn[3]>> : tn \in syncs}
    IN  [kind |-> kind, holder |-> holder, id |-> id, first |-> 1,
         objects |-> syncs \cup itvs \cup states \cup evs,
         startState |-> [c \in itvs |-> <<"state", c[2], 2 * c[3]>>],
         endState |-> [c \in itvs |-> <<"state", c[2], 2 * c[3] + 1>>],
         eventOf |-> [st \in states |->
             <<"event", st[2], edges[st[2]][st[3] \div 2][1 + (st[3] % 2)]>>],
         syncOf |-> [ev \in evs |-> <<"timeSync", ev[2], ev[3]>>],
         start |-> [p \in ps |-> <<"event", p, 0>>],
         rigid |-> itvs \ flexible, conditioned |-> conditioned, triggered |-> triggered, devices |-> devices]

\* The children of node k, of a tree whose root is 1; nodes have values of the
\* given types, and lists are of two floats.
Device(children, type) ==
    [root |-> 1, children |-> children, type |-> type,
     access |-> [n \in DOMAIN children |-> IF n % 2 = 0 THEN "BI" ELSE "GET"],
     size |-> [n \in DOMAIN children |-> 2], floats |-> [n \in DOMAIN children |-> TRUE]]

\* An empty device, a flat one, and one of three levels.
Devices ==
    {Device(<<{}>>, <<"NONE">>), Device(<<{2, 3}, {}, {}>>, <<"NONE", "INT", "LIST">>),
     Device(<<{2, 3}, {4, 5}, {}, {6}, {}, {}>>,
            <<"NONE", "NONE", "FLOAT", "NONE", "LIST", "IMPULSE">>)}

C(p, k) == <<"interval", p, k>>
Single == <<<<0, 1>>>>
Two == <<<<0, 1>>, <<1, 2>>>>

\* A chain with a trigger and a condition; two intervals hold an automation
\* and a script.
Flat ==
    Document(<<"scenario", "automation", "script">>, <<Base, C(1, 1), C(1, 2)>>, <<1, 1, 1>>,
             [p \in {1} |-> Two], {C(1, 2)}, {<<"event", 1, 1>>}, {<<"timeSync", 1, 2>>}, Devices)

\* A scenario in each of two intervals, one beside an automation, and another
\* within one of these.
Within ==
    Document(<<"scenario", "scenario", "scenario", "automation", "scenario">>,
             <<Base, C(1, 1), C(1, 2), C(1, 2), C(2, 1)>>, <<1, 1, 2, 3, 1>>,
             [p \in {1, 2, 3, 5} |-> IF p = 1 THEN Two ELSE Single],
             {C(1, 1), C(5, 1)}, {<<"event", 2, 0>>}, {<<"timeSync", 1, 1>>, <<"timeSync", 5, 1>>}, {})

\* Two scenarios in one interval, three processes in the base interval.
Beside ==
    Document(<<"scenario", "scenario", "mapping", "scenario", "scenario">>,
             <<Base, Base, Base, C(1, 1), C(1, 1)>>, <<1, 2, 3, 1, 2>>,
             [p \in {1, 2, 4, 5} |-> IF p = 5 THEN <<>> ELSE Single],
             {C(4, 1)}, {}, {<<"timeSync", 4, 1>>}, {})

Documents == {Flat, Within, Beside}
=============================================================================
