-------------------------- MODULE DeviceStatistics --------------------------
(***************************************************************************)
(* Statistics.hpp: what DeviceStatistics counts in the tree of a device.   *)
(* A device has a root, the children of each node and, for each, the type  *)
(* of its value, "NONE" where it has none, its access mode, and how many   *)
(* values it is a list of, all of them floats or not.  An address has an   *)
(* access mode: SCORE_ASSERT(addr.ioType) (207) is left out.  So is the    *)
(* average of the extended attributes, which is never shown.               *)
(***************************************************************************)
EXTENDS Integers, FiniteSets, FiniteSetsExt, Bags

\* A tree: the root is nobody's child, other nodes are one node's, and within the root.
DeviceOK(d) ==
    LET nodes == DOMAIN d.children
    IN  /\ IsFiniteSet(nodes) /\ d.root \in nodes
        /\ d.children \in [nodes -> SUBSET (nodes \ {d.root})]
        /\ \A n \in nodes \ {d.root} : \E m \in nodes :
              \A k \in nodes : n \in d.children[k] <=> k = m
        /\ \A S \in SUBSET (nodes \ {d.root}) :
              S # {} => \E n \in S : \A m \in S : n \notin d.children[m]
        /\ d.floats \in [nodes -> BOOLEAN] /\ d.size \in [nodes -> Nat]

\* Faulty: the root is one of the nodes an average is over.
AverageWithRoot(sum, n) == [sum |-> sum, over |-> n + 1]

\* An average, as the sum and what it is divided by.  A double is: that of
\* nothing, 0 / 0, is printed "nan".
Average(sum, n) == [sum |-> sum, over |-> n]

One(x) == SetToBag({x})
Copies(x, bag) == IF BagIn(x, bag) THEN bag[x] ELSE 0

FloatTuple(size) == IF size \in 1..4 THEN <<"float tuples", size>> ELSE <<"float tuples", "N">>

\* f(node), at the depth it is visited.
OfNode(d, node, cur_depth) ==
    LET children == Cardinality(d.children[node])
        type     == d.type[node]
    IN  [nodes |-> 1,
         non_leaf_nodes |-> IF children > 0 THEN 1 ELSE 0,
         max_depth |-> cur_depth,
         max_child_count |-> children,
         avg_child_count |-> children,
         avg_non_leaf_child_count |-> children,
         types |-> One(IF type = "NONE" THEN "containers" ELSE type),
         access |-> IF type = "NONE" THEN EmptyBag ELSE One(d.access[node]),
         max_tuple_size |-> IF type = "LIST" THEN d.size[node] ELSE 0,
         avg_tuple_size |-> IF type = "LIST" THEN d.size[node] ELSE 0,
         tuples |-> IF type = "LIST" /\ d.floats[node] THEN One(FloatTuple(d.size[node]))
                    ELSE EmptyBag]

NoNode == [nodes |-> 0, non_leaf_nodes |-> 0, max_depth |-> 0, max_child_count |-> 0,
           avg_child_count |-> 0, avg_non_leaf_child_count |-> 0,
           types |-> EmptyBag, access |-> EmptyBag,
           max_tuple_size |-> 0, avg_tuple_size |-> 0, tuples |-> EmptyBag]

Together(a, b) ==
    [k \in DOMAIN a |->
        CASE k \in {"max_depth", "max_child_count", "max_tuple_size"} -> Max({a[k], b[k]})
          [] k \in {"types", "access", "tuples"} -> a[k] (+) b[k]
          [] OTHER -> a[k] + b[k]]

\* What visit finds in some nodes at a depth, added to what was there.
AllOf(visit, before, nodes, depth) ==
    FoldSet(LAMBDA node, all : Together(all, visit[<<node, depth>>]), before, nodes)

\* The children of the root are visited, and theirs one level deeper.
Statistics(d) ==
    \* a node, and cur_depth
    LET visit[at \in (DOMAIN d.children) \X Nat] ==
            AllOf(visit, OfNode(d, at[1], at[2]), d.children[at[1]], at[2] + 1)
        sums == AllOf(visit, NoNode, d.children[d.root], 1)
    IN  [sums EXCEPT !.avg_child_count = Average(@, sums.nodes),
                     !.avg_non_leaf_child_count = Average(@, sums.non_leaf_nodes),
                     !.avg_tuple_size = Average(@, Copies("LIST", sums.types))]
=============================================================================
