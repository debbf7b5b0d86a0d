----------------------------- MODULE ReactiveIS -----------------------------
(***************************************************************************)
(* ReactiveIS.cpp: the structures that generateReactiveIS() prints for the *)
(* base interval of a score, one within the other as the intervals are.    *)
(* Only intervals are visited: the visits of syncs, events and states are  *)
(* commented out, and what automations print has no time.                  *)
(***************************************************************************)
EXTENDS TAConversion

\* Faulty: the wait is as long as the interval lasts at least.
WaitNominal(j) == [start |-> j, min |-> Score.min[j], max |-> Score.min[j]]

\* wait(start(j), min, max).  A maximum that is infinite is printed as whatever
\* int its msec() is converted to; Score.max has some number there.
Wait(j) == [start |-> j, min |-> Score.min[j], max |-> Score.max[j]]

\* "Condition: all previous intervals finished".  The base interval is not
\* that of a scenario process, and is always to start.
StartWhen(i) ==
    IF i = Score.root THEN {} ELSE {Wait(j) : j \in Previous(StartSync(i))}

\* visitProcesses, and visit of a scenario.
Content(i) == {j \in Score.intervals : Score.parent[ScenarioOfInterval(j)] = i}

Structure(i) == [name |-> i, start_when |-> StartWhen(i), stop_when |-> TRUE,
                 content |-> Content(i)]

Structures == {Structure(i) : i \in Score.intervals \cup {Score.root}}
=============================================================================
