--------------------------- MODULE ScoreGenerator ---------------------------
(***************************************************************************)
(* The two menu actions that change a score (ScenarioVisitor.cpp), any     *)
(* number of times, in any order, and ScenarioGenerator.cpp, which they    *)
(* call: generateScenario() makes a score of random shape by N growing     *)
(* steps, N/3 links and N/5 triggers; generateScenarioFromPetriNet() makes *)
(* one transition, as what it does for places is commented out.            *)
(*                                                                         *)
(* The choices of rand() and of random_selector are nondeterministic, and  *)
(* so is which state is the first of a container.                          *)
(* CreateState, CreateInterval, CreateInterval_State_Event_TimeSync and    *)
(* AddTrigger are commands of the score library, modelled by what this     *)
(* code expects of them.  The last but one makes an event and its time     *)
(* sync together, so that they share a number: event k belongs to sync k,  *)
(* and 1 is the event the scenario starts with.  States and intervals are  *)
(* numbered in the order they are made.                                    *)
(***************************************************************************)
EXTENDS Integers, Sequences

CONSTANTS
    Steps,          \* the numbers of growing steps asked for, 300 from the menu
    MaxOffset,      \* 20000: durations are rand() % 20000 msec
    Offsets,        \* the durations rand() may give
    ImportDuration, \* 4000: the duration createTransition asks for
    MaxGrowth       \* a bound on what the user asks for in all

ASSUME GeneratorAssumption ==
    /\ Steps \subseteq Nat
    /\ MaxOffset \in Nat \ {0}
    /\ Offsets \subseteq 0..(MaxOffset - 1)
    /\ ImportDuration \in 0..(MaxOffset - 1)

VARIABLES
    first,    \* the first process of the base interval of the document
    loop,     \* "idle"; which of the loops runs; "import"; or "failed"
    i,        \* its counter
    N,        \* the number of growing steps, of the last generation
    growth,   \* how many intervals with a new sync were asked for so far
    eventOf,  \* state -> event
    date,     \* sync -> msec
    active,   \* sync -> has a trigger
    from, to, \* interval -> state it leaves, state it reaches
    limited   \* the intervals whose minimum and maximum were set

vars == <<first, loop, i, N, growth, eventOf, date, active, from, to, limited>>
score == <<eventOf, date, active, from, to, limited>>
asked == <<first, N, growth>>

States    == DOMAIN eventOf
Events    == DOMAIN date
Intervals == DOMAIN from

\* parentTimeSync(state): the sync of the event of the state.
parentTimeSync(s) == eventOf[s]
hasPrevious(s) == \E c \in Intervals : to[c] = s
hasNext(s)     == \E c \in Intervals : from[c] = s

\* The scenario before: its start sync and start event.
Init ==
    /\ first \in {"no document", "no process", "scenario", "automation"}
    /\ loop = "idle" /\ i = 0 /\ N = 0 /\ growth = 0
    /\ eventOf = <<>> /\ date = <<0>> /\ active = <<FALSE>>
    /\ from = <<>> /\ to = <<>> /\ limited = {}

Enter(next) == loop' = next /\ i' = 0 /\ UNCHANGED asked
Iterate == i' = i + 1 /\ UNCHANGED <<loop, asked>>

\* CreateState; and CreateInterval_State_Event_TimeSync, d after its start.
CreateState(e) ==
    /\ eventOf' = Append(eventOf, e)
    /\ UNCHANGED <<date, active, from, to, limited>>

\* Faulty: the end state is numbered past the last, or the duration is one
\* longer than asked for.
CreateMisnumbered(s, d) ==
    /\ date' = Append(date, date[parentTimeSync(s)] + d)
    /\ active' = Append(active, FALSE)
    /\ eventOf' = Append(eventOf, Len(date) + 1)
    /\ from' = Append(from, s)
    /\ to' = Append(to, Len(eventOf) + 2)
    /\ UNCHANGED limited
CreateTooLong(s, d) ==
    /\ date' = Append(date, date[parentTimeSync(s)] + d + 1)
    /\ active' = Append(active, FALSE)
    /\ eventOf' = Append(eventOf, Len(date) + 1)
    /\ from' = Append(from, s)
    /\ to' = Append(to, Len(eventOf) + 1)
    /\ UNCHANGED limited

CreateInterval(s, d) ==
    /\ date' = Append(date, date[parentTimeSync(s)] + d)
    /\ active' = Append(active, FALSE)
    /\ eventOf' = Append(eventOf, Len(date) + 1)
    /\ from' = Append(from, s)
    /\ to' = Append(to, Len(eventOf) + 1)
    /\ UNCHANGED limited

-----------------------------------------------------------------------------
(* The menu.  Both actions return unless the document has a first process  *)
(* that is a scenario.                                                     *)

Ask(next, g) ==
    /\ loop = "idle" /\ first = "scenario"
    /\ growth + g <= MaxGrowth
    /\ growth' = growth + g
    /\ loop' = next /\ i' = 0
    /\ UNCHANGED <<first, score>>

Generate(n) == Ask("create", n) /\ N' = n

\* The file is read; when it is empty nothing is done.  The first state is
\* that of a container that may be empty.
Import == States # {} /\ Ask("import", 1) /\ UNCHANGED N
ImportFails == States = {} /\ Ask("failed", 1) /\ UNCHANGED N

\* createTransition: createInterval, on the event of the first state, s.
ImportState(s) ==
    /\ loop = "import" /\ i = 0
    /\ CreateState(eventOf[s])
    /\ Iterate

ImportInterval ==
    /\ loop = "import" /\ i = 1
    /\ CreateInterval(Len(eventOf), ImportDuration)
    /\ Iterate

\* createTrigger, on what was just created.
ImportTrigger ==
    /\ loop = "import" /\ i = 2
    /\ active' = [active EXCEPT ![Len(date)] = TRUE]
    /\ limited' = limited \cup {Len(from)}
    /\ Enter("idle")
    /\ UNCHANGED <<eventOf, date, from, to>>

-----------------------------------------------------------------------------
(* generateScenario: the first state.                                      *)

CreateFirstState ==
    /\ loop = "create"
    /\ CreateState(1)
    /\ Enter("grow")

-----------------------------------------------------------------------------
(* for(int i = 0; i < N; i++)                                              *)

Growing == loop = "grow" /\ i < N

\* case 0, from a state that has no next interval.
GrowInterval(s, d) ==
    /\ Growing /\ ~hasNext(s)
    /\ CreateInterval(s, d)
    /\ Iterate

\* case 0, when the selected state already has one.
GrowNothing(s) ==
    /\ Growing /\ hasNext(s)
    /\ Iterate
    /\ UNCHANGED score

\* Faulty: the new state gets an event and a sync of its own.
GrowStateAlone(e) ==
    /\ Growing
    /\ date' = Append(date, date[e])
    /\ active' = Append(active, FALSE)
    /\ eventOf' = Append(eventOf, Len(date) + 1)
    /\ Iterate
    /\ UNCHANGED <<from, to, limited>>

\* case 1: one more state on some event.
GrowState(e) ==
    /\ Growing
    /\ CreateState(e)
    /\ Iterate

EndGrow == loop = "grow" /\ i >= N /\ Enter("link") /\ UNCHANGED score

-----------------------------------------------------------------------------
(* for(int i = 0; i < N / 3; i++)                                          *)

Linking == loop = "link" /\ i < N \div 3

\* Faulty: dates compared the wrong way, or without < ; the next interval of
\* the state a link leaves not looked at.
Later(s1, s2) == date[parentTimeSync(s1)] > date[parentTimeSync(s2)]
NotLater(s1, s2) == date[parentTimeSync(s1)] <= date[parentTimeSync(s2)]

Earlier(s1, s2) == date[parentTimeSync(s1)] < date[parentTimeSync(s2)]
LinkableTwice(s1, s2) == Earlier(s1, s2) /\ ~hasPrevious(s2)

Linkable(s1, s2) == Earlier(s1, s2) /\ ~hasPrevious(s2) /\ ~hasNext(s1)

\* state1 and state2 are selected; the interval goes from the earlier to the
\* later, whichever was selected first.
Link(s1, s2) ==
    /\ Linking /\ Linkable(s1, s2)
    /\ from' = Append(from, s1)
    /\ to' = Append(to, s2)
    /\ Iterate
    /\ UNCHANGED <<eventOf, date, active, limited>>

LinkNothing(s1, s2) ==
    /\ Linking /\ ~Linkable(s1, s2) /\ ~Linkable(s2, s1)
    /\ Iterate
    /\ UNCHANGED score

EndLink == loop = "link" /\ i >= N \div 3 /\ Enter("trigger") /\ UNCHANGED score

-----------------------------------------------------------------------------
(* for(auto i = 0; i < N / 5; i++)                                         *)

Triggering == loop = "trigger" /\ i < N \div 5

\* A sync that has a trigger is left alone ("continue").
Trigger(s) ==
    /\ Triggering
    /\ active' = [active EXCEPT ![parentTimeSync(s)] = TRUE]
    /\ Iterate
    /\ UNCHANGED <<eventOf, date, from, to, limited>>

EndTrigger == loop = "trigger" /\ i >= N \div 5 /\ Enter("idle") /\ UNCHANGED score

-----------------------------------------------------------------------------
Step ==
    \/ \E n \in Steps : Generate(n)
    \/ Import \/ ImportFails
    \/ \E s \in States : ImportState(s)
    \/ ImportInterval \/ ImportTrigger
    \/ CreateFirstState
    \/ \E s \in States, d \in Offsets : GrowInterval(s, d)
    \/ \E s \in States : GrowNothing(s)
    \/ \E e \in Events : GrowState(e)
    \/ EndGrow
    \/ \E s1, s2 \in States : Link(s1, s2)
    \/ \E s1, s2 \in States : LinkNothing(s1, s2)
    \/ EndLink
    \/ \E s \in States : Trigger(s)
    \/ EndTrigger

Next == Step \/ (loop \in {"idle", "failed"} /\ UNCHANGED vars)

Spec == Init /\ [][Next]_vars

-----------------------------------------------------------------------------
StartSyncOf(c) == parentTimeSync(from[c])
EndSyncOf(c)   == parentTimeSync(to[c])

TypeOK ==
    /\ loop \in {"idle", "create", "grow", "link", "trigger", "import", "failed"}
    /\ i \in Nat /\ N \in Nat /\ growth \in Nat
    /\ date \in Seq(Nat) /\ Len(date) >= 1
    /\ active \in Seq(BOOLEAN) /\ Len(active) = Len(date)
    /\ eventOf \in Seq(1..Len(date))
    /\ from \in Seq(1..Len(eventOf))
    /\ to \in Seq(1..Len(eventOf)) /\ Len(to) = Len(from)
    /\ loop \in {"grow", "link", "trigger"} => Len(eventOf) >= 1
    /\ limited \subseteq 1..Len(from)

\* A state is left by at most one interval and reached by at most one: what
\* StateModel::nextInterval and previousInterval can hold, since the guards of
\* lines 468, 498 and 503 run before each command.
StatesSingle ==
    \A c, d \in Intervals : c # d => from[c] # from[d] /\ to[c] # to[d]

\* The start sync keeps date 0 and no interval ever ends on it, while every
\* other sync has one that does: the SCORE_ABORT of TAConversion.cpp:431 and
\* the other users of startTimeSync can rely on it, for links as for growth.
StartIsFirst ==
    /\ date[1] = 0
    /\ \A c \in Intervals : EndSyncOf(c) # 1

OthersReached == \A k \in Events \ {1} : \E c \in Intervals : EndSyncOf(c) = k

\* No interval goes back in time, and the score has no cycle, though growth
\* may give a duration of zero: an interval ends later than it starts, or at
\* the same date on a sync made after the one it starts on.
Forward ==
    \A c \in Intervals :
        \/ date[StartSyncOf(c)] < date[EndSyncOf(c)]
        \/ date[StartSyncOf(c)] = date[EndSyncOf(c)] /\ StartSyncOf(c) < EndSyncOf(c)

\* Dates stay within what the durations asked for add up to, links
\* notwithstanding: for one generation, with the 300 steps ScenarioVisitor.cpp
\* asks for, the dates TAConversion prints, divided by 100, are only known to
\* be below 60000, while the division is there "because uppaal numbers don't go
\* over 32768" (TAConversion.cpp:16-17).
DatesBounded == \A k \in Events : date[k] <= growth * (MaxOffset - 1)
=============================================================================
