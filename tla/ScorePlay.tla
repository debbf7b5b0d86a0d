------------------------------ MODULE ScorePlay ------------------------------
(***************************************************************************)
(* What playing a score means, without channels, points or controls: the   *)
(* meaning of intervals and syncs that visit(TimeSyncModel),               *)
(* visit(EventModel) and visit(IntervalModel) of TAConversion.cpp encode.  *)
(*                                                                         *)
(* An interval waits, runs, is past its minimum, and is over.  The         *)
(* intervals that leave an event start together, when every interval that  *)
(* reaches the sync of that event is past its minimum.  All the scenarios  *)
(* that one interval holds may be stopped as a whole.                      *)
(***************************************************************************)
EXTENDS Integers

CONSTANTS
    Parts,      \* the intervals of the score
    Cues,       \* its events
    StartsOn,   \* part -> the cue it starts on
    Before,     \* cue -> the parts that must be past their minimum
    Holder,     \* cue -> the part that holds the scenario, when the cue opens it
    Level,      \* part -> what holds its scenario, that is stopped whole
    Min, Max    \* part -> durations; Max is -1 when there is none

VARIABLES phase, since, date

playVars == <<phase, since, date>>

PlayInit ==
    /\ phase = [i \in Parts |-> "waiting"]
    /\ since = [i \in Parts |-> -1]
    /\ date = 0

Start(c) ==
    LET first == {i \in Parts : StartsOn[i] = c}
    IN  /\ first # {}
        /\ \A i \in first : phase[i] = "waiting"
        /\ \A i \in Before[c] : phase[i] \in {"past", "over"}
        /\ \A i \in Holder[c] : phase[i] # "waiting"
        /\ phase' = [i \in Parts |-> IF i \in first THEN "running" ELSE phase[i]]
        /\ since' = [i \in Parts |-> IF i \in first THEN date ELSE since[i]]
        /\ UNCHANGED date

Reach(i) ==
    /\ phase[i] = "running" /\ date - since[i] >= Min[i]
    /\ phase' = [phase EXCEPT ![i] = "past"]
    /\ UNCHANGED <<since, date>>

End(i) ==
    /\ phase[i] = "past"
    /\ phase' = [phase EXCEPT ![i] = "over"]
    /\ UNCHANGED <<since, date>>

\* Nothing that s holds goes on but what was about to end by itself.
Stop(s) ==
    \E ending \in SUBSET {i \in Parts : Level[i] = s /\ phase[i] = "past"} :
        /\ phase' = [i \in Parts |->
              IF Level[i] = s /\ i \notin ending THEN "over" ELSE phase[i]]
        /\ UNCHANGED <<since, date>>

Tick ==
    /\ \A i \in Parts :
          phase[i] \in {"running", "past"} /\ Max[i] # -1 => date - since[i] < Max[i]
    /\ date' = date + 1
    /\ UNCHANGED <<phase, since>>

PlayNext ==
    \/ \E c \in Cues : Start(c)
    \/ \E i \in Parts : Reach(i) \/ End(i)
    \/ \E i \in Parts : Stop(Level[i])
    \/ Tick

PlaySpec == PlayInit /\ [][PlayNext]_playVars
=============================================================================
