------------------------ MODULE ScoreGeneratorProofs ------------------------
(***************************************************************************)
(* Proofs about the score that generations and imports make, for every     *)
(* number of steps, every set of durations, and any sequence of them.      *)
(***************************************************************************)
EXTENDS GeneratedScore, FiniteSetTheorems, SequenceTheorems, TLAPS

\* What Append does to a sequence, element by element.
LEMMA AppendFacts ==
    ASSUME NEW S, NEW s \in Seq(S), NEW e \in S
    PROVE  /\ Append(s, e) \in Seq(S)
           /\ Len(Append(s, e)) = Len(s) + 1
           /\ DOMAIN s = 1..Len(s)
           /\ DOMAIN Append(s, e) = 1..(Len(s) + 1)
           /\ \A k \in 1..Len(s) : Append(s, e)[k] = s[k]
           /\ Append(s, e)[Len(s) + 1] = e
           /\ Len(s) \in Nat
OBVIOUS

\* The elements of a sequence over S are in S.
LEMMA ItemOfSeq ==
    ASSUME NEW S, NEW s \in Seq(S), NEW k \in 1..Len(s)
    PROVE  s[k] \in S
OBVIOUS

\* A sequence over S is one over any larger set: the numbers of states and of
\* syncs only grow.
LEMMA SeqWider ==
    ASSUME NEW S, NEW T, S \subseteq T, NEW s \in Seq(S)
    PROVE  s \in Seq(T)
<1>1. s \in [1..Len(s) -> S] /\ Len(s) \in Nat
  OBVIOUS
<1>2. s \in [1..Len(s) -> T]
  BY <1>1
<1> QED BY <1>1, <1>2, SeqDef

\* The part of TypeOK that is about the score.
ScoreTypeOK ==
    /\ date \in Seq(Nat) /\ Len(date) >= 1
    /\ active \in Seq(BOOLEAN) /\ Len(active) = Len(date)
    /\ eventOf \in Seq(1..Len(date))
    /\ from \in Seq(1..Len(eventOf))
    /\ to \in Seq(1..Len(eventOf)) /\ Len(to) = Len(from)
    /\ limited \subseteq 1..Len(from)

\* Each new sync adds at most the longest duration.
Lasting(n) == n * (MaxOffset - 1)
DatesByLength == \A k \in Events : date[k] <= Lasting(Len(date) - 1)

ScoreInv ==
    /\ ScoreTypeOK /\ StatesSingle /\ StartIsFirst /\ OthersReached /\ Forward
    /\ DatesByLength

\* The part of TypeOK that is about the action under way.
ControlTypeOK ==
    /\ loop \in {"idle", "create", "grow", "link", "trigger", "import", "failed"}
    /\ i \in Nat /\ N \in Nat /\ growth \in Nat
    /\ loop \in {"grow", "link", "trigger"} => Len(eventOf) >= 1

\* The syncs there are, and those that are still to come, were asked for.
SyncsBounded ==
    /\ Len(date) - 1 <= growth
    /\ loop = "create" => Len(date) - 1 + N <= growth
    /\ loop = "grow" => i <= N /\ Len(date) - 1 + (N - i) <= growth
    /\ loop = "import" /\ i < 2 => Len(date) <= growth

\* What an import goes on from: a state that no interval leaves, then the
\* interval it has made.
ImportUnderWay ==
    /\ loop = "import" /\ i = 1 =>
          Len(eventOf) >= 1 /\ \A c \in Intervals : from[c] # Len(eventOf)
    /\ loop = "import" /\ i = 2 => Len(from) >= 1

Control == ControlTypeOK /\ SyncsBounded /\ ImportUnderWay

IInv == ScoreInv /\ Control

\* The shape of the score that ScoreTypeOK gives: every number in it names a thing.
LEMMA Domains ==
    ASSUME ScoreTypeOK
    PROVE  /\ States = 1..Len(eventOf) /\ Events = 1..Len(date)
           /\ Intervals = 1..Len(from) /\ DOMAIN to = Intervals /\ DOMAIN active = Events
           /\ Len(date) \in Nat /\ Len(from) \in Nat /\ Len(eventOf) \in Nat
           /\ \A s \in States : parentTimeSync(s) \in Events
           /\ \A c \in Intervals : from[c] \in States /\ to[c] \in States
           /\ \A k \in Events : date[k] \in Nat
<1> USE DEF ScoreTypeOK, States, Events, Intervals
<1>1. States = 1..Len(eventOf) /\ Events = 1..Len(date) /\ Intervals = 1..Len(from)
  OBVIOUS
<1>2. DOMAIN to = Intervals /\ DOMAIN active = Events
  OBVIOUS
<1>3. Len(date) \in Nat /\ Len(from) \in Nat /\ Len(eventOf) \in Nat
  OBVIOUS
<1>4. \A s \in 1..Len(eventOf) : eventOf[s] \in 1..Len(date)
  OBVIOUS
<1>5. \A c \in 1..Len(from) : from[c] \in 1..Len(eventOf)
  BY ItemOfSeq
<1>5a. \A c \in 1..Len(to) : to[c] \in 1..Len(eventOf)
  BY ItemOfSeq
<1>5b. Len(to) = Len(from)
  OBVIOUS
<1>6. \A k \in 1..Len(date) : date[k] \in Nat
  OBVIOUS
<1> HIDE DEF ScoreTypeOK, States, Events, Intervals
<1> QED BY <1>1, <1>2, <1>3, <1>4, <1>5, <1>5a, <1>5b, <1>6 DEF parentTimeSync

\* The scenario before anything is asked for satisfies the invariant.
LEMMA InitInv == Init => IInv
<1> SUFFICES ASSUME Init PROVE IInv
  OBVIOUS
<1>1. /\ date = <<0>> /\ active = <<FALSE>> /\ eventOf = <<>> /\ from = <<>> /\ to = <<>>
      /\ limited = {} /\ loop = "idle" /\ i = 0 /\ N = 0 /\ growth = 0
  BY DEF Init
<1>2. Len(date) = 1 /\ DOMAIN date = {1} /\ date[1] = 0 /\ DOMAIN from = {}
  BY <1>1
<1>3. ScoreTypeOK
  BY <1>1 DEF ScoreTypeOK
<1>4. StatesSingle /\ StartIsFirst /\ OthersReached /\ Forward
  BY <1>2 DEF StatesSingle, StartIsFirst, OthersReached, Forward, Intervals, Events
<1>5. DatesByLength
  BY <1>2, GeneratorAssumption DEF DatesByLength, Events, Lasting
<1>6. Control
  BY <1>1, <1>2 DEF Control, ControlTypeOK, SyncsBounded, ImportUnderWay
<1> QED BY <1>3, <1>4, <1>5, <1>6 DEF IInv, ScoreInv

\* A step that leaves the score as it is.
LEMMA NothingKeeps ==
    ASSUME ScoreInv, UNCHANGED score
    PROVE  ScoreInv' /\ Len(date') = Len(date) /\ Len(eventOf') = Len(eventOf)
BY DEF ScoreInv, ScoreTypeOK, StatesSingle, StartIsFirst, OthersReached, Forward,
       DatesByLength, Intervals, Events, StartSyncOf, EndSyncOf, parentTimeSync, score

\* A new interval (lines 184-189 and 475) ends on a new sync, not earlier than
\* its start, which was left by no other.
LEMMA CreateIntervalKeeps ==
    ASSUME ScoreInv, NEW s \in States, NEW d \in 0..(MaxOffset - 1), ~hasNext(s),
           CreateInterval(s, d)
    PROVE  /\ ScoreInv'
           /\ Len(date') = Len(date) + 1 /\ Len(eventOf') = Len(eventOf) + 1
           /\ Len(from') >= 1
<1>a. PICK L, K, C, D : /\ L = Len(date) /\ K = Len(eventOf) /\ C = Len(from)
                        /\ D = date[parentTimeSync(s)] + d
  OBVIOUS
<1>0. /\ States = 1..K /\ Events = 1..L /\ Intervals = 1..C
      /\ L \in Nat /\ K \in Nat /\ C \in Nat /\ L >= 1
      /\ \A x \in States : parentTimeSync(x) \in Events /\ eventOf[x] \in 1..L
      /\ \A c \in Intervals : from[c] \in States /\ to[c] \in States
      /\ \A k \in Events : date[k] \in Nat
      /\ DOMAIN to = Intervals
  BY <1>a, Domains DEF ScoreInv, ScoreTypeOK, parentTimeSync
<1>1. d \in Nat /\ d <= MaxOffset - 1 /\ MaxOffset - 1 \in Nat
  BY GeneratorAssumption
<1>2. D \in Nat /\ D >= date[parentTimeSync(s)]
  BY <1>a, <1>0, <1>1
<1>3. /\ date' = Append(date, D) /\ active' = Append(active, FALSE)
      /\ eventOf' = Append(eventOf, L + 1)
      /\ from' = Append(from, s) /\ to' = Append(to, K + 1)
      /\ limited' = limited
  BY <1>a DEF CreateInterval
<1>4. /\ date' \in Seq(Nat) /\ Len(date') = L + 1 /\ Events' = 1..(L + 1)
      /\ \A k \in 1..L : date'[k] = date[k]
      /\ date'[L + 1] = D
  BY <1>a, <1>2, <1>3, AppendFacts DEF ScoreInv, ScoreTypeOK, Events
<1>5. /\ eventOf' \in Seq(1..(L + 1)) /\ Len(eventOf') = K + 1
      /\ \A x \in 1..K : eventOf'[x] = eventOf[x]
      /\ eventOf'[K + 1] = L + 1
  <2>1. eventOf \in Seq(1..(L + 1)) /\ L + 1 \in 1..(L + 1)
    <3>1. 1..L \subseteq 1..(L + 1) /\ L + 1 \in 1..(L + 1)
      BY <1>0
    <3>2. eventOf \in Seq(1..L)
      BY <1>a DEF ScoreInv, ScoreTypeOK
    <3> QED BY <3>1, <3>2, SeqWider
  <2> QED BY <1>a, <1>3, <2>1, AppendFacts
<1>6. /\ from' \in Seq(1..(K + 1)) /\ Len(from') = C + 1 /\ Intervals' = 1..(C + 1)
      /\ \A c \in 1..C : from'[c] = from[c]
      /\ from'[C + 1] = s
  <2>1. from \in Seq(1..(K + 1)) /\ s \in 1..(K + 1)
    <3>1. 1..K \subseteq 1..(K + 1) /\ s \in 1..(K + 1)
      BY <1>0
    <3>2. from \in Seq(1..K)
      BY <1>a DEF ScoreInv, ScoreTypeOK
    <3> QED BY <3>1, <3>2, SeqWider
  <2> QED BY <1>a, <1>3, <2>1, AppendFacts DEF Intervals
<1>7. /\ to' \in Seq(1..(K + 1)) /\ Len(to') = C + 1
      /\ \A c \in 1..C : to'[c] = to[c]
      /\ to'[C + 1] = K + 1
  <2>1. to \in Seq(1..(K + 1)) /\ K + 1 \in 1..(K + 1) /\ Len(to) = C
    <3>1. 1..K \subseteq 1..(K + 1) /\ K + 1 \in 1..(K + 1)
      BY <1>0
    <3>2. to \in Seq(1..K) /\ Len(to) = C
      BY <1>a DEF ScoreInv, ScoreTypeOK
    <3> QED BY <3>1, <3>2, SeqWider
  <2> QED BY <1>a, <1>3, <2>1, AppendFacts
<1>8. /\ \A c \in 1..C : /\ (StartSyncOf(c))' = StartSyncOf(c)
                         /\ (EndSyncOf(c))' = EndSyncOf(c)
                         /\ StartSyncOf(c) \in 1..L /\ EndSyncOf(c) \in 1..L
      /\ (StartSyncOf(C + 1))' = parentTimeSync(s)
      /\ (EndSyncOf(C + 1))' = L + 1
  BY <1>0, <1>5, <1>6, <1>7 DEF StartSyncOf, EndSyncOf, parentTimeSync
<1>9. ScoreTypeOK'
  <2>1. active' \in Seq(BOOLEAN) /\ Len(active') = L + 1
    BY <1>a, <1>3, AppendFacts DEF ScoreInv, ScoreTypeOK
  <2>2. limited' \subseteq 1..(C + 1)
    BY <1>a, <1>0, <1>3 DEF ScoreInv, ScoreTypeOK
  <2> QED BY <1>0, <1>4, <1>5, <1>6, <1>7, <2>1, <2>2 DEF ScoreTypeOK
<1>10. StatesSingle'
  <2>1. \A c \in 1..C : from[c] # s
    BY <1>0 DEF hasNext
  <2>2. \A c \in 1..C : to[c] # K + 1
    BY <1>0
  <2> SUFFICES ASSUME NEW c \in Intervals', NEW e \in Intervals', c # e
               PROVE  from'[c] # from'[e] /\ to'[c] # to'[e]
    BY DEF StatesSingle
  <2>3. c \in 1..C \/ c = C + 1
    BY <1>0, <1>6
  <2>4. e \in 1..C \/ e = C + 1
    BY <1>0, <1>6
  <2> QED BY <1>0, <1>6, <1>7, <2>1, <2>2, <2>3, <2>4 DEF ScoreInv, StatesSingle
<1>11. StartIsFirst'
  <2>1. date'[1] = 0
    BY <1>0, <1>4 DEF ScoreInv, StartIsFirst
  <2>2. \A c \in 1..C : (EndSyncOf(c))' # 1
    BY <1>0, <1>8 DEF ScoreInv, StartIsFirst
  <2>3. (EndSyncOf(C + 1))' # 1
    BY <1>0, <1>8
  <2>4. ASSUME NEW c \in Intervals' PROVE (EndSyncOf(c))' # 1
    <3>1. c \in 1..C \/ c = C + 1
      BY <1>0, <1>6
    <3> QED BY <2>2, <2>3, <3>1
  <2> QED BY <2>1, <2>4 DEF StartIsFirst
<1>12. OthersReached'
  <2> SUFFICES ASSUME NEW k \in Events' \ {1}
               PROVE  \E c \in Intervals' : (EndSyncOf(c))' = k
    BY DEF OthersReached
  <2>1. CASE k = L + 1
    BY <1>0, <1>6, <1>8, <2>1
  <2>2. CASE k \in 1..L
    <3>1. PICK c \in Intervals : EndSyncOf(c) = k
      BY <1>0, <2>2 DEF ScoreInv, OthersReached
    <3>2. c \in Intervals' /\ (EndSyncOf(c))' = k
      BY <1>0, <1>6, <1>8, <3>1
    <3> QED BY <3>2
  <2> QED BY <1>0, <1>4, <2>1, <2>2
<1>13. Forward'
  <2> SUFFICES ASSUME NEW c \in Intervals'
               PROVE  \/ date'[(StartSyncOf(c))'] < date'[(EndSyncOf(c))']
                      \/ /\ date'[(StartSyncOf(c))'] = date'[(EndSyncOf(c))']
                         /\ (StartSyncOf(c))' < (EndSyncOf(c))'
    BY DEF Forward
  <2>1. CASE c \in 1..C
    BY <1>0, <1>4, <1>8, <2>1 DEF ScoreInv, Forward
  <2>2. CASE c = C + 1
    <3>1. parentTimeSync(s) \in 1..L
      BY <1>0
    <3> QED BY <1>0, <1>2, <1>4, <1>8, <2>2, <3>1
  <2> QED BY <1>0, <1>6, <2>1, <2>2
<1>15. DatesByLength'
  <2>1. /\ Lasting(L) = Lasting(L - 1) + (MaxOffset - 1)
        /\ Lasting(L - 1) \in Int /\ Lasting(L) \in Int
    BY <1>0, <1>1 DEF Lasting
  <2>2. \A k \in 1..L : date[k] <= Lasting(L - 1) /\ date[k] \in Nat
    BY <1>a, <1>0 DEF ScoreInv, DatesByLength
  <2>3. \A k \in 1..L : date'[k] <= Lasting(L)
    BY <1>1, <1>4, <2>1, <2>2
  <2>4. date'[L + 1] <= Lasting(L)
    <3>1. date'[L + 1] = date[parentTimeSync(s)] + d
      BY <1>a, <1>4
    <3>2. date[parentTimeSync(s)] \in Nat /\ date[parentTimeSync(s)] <= Lasting(L - 1)
      BY <1>0, <2>2
    <3> QED BY ONLY <1>1, <2>1, <3>1, <3>2
  <2> SUFFICES ASSUME NEW k \in Events' PROVE date'[k] <= Lasting(Len(date') - 1)
    BY DEF DatesByLength
  <2>5. Len(date') - 1 = L /\ (k \in 1..L \/ k = L + 1)
    BY <1>0, <1>4
  <2> QED BY <2>3, <2>4, <2>5
<1> QED BY <1>a, <1>0, <1>4, <1>5, <1>6, <1>9, <1>10, <1>11, <1>12, <1>13, <1>15 DEF ScoreInv

\* A new state (lines 175, 455 and 480) changes no interval and no sync.
LEMMA CreateStateKeeps ==
    ASSUME ScoreInv, NEW e \in Events, CreateState(e)
    PROVE  /\ ScoreInv'
           /\ Len(date') = Len(date) /\ Len(eventOf') = Len(eventOf) + 1
           /\ \A c \in Intervals' : from'[c] # Len(eventOf')
<1>a. PICK L, K, C : L = Len(date) /\ K = Len(eventOf) /\ C = Len(from)
  OBVIOUS
<1>0. /\ States = 1..K /\ Events = 1..L /\ Intervals = 1..C
      /\ L \in Nat /\ K \in Nat /\ C \in Nat
      /\ \A c \in Intervals : from[c] \in States /\ to[c] \in States
  BY <1>a, Domains DEF ScoreInv
<1>1. /\ eventOf' = Append(eventOf, e) /\ UNCHANGED <<date, active, from, to, limited>>
  BY DEF CreateState
<1>2. /\ eventOf' \in Seq(1..L) /\ Len(eventOf') = K + 1
      /\ \A x \in 1..K : eventOf'[x] = eventOf[x]
  <2>1. eventOf \in Seq(1..L) /\ Len(eventOf) = K /\ e \in 1..L
    BY <1>a, <1>0 DEF ScoreInv, ScoreTypeOK
  <2> QED BY <1>1, <2>1, AppendFacts
<1>3. Intervals' = Intervals /\ Events' = Events
  BY <1>1 DEF Intervals, Events
<1>4. \A c \in Intervals : (StartSyncOf(c))' = StartSyncOf(c) /\ (EndSyncOf(c))' = EndSyncOf(c)
  BY <1>0, <1>1, <1>2 DEF StartSyncOf, EndSyncOf, parentTimeSync
<1>5. ScoreTypeOK'
  <2>1. 1..K \subseteq 1..(K + 1)
    BY <1>0
  <2>2. from \in Seq(1..(K + 1)) /\ to \in Seq(1..(K + 1))
    <3>1. from \in Seq(1..K) /\ to \in Seq(1..K)
      BY <1>a DEF ScoreInv, ScoreTypeOK
    <3> QED BY <2>1, <3>1, SeqWider
  <2> QED BY <1>a, <1>0, <1>1, <1>2, <2>2 DEF ScoreInv, ScoreTypeOK
<1>6. StatesSingle'
  BY <1>1, <1>3 DEF ScoreInv, StatesSingle
<1>7. StartIsFirst' /\ OthersReached'
  BY <1>1, <1>3, <1>4 DEF ScoreInv, StartIsFirst, OthersReached
<1>8. Forward'
  BY <1>1, <1>3, <1>4 DEF ScoreInv, Forward
<1>9. DatesByLength'
  BY <1>1, <1>3 DEF ScoreInv, DatesByLength
<1> QED BY <1>a, <1>0, <1>1, <1>2, <1>3, <1>5, <1>6, <1>7, <1>8, <1>9 DEF ScoreInv

\* A link (lines 488-506) joins two states that had no interval on those
\* sides, and goes to the later of the two, so never to the start.
LEMMA LinkKeeps ==
    ASSUME ScoreInv, NEW s1 \in States, NEW s2 \in States, Link(s1, s2)
    PROVE  ScoreInv' /\ Len(date') = Len(date) /\ Len(eventOf') = Len(eventOf)
<1>a. PICK L, K, C : L = Len(date) /\ K = Len(eventOf) /\ C = Len(from)
  OBVIOUS
<1>0. /\ States = 1..K /\ Events = 1..L /\ Intervals = 1..C
      /\ L \in Nat /\ K \in Nat /\ C \in Nat /\ L >= 1
      /\ \A x \in States : parentTimeSync(x) \in Events
      /\ \A c \in Intervals : from[c] \in States /\ to[c] \in States
      /\ \A k \in Events : date[k] \in Nat
      /\ DOMAIN to = Intervals
  BY <1>a, Domains DEF ScoreInv, ScoreTypeOK
<1>1. /\ from' = Append(from, s1) /\ to' = Append(to, s2)
      /\ UNCHANGED <<eventOf, date, active, limited>>
      /\ date[parentTimeSync(s1)] < date[parentTimeSync(s2)]
      /\ ~hasPrevious(s2) /\ ~hasNext(s1)
  BY DEF Link, Linkable, Earlier
<1>2. /\ from' \in Seq(1..K) /\ Len(from') = C + 1 /\ Intervals' = 1..(C + 1)
      /\ \A c \in 1..C : from'[c] = from[c]
      /\ from'[C + 1] = s1
  BY <1>a, <1>0, <1>1, AppendFacts DEF ScoreInv, ScoreTypeOK, Intervals
<1>3. /\ to' \in Seq(1..K) /\ Len(to') = C + 1
      /\ \A c \in 1..C : to'[c] = to[c]
      /\ to'[C + 1] = s2
  <2>1. to \in Seq(1..K) /\ Len(to) = C /\ s2 \in 1..K
    BY <1>a, <1>0 DEF ScoreInv, ScoreTypeOK
  <2> QED BY <1>1, <2>1, AppendFacts
<1>4. /\ \A c \in 1..C : /\ (StartSyncOf(c))' = StartSyncOf(c)
                         /\ (EndSyncOf(c))' = EndSyncOf(c)
      /\ (StartSyncOf(C + 1))' = parentTimeSync(s1)
      /\ (EndSyncOf(C + 1))' = parentTimeSync(s2)
  BY <1>0, <1>1, <1>2, <1>3 DEF StartSyncOf, EndSyncOf, parentTimeSync
<1>5. Events' = Events /\ date' = date
  BY <1>1 DEF Events
<1>6. ScoreTypeOK'
  BY <1>a, <1>0, <1>1, <1>2, <1>3 DEF ScoreInv, ScoreTypeOK
<1>7. StatesSingle'
  <2>1. \A c \in 1..C : from[c] # s1 /\ to[c] # s2
    BY <1>0, <1>1 DEF hasNext, hasPrevious
  <2> SUFFICES ASSUME NEW c \in Intervals', NEW e \in Intervals', c # e
               PROVE  from'[c] # from'[e] /\ to'[c] # to'[e]
    BY DEF StatesSingle
  <2>2. (c \in 1..C \/ c = C + 1) /\ (e \in 1..C \/ e = C + 1)
    BY <1>0, <1>2
  <2> QED BY <1>0, <1>2, <1>3, <2>1, <2>2 DEF ScoreInv, StatesSingle
<1>8. StartIsFirst'
  <2>1. parentTimeSync(s2) # 1
    BY <1>0, <1>1 DEF ScoreInv, StartIsFirst
  <2>2. ASSUME NEW c \in Intervals' PROVE (EndSyncOf(c))' # 1
    <3>1. c \in 1..C \/ c = C + 1
      BY <1>0, <1>2
    <3> QED BY <1>0, <1>4, <2>1, <3>1 DEF ScoreInv, StartIsFirst
  <2> QED BY <1>5, <2>2 DEF ScoreInv, StartIsFirst
<1>9. OthersReached'
  <2> SUFFICES ASSUME NEW k \in Events \ {1}
               PROVE  \E c \in Intervals' : (EndSyncOf(c))' = k
    BY <1>5 DEF OthersReached
  <2>1. PICK c \in Intervals : EndSyncOf(c) = k
    BY DEF ScoreInv, OthersReached
  <2> QED BY <1>0, <1>2, <1>4, <2>1
<1>10. Forward'
  <2> SUFFICES ASSUME NEW c \in Intervals'
               PROVE  \/ date[(StartSyncOf(c))'] < date[(EndSyncOf(c))']
                      \/ /\ date[(StartSyncOf(c))'] = date[(EndSyncOf(c))']
                         /\ (StartSyncOf(c))' < (EndSyncOf(c))'
    BY <1>5 DEF Forward
  <2>1. c \in 1..C \/ c = C + 1
    BY <1>0, <1>2
  <2> QED BY <1>0, <1>1, <1>4, <2>1 DEF ScoreInv, Forward
<1>11. DatesByLength'
  BY <1>1, <1>5 DEF ScoreInv, DatesByLength
<1> QED BY <1>1, <1>6, <1>7, <1>8, <1>9, <1>10, <1>11 DEF ScoreInv

\* A trigger (lines 199-214 and 507-515) touches the flag of one sync, and what
\* is known of intervals that exist.
LEMMA TriggerKeeps ==
    ASSUME ScoreInv, NEW k \in Events, active' = [active EXCEPT ![k] = TRUE],
           limited' \subseteq 1..Len(from), UNCHANGED <<eventOf, date, from, to>>
    PROVE  ScoreInv' /\ Len(date') = Len(date) /\ Len(eventOf') = Len(eventOf)
<1>1. active' \in Seq(BOOLEAN) /\ Len(active') = Len(active)
  <2>1. active \in Seq(BOOLEAN) /\ k \in 1..Len(active)
    BY Domains DEF ScoreInv, ScoreTypeOK
  <2>2. TRUE \in BOOLEAN
    OBVIOUS
  <2> QED BY <2>1, <2>2, ExceptSeq
<1>2. ScoreTypeOK'
  BY <1>1 DEF ScoreInv, ScoreTypeOK
<1>3. StatesSingle' /\ StartIsFirst' /\ OthersReached' /\ Forward' /\ DatesByLength'
  BY DEF ScoreInv, StatesSingle, StartIsFirst, OthersReached, Forward, DatesByLength,
         Intervals, Events, StartSyncOf, EndSyncOf, parentTimeSync
<1> QED BY <1>2, <1>3 DEF ScoreInv

-----------------------------------------------------------------------------
\* The steps of the menu: what is asked for is added to what may come.
LEMMA AskKeeps ==
    ASSUME IInv, NEW next \in {"create", "import", "failed"}, NEW g \in Nat, Ask(next, g),
           N' \in Nat, next = "create" => g = N', next = "import" => g = 1
    PROVE  IInv'
<1>1. /\ loop' = next /\ i' = 0 /\ growth' = growth + g /\ UNCHANGED score
      /\ growth \in Nat /\ Len(date) - 1 <= growth
  BY DEF Ask, IInv, Control, ControlTypeOK, SyncsBounded
<1>2. ScoreInv' /\ Len(date') = Len(date) /\ Len(date) \in Nat
  BY <1>1, NothingKeeps, Domains DEF IInv, ScoreInv
<1>3. ControlTypeOK' /\ ImportUnderWay'
  BY <1>1 DEF ControlTypeOK, ImportUnderWay
<1>4. SyncsBounded'
  BY <1>1, <1>2 DEF SyncsBounded
<1> QED BY <1>2, <1>3, <1>4 DEF IInv, Control

\* The three commands of an import.
LEMMA ImportKeeps ==
    ASSUME IInv, (\E s \in States : ImportState(s)) \/ ImportInterval \/ ImportTrigger
    PROVE  IInv'
<1> USE DEF Iterate, Enter, asked
<1>0. /\ ScoreInv /\ i \in Nat /\ N \in Nat /\ growth \in Nat
      /\ Len(date) \in Nat /\ Len(eventOf) \in Nat /\ Len(from) \in Nat
      /\ States = 1..Len(eventOf) /\ Events = 1..Len(date) /\ Intervals = 1..Len(from)
      /\ Len(date) >= 1
  BY Domains DEF IInv, ScoreInv, ScoreTypeOK, Control, ControlTypeOK
<1>1. ASSUME NEW s \in States, ImportState(s) PROVE IInv'
  <2>1. /\ loop = "import" /\ i = 0 /\ loop' = "import" /\ i' = 1
        /\ N' = N /\ growth' = growth /\ CreateState(eventOf[s])
    BY <1>1 DEF ImportState
  <2>2. eventOf[s] \in Events
    BY <1>0, Domains DEF ScoreInv, parentTimeSync
  <2>3. /\ ScoreInv' /\ Len(date') = Len(date) /\ Len(eventOf') = Len(eventOf) + 1
        /\ \A c \in Intervals' : from'[c] # Len(eventOf')
    BY <1>0, <2>1, <2>2, CreateStateKeeps
  <2>4. Control'
    BY <1>0, <2>1, <2>3 DEF IInv, Control, ControlTypeOK, SyncsBounded, ImportUnderWay
  <2> QED BY <2>3, <2>4 DEF IInv
<1>2. CASE ImportInterval
  <2>1. /\ loop = "import" /\ i = 1 /\ loop' = "import" /\ i' = 2
        /\ N' = N /\ growth' = growth /\ CreateInterval(Len(eventOf), ImportDuration)
    BY <1>2 DEF ImportInterval
  <2>2. Len(eventOf) \in States /\ ~hasNext(Len(eventOf))
    BY <1>0, <2>1 DEF IInv, Control, ImportUnderWay, hasNext
  <2>3. /\ ScoreInv' /\ Len(date') = Len(date) + 1 /\ Len(eventOf') = Len(eventOf) + 1
        /\ Len(from') >= 1
    BY <1>0, <2>1, <2>2, CreateIntervalKeeps, GeneratorAssumption
  <2>4. Control'
    BY <1>0, <2>1, <2>3 DEF IInv, Control, ControlTypeOK, SyncsBounded, ImportUnderWay
  <2> QED BY <2>3, <2>4 DEF IInv
<1>3. CASE ImportTrigger
  <2>1. /\ loop = "import" /\ i = 2 /\ loop' = "idle" /\ i' = 0
        /\ N' = N /\ growth' = growth
        /\ active' = [active EXCEPT ![Len(date)] = TRUE]
        /\ limited' = limited \cup {Len(from)}
        /\ UNCHANGED <<eventOf, date, from, to>>
    BY <1>3 DEF ImportTrigger
  <2>2. Len(date) \in Events /\ limited' \subseteq 1..Len(from)
    <3>1. limited \subseteq 1..Len(from)
      BY <1>0 DEF ScoreInv, ScoreTypeOK
    <3>2. Len(from) \in 1..Len(from)
      BY <1>0, <2>1 DEF IInv, Control, ImportUnderWay
    <3>3. limited' = limited \cup {Len(from)}
      BY <2>1
    <3>4. limited' \subseteq 1..Len(from)
      BY ONLY <3>1, <3>2, <3>3
    <3>5. Len(date) \in Events
      BY <1>0
    <3> QED BY <3>4, <3>5
  <2>3. ScoreInv' /\ Len(date') = Len(date) /\ Len(eventOf') = Len(eventOf)
    BY <1>0, <2>1, <2>2, TriggerKeeps
  <2>4. Control'
    BY <1>0, <2>1, <2>3 DEF IInv, Control, ControlTypeOK, SyncsBounded, ImportUnderWay
  <2> QED BY <2>3, <2>4 DEF IInv
<1> QED BY <1>1, <1>2, <1>3

\* The steps of a generation, by what they do to the score and to the loops.
LEMMA GenerationKeeps ==
    ASSUME IInv, ScoreInv', N' = N, growth' = growth, i' \in Nat,
           loop \in {"create", "grow", "link", "trigger"},
           loop' \in {"grow", "link", "trigger", "idle"},
           loop' = "grow" => /\ Len(eventOf') >= 1
                             /\ \/ loop = "create" /\ i' = 0 /\ Len(date') = Len(date)
                                \/ /\ loop = "grow" /\ i < N /\ i' = i + 1
                                   /\ Len(date') \in {Len(date), Len(date) + 1},
           loop' # "grow" => /\ Len(date') = Len(date) /\ Len(eventOf') = Len(eventOf)
                             /\ loop # "create"
    PROVE  IInv'
<1>1. i \in Nat /\ N \in Nat /\ growth \in Nat /\ Len(date) \in Nat
  BY Domains DEF IInv, ScoreInv, Control, ControlTypeOK
<1>2. ControlTypeOK'
  BY <1>1 DEF IInv, Control, ControlTypeOK
<1>3. SyncsBounded'
  BY <1>1 DEF IInv, Control, SyncsBounded
<1>4. ImportUnderWay'
  BY DEF ImportUnderWay
<1> QED BY <1>2, <1>3, <1>4 DEF IInv, Control

\* Every step, and the stutter, keeps the invariant.
LEMMA NextInv == IInv /\ [Next]_vars => IInv'
<1> SUFFICES ASSUME IInv, [Next]_vars PROVE IInv'
  OBVIOUS
<1> USE DEF Iterate, Enter, asked
<1>0. /\ ScoreInv /\ i \in Nat /\ N \in Nat /\ Events = 1..Len(date) /\ Len(date) >= 1
      /\ Len(date) \in Nat /\ Len(eventOf) \in Nat
      /\ \A s \in States : parentTimeSync(s) \in Events
  BY Domains DEF IInv, ScoreInv, ScoreTypeOK, Control, ControlTypeOK
<1>1. ASSUME NEW n \in Steps, Generate(n) PROVE IInv'
  <2>1. n \in Nat
    BY GeneratorAssumption
  <2> QED BY <1>1, <2>1, AskKeeps DEF Generate
<1>2. CASE Import
  BY <1>0, <1>2, AskKeeps DEF Import
<1>3. CASE ImportFails
  BY <1>0, <1>3, AskKeeps DEF ImportFails
<1>4. CASE (\E s \in States : ImportState(s)) \/ ImportInterval \/ ImportTrigger
  BY <1>4, ImportKeeps
<1>5. CASE CreateFirstState
  <2>1. ScoreInv' /\ Len(date') = Len(date) /\ Len(eventOf') = Len(eventOf) + 1
    BY <1>0, <1>5, CreateStateKeeps DEF CreateFirstState
  <2> QED BY <1>0, <1>5, <2>1, GenerationKeeps DEF CreateFirstState
<1>6. ASSUME NEW s \in States, NEW d \in Offsets, GrowInterval(s, d) PROVE IInv'
  <2>1. d \in 0..(MaxOffset - 1)
    BY GeneratorAssumption
  <2>2. ScoreInv' /\ Len(date') = Len(date) + 1 /\ Len(eventOf') = Len(eventOf) + 1
    BY <1>0, <1>6, <2>1, CreateIntervalKeeps DEF GrowInterval
  <2> QED BY <1>0, <1>6, <2>2, GenerationKeeps DEF GrowInterval, Growing
<1>7. ASSUME NEW s \in States, GrowNothing(s) PROVE IInv'
  <2>1. ScoreInv' /\ Len(date') = Len(date) /\ Len(eventOf') = Len(eventOf)
    BY <1>0, <1>7, NothingKeeps DEF GrowNothing
  <2>2. Len(eventOf) >= 1
    BY <1>7 DEF GrowNothing, Growing, IInv, Control, ControlTypeOK
  <2> QED BY <1>0, <1>7, <2>1, <2>2, GenerationKeeps DEF GrowNothing, Growing
<1>8. ASSUME NEW e \in Events, GrowState(e) PROVE IInv'
  <2>1. ScoreInv' /\ Len(date') = Len(date) /\ Len(eventOf') = Len(eventOf) + 1
    BY <1>0, <1>8, CreateStateKeeps DEF GrowState
  <2> QED BY <1>0, <1>8, <2>1, GenerationKeeps DEF GrowState, Growing
<1>9. CASE EndGrow \/ EndLink \/ EndTrigger
  <2>1. ScoreInv' /\ Len(date') = Len(date) /\ Len(eventOf') = Len(eventOf)
    BY <1>0, <1>9, NothingKeeps DEF EndGrow, EndLink, EndTrigger
  <2> QED BY <1>0, <1>9, <2>1, GenerationKeeps DEF EndGrow, EndLink, EndTrigger
<1>10. ASSUME NEW s1 \in States, NEW s2 \in States, Link(s1, s2) PROVE IInv'
  <2>1. ScoreInv' /\ Len(date') = Len(date) /\ Len(eventOf') = Len(eventOf)
    BY <1>0, <1>10, LinkKeeps
  <2> QED BY <1>0, <1>10, <2>1, GenerationKeeps DEF Link, Linking
<1>11. ASSUME NEW s1 \in States, NEW s2 \in States, LinkNothing(s1, s2) PROVE IInv'
  <2>1. ScoreInv' /\ Len(date') = Len(date) /\ Len(eventOf') = Len(eventOf)
    BY <1>0, <1>11, NothingKeeps DEF LinkNothing
  <2> QED BY <1>0, <1>11, <2>1, GenerationKeeps DEF LinkNothing, Linking
<1>12. ASSUME NEW s \in States, Trigger(s) PROVE IInv'
  <2>1. ScoreInv' /\ Len(date') = Len(date) /\ Len(eventOf') = Len(eventOf)
    <3>1. limited' \subseteq 1..Len(from)
      BY <1>0, <1>12 DEF Trigger, ScoreInv, ScoreTypeOK
    <3> QED BY <1>0, <1>12, <3>1, TriggerKeeps DEF Trigger
  <2> QED BY <1>0, <1>12, <2>1, GenerationKeeps DEF Trigger, Triggering
<1>13. CASE UNCHANGED vars
  <2>1. ScoreInv' /\ Len(date') = Len(date) /\ Len(eventOf') = Len(eventOf)
    BY <1>0, <1>13, NothingKeeps DEF vars, score
  <2>2. Control'
    BY <1>13 DEF vars, IInv, Control, ControlTypeOK, SyncsBounded, ImportUnderWay, Intervals
  <2> QED BY <2>1, <2>2 DEF IInv
<1> QED BY <1>1, <1>2, <1>3, <1>4, <1>5, <1>6, <1>7, <1>8, <1>9, <1>10, <1>11, <1>12, <1>13
           DEF Next, Step

\* The bound on dates, for the syncs asked for: those there are, or more.
LEMMA DatesFollow == IInv => DatesBounded
<1> SUFFICES ASSUME IInv, NEW k \in Events PROVE date[k] <= growth * (MaxOffset - 1)
  BY DEF DatesBounded
<1> DEFINE P == MaxOffset - 1
           M == Len(date) - 1
           R == growth - M
<1>1. /\ P \in Nat /\ growth \in Nat /\ M \in Nat /\ M <= growth /\ R \in Nat
      /\ date[k] \in Nat
  BY Domains, GeneratorAssumption
     DEF IInv, ScoreInv, ScoreTypeOK, Control, ControlTypeOK, SyncsBounded
<1>2. date[k] <= M * P
  BY DEF IInv, ScoreInv, DatesByLength, Lasting
<1>2a. growth = M + R
  BY <1>1
<1> HIDE DEF P, M, R
<1>3. growth * P = M * P + R * P
  BY <1>1, <1>2a
<1>4. R * P \in Nat /\ M * P \in Nat
  BY <1>1
<1>5. date[k] <= growth * P
  <2> DEFINE A == M * P
             B == R * P
  <2>1. A \in Nat /\ B \in Nat /\ growth * P = A + B /\ date[k] <= A
    BY <1>2, <1>3, <1>4
  <2> HIDE DEF A, B
  <2> QED BY <1>1, <2>1
<1> QED BY <1>5 DEF P

\* The inductive invariant holds in every state, whatever is asked for.
THEOREM Invariance == Spec => []IInv
<1>1. Init => IInv
  BY InitInv
<1>2. IInv /\ [Next]_vars => IInv'
  BY NextInv
<1> QED BY <1>1, <1>2, PTL DEF Spec

\* Every index the generator stores names a state or a sync of the score.
THEOREM TypeCorrect == Spec => []TypeOK
<1>1. IInv => TypeOK
  BY DEF IInv, TypeOK, ScoreInv, ScoreTypeOK, Control, ControlTypeOK
<1> QED BY <1>1, Invariance, PTL

\* No state is left, or reached, by two intervals, whatever rand() returns
\* (the guards of lines 468, 498 and 503).
THEOREM StatesAreSingle == Spec => []StatesSingle
<1>1. IInv => StatesSingle
  BY DEF IInv, ScoreInv
<1> QED BY <1>1, Invariance, PTL

\* The start sync stays at date 0 and no interval of growth, of a link or of an
\* import ends on it.
THEOREM StartStaysFirst == Spec => []StartIsFirst
<1>1. IInv => StartIsFirst
  BY DEF IInv, ScoreInv
<1> QED BY <1>1, Invariance, PTL

\* Every other sync ends some interval, so that TAConversion.cpp:431 does not
\* abort on a generated score.
THEOREM OthersAreReached == Spec => []OthersReached
<1>1. IInv => OthersReached
  BY DEF IInv, ScoreInv
<1> QED BY <1>1, Invariance, PTL

\* Generated scores have no cycle: every interval goes forward.
THEOREM GoesForward == Spec => []Forward
<1>1. IInv => Forward
  BY DEF IInv, ScoreInv
<1> QED BY <1>1, Invariance, PTL

\* No date exceeds what the durations asked for add up to.
THEOREM DatesAreBounded == Spec => []DatesBounded
<1>1. IInv => DatesBounded
  BY DatesFollow
<1> QED BY <1>1, Invariance, PTL

-----------------------------------------------------------------------------
(* The converter on what generations and imports make.                     *)

\* What a conversion declares, for the parts of a document.
LEMMA Declares ==
    ASSUME NEW d, TA(d)!ScoreAssumption
    PROVE  /\ \A s \in d.scenarios : {TA(d)!Self(s).event_s, TA(d)!Self(s).skip,
                                      TA(d)!Self(s).kill} \subseteq TA(d)!Broadcasts
           /\ \A tn \in d.syncs : TA(d)!SyncBroadcasts(tn) \subseteq TA(d)!Broadcasts
           /\ \A ev \in d.events : TA(d)!EventBroadcasts(ev) \subseteq TA(d)!Broadcasts
           /\ \A x \in d.intervals : TA(d)!IntervalBroadcasts(x) \subseteq TA(d)!Broadcasts
           /\ {TA(d)!Base.event_min, TA(d)!Base.event_i, TA(d)!Base.event_max, TA(d)!Base.skip,
               TA(d)!Base.kill, TA(d)!Base.skip_p, TA(d)!Base.kill_p} \subseteq TA(d)!Broadcasts
BY DEF TA!Broadcasts

\* The channels of the point of a sync, and those of the Mix in front of it.
LEMMA SyncChannelsDeclared ==
    ASSUME NEW d, TA(d)!ScoreAssumption, NEW tn \in d.syncs
    PROVE  LET p == TA(d)!SyncPoint(tn)
           IN  /\ {p.event_s, p.skip_p, p.event_e, p.kill_p, p.skip, p.event_t, p.event}
                     \subseteq TA(d)!Broadcasts
               /\ TA(d)!SyncChannels(tn).event_s \in TA(d)!Broadcasts
<1> PICK s : s = d.scenarioOf[tn]
  OBVIOUS
<1>1. s \in d.scenarios /\ d.active[tn] \in BOOLEAN
  BY DEF TA!ScoreAssumption
<1>2. {TA(d)!Self(s).event_s, TA(d)!Self(s).skip, TA(d)!Self(s).kill} \subseteq TA(d)!Broadcasts
  BY <1>1, Declares
<1>3. TA(d)!SyncBroadcasts(tn) \subseteq TA(d)!Broadcasts
  BY Declares
<1>4. TA(d)!SelfOfSync(tn) = TA(d)!Self(s)
  BY DEF TA!SelfOfSync
<1> PICK c : c = TA(d)!SyncChannels(tn)
  OBVIOUS
<1>5. {c.event_s, c.event_e, c.skip_p} \subseteq TA(d)!Broadcasts
  <2>1. CASE TA(d)!IsMerge(tn)
    BY <1>3, <2>1 DEF TA!SyncBroadcasts, TA!SyncChannels
  <2>2. CASE ~TA(d)!IsMerge(tn) /\ TA(d)!Previous(tn) # {}
    BY <1>3, <2>2 DEF TA!SyncBroadcasts, TA!SyncChannels
  <2>3. CASE ~TA(d)!IsMerge(tn) /\ TA(d)!Previous(tn) = {}
    BY <1>2, <1>4, <2>3 DEF TA!SyncChannels
  <2> QED BY <2>1, <2>2, <2>3
<1>6. {TA(d)!Self(s).kill, <<"skip_", tn>>, <<"ok_", tn>>, <<"event_", tn>>}
         \subseteq TA(d)!Broadcasts
  BY <1>2, <1>3 DEF TA!SyncBroadcasts
<1>7. ~d.active[tn] => TA(d)!MixOut(tn) \in TA(d)!Broadcasts
  BY <1>3 DEF TA!SyncBroadcasts
<1> PICK p : p = TA(d)!SyncPoint(tn)
  OBVIOUS
<1>8. /\ p.event_s = c.event_s /\ p.skip_p = c.skip_p /\ p.kill_p = TA(d)!Self(s).kill
      /\ p.skip = <<"skip_", tn>> /\ p.event_t = <<"ok_", tn>> /\ p.event = <<"event_", tn>>
      /\ p.event_e = IF d.active[tn] THEN c.event_e ELSE TA(d)!MixOut(tn)
  BY <1>4 DEF TA!SyncPoint
<1>9. p.event_e \in TA(d)!Broadcasts
  BY <1>5, <1>7, <1>8
<1> QED BY <1>5, <1>6, <1>8, <1>9

\* What visit(TimeSyncModel) prints.
LEMMA SyncsDeclared ==
    ASSUME NEW d, TA(d)!ScoreAssumption, NEW tn \in d.syncs, NEW e \in TA(d)!SyncElements(tn)
    PROVE  TA(d)!ChannelsOf(e) \subseteq TA(d)!Broadcasts
<1> PICK p : p = TA(d)!SyncPoint(tn)
  OBVIOUS
<1>1. /\ {p.event_s, p.skip_p, p.event_e, p.kill_p, p.skip, p.event_t, p.event}
            \subseteq TA(d)!Broadcasts
      /\ TA(d)!SyncChannels(tn).event_s \in TA(d)!Broadcasts
  BY SyncChannelsDeclared
<1>2. TA(d)!SyncBroadcasts(tn) \subseteq TA(d)!Broadcasts
  BY Declares
<1>3. /\ p.kind = "Point" /\ p.kill_p = TA(d)!SelfOfSync(tn).kill
      /\ p.skip_p = TA(d)!SyncChannels(tn).skip_p /\ p.event = <<"event_", tn>>
  BY DEF TA!SyncPoint
<1>4. CASE e = p
  <2>1. TA(d)!ChannelsOf(p) = {p.event, p.event_s, p.skip_p, p.event_e, p.kill_p, p.skip, p.event_t}
    BY <1>3 DEF TA!ChannelsOf
  <2> QED BY <1>1, <1>4, <2>1
<1>5. CASE e = TA(d)!SyncEvent(tn)
  <2>1. e.kind \in {"Event", "Event_ND"} /\ e.event = <<"event_", tn>>
    BY <1>5 DEF TA!SyncEvent
  <2>2. TA(d)!ChannelsOf(e) = {e.event}
    BY <2>1 DEF TA!ChannelsOf
  <2> QED BY <1>1, <1>3, <2>1, <2>2
<1>6. CASE e = TA(d)!SyncControl(tn) /\ TA(d)!IsMerge(tn)
  <2>1. /\ e.kind = "Control" /\ e.kill_p = p.kill_p
        /\ e.event_s1 = <<"event_s1_Control_", tn>> /\ e.skip_p = <<"skip_p_Control_", tn>>
        /\ e.skip = <<"skip_Control_", tn>> /\ e.event_e = <<"event_e_Control_", tn>>
        /\ e.event_s2 = <<"event_s2_Control_", tn>>
    BY <1>3, <1>6 DEF TA!SyncControl
  <2>2. TA(d)!ChannelsOf(e) = {e.event_s1, e.skip_p, e.skip, e.event_e, e.kill_p, e.event_s2}
    BY <2>1 DEF TA!ChannelsOf
  <2>3. {e.event_s1, e.skip_p, e.skip, e.event_e, e.event_s2} \subseteq TA(d)!SyncBroadcasts(tn)
    BY <1>6, <2>1 DEF TA!SyncBroadcasts
  <2> QED BY <1>1, <1>2, <2>1, <2>2, <2>3
<1>7. CASE e = TA(d)!SyncMix(tn) /\ ~d.active[tn]
  <2>1. /\ e.kind = "Mix" /\ e.kill_p = p.kill_p /\ e.skip_p = p.skip_p
        /\ e.event_in = TA(d)!SyncChannels(tn).event_s /\ e.event_out = TA(d)!MixOut(tn)
    BY <1>3, <1>7 DEF TA!SyncMix
  <2>2. TA(d)!ChannelsOf(e) = {e.event_in, e.event_out, e.skip_p, e.kill_p}
    BY <2>1 DEF TA!ChannelsOf
  <2>3. e.event_out \in TA(d)!SyncBroadcasts(tn)
    BY <1>7, <2>1 DEF TA!SyncBroadcasts
  <2> QED BY <1>1, <1>2, <2>1, <2>2, <2>3
<1> QED BY <1>4, <1>5, <1>6, <1>7 DEF TA!SyncElements

\* What visit(EventModel) prints.
LEMMA EventsDeclared ==
    ASSUME NEW d, TA(d)!ScoreAssumption, NEW ev \in d.events, NEW e \in TA(d)!EventElements(ev)
    PROVE  TA(d)!ChannelsOf(e) \subseteq TA(d)!Broadcasts
<1> PICK tn : tn = d.syncOf[ev]
  OBVIOUS
<1>1. tn \in d.syncs
  BY DEF TA!ScoreAssumption
<1> PICK p, q : p = TA(d)!SyncPoint(tn) /\ q = TA(d)!EventPoint(ev)
  OBVIOUS
<1>2. {p.event_s, p.skip_p, p.event_e, p.kill_p, p.skip, p.event_t, p.event}
         \subseteq TA(d)!Broadcasts
  BY <1>1, SyncChannelsDeclared
<1>3. /\ q.kind = "Point" /\ q.event = <<"event_", ev>> /\ q.event_s = p.event_e
      /\ q.skip_p = p.skip /\ q.event_e = <<"emax_", ev>> /\ q.kill_p = TA(d)!SelfOfSync(tn).kill
      /\ q.skip = <<"skip_", ev>> /\ q.event_t = <<"ok_", ev>>
  BY DEF TA!EventPoint
<1>4. p.kill_p = TA(d)!SelfOfSync(tn).kill
  BY DEF TA!SyncPoint
<1>5. {q.event, q.event_e, q.skip, q.event_t} \subseteq TA(d)!Broadcasts
  <2>1. TA(d)!EventBroadcasts(ev) \subseteq TA(d)!Broadcasts
    BY Declares
  <2> QED BY <1>3, <2>1 DEF TA!EventBroadcasts
<1>6. {q.event_s, q.skip_p, q.kill_p} \subseteq TA(d)!Broadcasts
  BY <1>2, <1>3, <1>4
<1>7. CASE e = q
  <2>1. TA(d)!ChannelsOf(q) = {q.event, q.event_s, q.skip_p, q.event_e, q.kill_p, q.skip, q.event_t}
    BY <1>3 DEF TA!ChannelsOf
  <2> QED BY <1>5, <1>6, <1>7, <2>1
<1>8. CASE e = TA(d)!EventEvent(ev)
  <2>1. e.kind = "Event" /\ e.event = <<"emax_", ev>>
    BY <1>8 DEF TA!EventEvent
  <2>2. TA(d)!ChannelsOf(e) = {e.event}
    BY <2>1 DEF TA!ChannelsOf
  <2> QED BY <1>3, <1>5, <2>1, <2>2
<1>9. CASE e = TA(d)!EventMix(ev)
  <2>1. /\ e.kind = "Mix" /\ e.kill_p = q.kill_p /\ e.skip_p = q.skip_p
        /\ e.event_in = q.event_s /\ e.event_out = q.event_e
    BY <1>9 DEF TA!EventMix
  <2>2. TA(d)!ChannelsOf(e) = {e.event_in, e.event_out, e.skip_p, e.kill_p}
    BY <2>1 DEF TA!ChannelsOf
  <2> QED BY <1>5, <1>6, <2>1, <2>2
<1> QED BY <1>7, <1>8, <1>9 DEF TA!EventElements

\* What visit(IntervalModel) prints.
LEMMA IntervalsDeclared ==
    ASSUME NEW d, TA(d)!ScoreAssumption, NEW x \in d.intervals
    PROVE  TA(d)!ChannelsOf(TA(d)!IntervalElement(x)) \subseteq TA(d)!Broadcasts
<1> PICK e, ch, s, tn : /\ e = TA(d)!IntervalElement(x) /\ ch = TA(d)!EndChannels(x)
                        /\ s = TA(d)!ScenarioOfInterval(x) /\ tn = TA(d)!EndSync(x)
  OBVIOUS
<1>1. s \in d.scenarios /\ tn \in d.syncs
  BY DEF TA!ScoreAssumption, TA!ScenarioOfInterval, TA!StartSync, TA!EndSync
<1>2. {TA(d)!Self(s).skip, TA(d)!Self(s).kill} \subseteq TA(d)!Broadcasts
  BY <1>1, Declares
<1>3. {<<"ok_", d.startEvent[x]>>, ch.skip, <<"kill_", x>>} \subseteq TA(d)!Broadcasts
  BY Declares DEF TA!IntervalBroadcasts
<1>4. {ch.event_e1, ch.event_e2} \subseteq TA(d)!Broadcasts
  <2>1. TA(d)!SyncBroadcasts(tn) \subseteq TA(d)!Broadcasts
    BY <1>1, Declares
  <2>2. x \in TA(d)!Previous(tn)
    BY DEF TA!Previous
  <2>3. {ch.event_e1, ch.event_e2} \subseteq TA(d)!SyncBroadcasts(tn)
    <3>1. CASE TA(d)!IsMerge(tn)
      BY <3>1 DEF TA!SyncBroadcasts, TA!EndChannels
    <3>2. CASE ~TA(d)!IsMerge(tn)
      BY <2>2, <3>2 DEF TA!SyncBroadcasts, TA!EndChannels
    <3> QED BY <3>1, <3>2
  <2> QED BY <2>1, <2>3
<1>5. CASE d.rigid[x]
  <2>1. e = TA(d)!RigidElement(x)
    BY <1>5 DEF TA!IntervalElement
  <2>2. /\ e.kind = "Rigid" /\ e.event_s = <<"ok_", d.startEvent[x]>>
        /\ e.event_e1 = ch.event_e1 /\ e.skip_p = TA(d)!Self(s).skip
        /\ e.kill_p = TA(d)!Self(s).kill /\ e.skip = ch.skip /\ e.kill = <<"kill_", x>>
        /\ e.event_e2 = ch.event_e2
    BY <2>1 DEF TA!RigidElement
  <2>3. TA(d)!ChannelsOf(e) =
           {e.event_s, e.event_e1, e.skip_p, e.kill_p, e.skip, e.kill, e.event_e2}
    BY <2>2 DEF TA!ChannelsOf
  <2> QED BY <1>2, <1>3, <1>4, <2>2, <2>3
<1>6. CASE ~d.rigid[x]
  <2>1. e = TA(d)!FlexibleElement(x)
    BY <1>6 DEF TA!IntervalElement
  <2>2. /\ e.kind = "Flexible" /\ e.event_s = <<"ok_", d.startEvent[x]>>
        /\ e.event_min = ch.event_e1 /\ e.event_i = ch.event_e2 /\ e.event_max = ch.event_e2
        /\ e.skip_p = TA(d)!Self(s).skip /\ e.kill_p = TA(d)!Self(s).kill
        /\ e.skip = ch.skip /\ e.kill = <<"kill_", x>>
    BY <2>1 DEF TA!FlexibleElement
  <2>3. TA(d)!ChannelsOf(e) = {e.event_s, e.event_min, e.event_i, e.event_max,
                               e.skip_p, e.kill_p, e.skip, e.kill}
    BY <2>2 DEF TA!ChannelsOf
  <2> QED BY <1>2, <1>3, <1>4, <2>2, <2>3
<1> QED BY <1>5, <1>6

\* Whatever the document, as long as its root interval holds a scenario, the
\* converter declares every channel that it uses.
LEMMA ConversionDeclares ==
    ASSUME NEW d, TA(d)!ScoreAssumption, \E s \in d.scenarios : d.parent[s] = d.root
    PROVE  TA(d)!ChannelsDeclared
<1> PICK b : b = TA(d)!Base
  OBVIOUS
<1>1. /\ b.kind = "Flexible" /\ b.event_s = TA(d)!GlobalStart /\ b.event_i = TA(d)!GlobalEnd
  BY DEF TA!Base
<1>2. {b.event_min, b.event_i, b.event_max, b.skip, b.kill, b.skip_p, b.kill_p}
         \subseteq TA(d)!Broadcasts
  BY Declares
<1>3. TA(d)!GlobalStart \in TA(d)!Broadcasts
  <2> PICK s \in d.scenarios : d.parent[s] = d.root
    OBVIOUS
  <2>1. TA(d)!Self(s).event_s = TA(d)!GlobalStart
    BY DEF TA!Self
  <2> QED BY <2>1, Declares
<1>4. TA(d)!ChannelsOf(b) \subseteq TA(d)!Broadcasts
  <2>1. TA(d)!ChannelsOf(b) = {b.event_s, b.event_min, b.event_i, b.event_max,
                               b.skip_p, b.kill_p, b.skip, b.kill}
    BY <1>1 DEF TA!ChannelsOf
  <2> QED BY <1>1, <1>2, <1>3, <2>1
<1>5. TA(d)!ChannelsOf(TA(d)!MainStartEvent) \subseteq TA(d)!Broadcasts
  <2>1. TA(d)!MainStartEvent.kind = "Event" /\ TA(d)!MainStartEvent.event = TA(d)!GlobalStart
    BY DEF TA!MainStartEvent
  <2> QED BY <1>3, <2>1 DEF TA!ChannelsOf
<1>6. TA(d)!ChannelsOf(TA(d)!MainEndEvent) \subseteq TA(d)!Broadcasts
  <2>1. TA(d)!MainEndEvent.kind = "Event" /\ TA(d)!MainEndEvent.event = TA(d)!GlobalEnd
    BY DEF TA!MainEndEvent
  <2> QED BY <1>1, <1>2, <2>1 DEF TA!ChannelsOf
<1>7. TA(d)!ChannelsOf(TA(d)!EndMix) \subseteq TA(d)!Broadcasts
  <2> PICK m : m = TA(d)!EndMix
    OBVIOUS
  <2>1. /\ m.kind = "Mix" /\ m.event_in = b.event_max /\ m.event_out = b.kill
        /\ m.skip_p = b.skip_p /\ m.kill_p = b.kill_p
    BY DEF TA!EndMix
  <2>2. TA(d)!ChannelsOf(m) = {m.event_in, m.event_out, m.skip_p, m.kill_p}
    BY <2>1 DEF TA!ChannelsOf
  <2> QED BY <1>2, <2>1, <2>2
<1>8. ASSUME NEW e \in TA(d)!Printed
      PROVE  TA(d)!ChannelsOf(e) \subseteq TA(d)!Broadcasts
  <2>1. \/ e \in {TA(d)!Base, TA(d)!MainStartEvent, TA(d)!MainEndEvent, TA(d)!EndMix}
        \/ \E tn \in d.syncs : e \in TA(d)!SyncElements(tn)
        \/ \E ev \in d.events : e \in TA(d)!EventElements(ev)
        \/ \E x \in d.intervals : e = TA(d)!IntervalElement(x)
    BY DEF TA!Printed
  <2> QED BY <1>4, <1>5, <1>6, <1>7, <2>1, SyncsDeclared, EventsDeclared, IntervalsDeclared
<1> QED BY <1>8 DEF TA!ChannelsDeclared

\* What TA reads of the document.
LEMMA MadeIs ==
    ASSUME ScoreTypeOK
    PROVE  /\ MadeScore.scenarios = {"S1"} /\ MadeScore.root = Root
           /\ MadeScore.parent = [s \in {"S1"} |-> Root]
           /\ MadeScore.startSync = [s \in {"S1"} |-> Sync(1)]
           /\ MadeScore.syncs = Syncs /\ MadeScore.events = {Event(k) : k \in Events}
           /\ MadeScore.intervals = {Interval(c) : c \in Intervals}
           /\ MadeScore.scenarioOf = [x \in Syncs |-> "S1"]
           /\ \A c \in Intervals : MadeScore.endEvent[Interval(c)] = Event(EndSyncOf(c))
           /\ \A k \in Events : MadeScore.syncOf[Event(k)] = Sync(k)
BY DEF MadeScore, Interval, Event

\* A number names a thing of the document: each interval starts and ends on an
\* event, and lasts no less than nothing.
LEMMA MadeTypes ==
    ASSUME ScoreTypeOK, Forward, NEW c \in Intervals
    PROVE  /\ StartSyncOf(c) \in Events /\ EndSyncOf(c) \in Events
           /\ date[EndSyncOf(c)] - date[StartSyncOf(c)] \in Nat
<1>1. from[c] \in States /\ to[c] \in States
  BY Domains
<1>2. StartSyncOf(c) \in Events /\ EndSyncOf(c) \in Events
  BY <1>1, Domains DEF StartSyncOf, EndSyncOf
<1>3. date[StartSyncOf(c)] \in Nat /\ date[EndSyncOf(c)] \in Nat
  BY <1>2, Domains
<1>4. date[StartSyncOf(c)] <= date[EndSyncOf(c)]
  BY <1>3 DEF Forward
<1> QED BY <1>2, <1>3, <1>4

\* At every moment the document is one the converter can work on.
LEMMA MadeIsScore ==
    ASSUME ScoreTypeOK, Forward
    PROVE  TA(MadeScore)!ScoreAssumption
<1> PICK cs, es : cs = {Interval(c) : c \in Intervals} /\ es = {Event(k) : k \in Events}
  OBVIOUS
<1> PICK d : d = MadeScore
  OBVIOUS
<1>1. /\ IsFiniteSet(Syncs) /\ IsFiniteSet(es) /\ IsFiniteSet(cs) /\ IsFiniteSet({"S1"})
  <2>1. Events = 1..Len(date) /\ Intervals = 1..Len(from)
    BY Domains
  <2>2. IsFiniteSet(Events) /\ IsFiniteSet(Intervals)
    BY <2>1, Domains, FS_Interval
  <2>3. IsFiniteSet(Syncs)
    <3> PICK f : f = [k \in Events |-> Sync(k)]
      OBVIOUS
    <3>1. f \in Surjection(Events, Syncs)
      BY DEF Surjection, Syncs
    <3> QED BY <2>2, <3>1, FS_Surjection
  <2>4. IsFiniteSet(es)
    <3> PICK f : f = [k \in Events |-> Event(k)]
      OBVIOUS
    <3>1. f \in Surjection(Events, es)
      BY DEF Surjection
    <3> QED BY <2>2, <3>1, FS_Surjection
  <2>5. IsFiniteSet(cs)
    <3> PICK f : f = [c \in Intervals |-> Interval(c)]
      OBVIOUS
    <3>1. f \in Surjection(Intervals, cs)
      BY DEF Surjection
    <3> QED BY <2>2, <3>1, FS_Surjection
  <2> QED BY <2>3, <2>4, <2>5, FS_Singleton
<1>2. /\ \A c \in Intervals : Interval(c) \in cs /\ Interval(c)[2] = c
      /\ \A k \in Events : /\ Sync(k) \in Syncs /\ Sync(k)[2] = k
                           /\ Event(k) \in es /\ Event(k)[2] = k
  BY DEF Interval, Sync, Event, Syncs
<1>3. /\ \A x \in cs : x[2] \in Intervals
      /\ \A x \in Syncs : x[2] \in Events
      /\ \A x \in es : x[2] \in Events
  BY DEF Interval, Sync, Event, Syncs
<1>4. d.parent \in [d.scenarios -> d.intervals \cup {d.root}]
  BY DEF MadeScore
<1>5. d.startSync \in [d.scenarios -> d.syncs] /\ d.scenarioOf \in [d.syncs -> d.scenarios]
  <2>1. 1 \in Events
    BY Domains DEF ScoreTypeOK
  <2> QED BY <1>2, <2>1 DEF MadeScore
<1>6. d.date \in [d.syncs -> Nat] /\ d.active \in [d.syncs -> BOOLEAN]
  <2>1. \A k \in Events : date[k] \in Nat /\ active[k] \in BOOLEAN
    BY Domains, ItemOfSeq DEF ScoreTypeOK
  <2> QED BY <1>3, <2>1 DEF MadeScore
<1>7. /\ d.syncOf \in [d.events -> d.syncs]
      /\ d.startEvent \in [d.intervals -> d.events] /\ d.endEvent \in [d.intervals -> d.events]
  BY <1>2, <1>3, MadeTypes DEF MadeScore
<1>8. \A x \in cs : active[EndSyncOf(x[2])] \in BOOLEAN
  BY <1>3, MadeTypes, Domains, ItemOfSeq DEF ScoreTypeOK
<1>9. d.rigid \in [d.intervals -> BOOLEAN] /\ d.infinite \in [d.intervals -> BOOLEAN]
  BY DEF MadeScore
<1>10. \A x \in cs : Durations[x] \in Nat
  BY <1>3, MadeTypes DEF Durations
<1>11. d.min \in [d.intervals -> Nat] /\ d.dur \in [d.intervals -> Nat]
       /\ d.max \in [d.intervals -> Nat]
  <2>1. d.dur \in [d.intervals -> Nat]
    <3>1. d.dur = Durations /\ d.intervals = cs /\ DOMAIN Durations = cs
      BY DEF MadeScore, Durations
    <3>2. Durations = [x \in cs |-> Durations[x]]
      BY DEF Durations
    <3> QED BY <1>10, <3>1, <3>2
  <2>2. d.max \in [d.intervals -> Nat]
    BY <1>10, ImportAssumption DEF MadeScore
  <2>3. d.min \in [d.intervals -> Nat]
    BY <1>10, ImportAssumption DEF MadeScore
  <2> QED BY <2>1, <2>2, <2>3
<1>12. ASSUME NEW x \in d.intervals, ~d.rigid[x], ~d.infinite[x] PROVE d.min[x] <= d.max[x]
  <2>1. x \in cs /\ x[2] \in limited
    BY <1>12 DEF MadeScore
  <2>2. d.min[x] = ImportMin /\ d.max[x] = ImportMax
    BY <2>1 DEF MadeScore
  <2> QED BY <2>2, ImportAssumption
<1>13. DOMAIN d.expression = {}
  BY DEF MadeScore
<1>14. \A S \in {d.scenarios, d.syncs, d.events, d.intervals} : TA(d)!IsFiniteSet(S)
  <2>1. d.scenarios = {"S1"} /\ d.syncs = Syncs /\ d.events = es /\ d.intervals = cs
    BY MadeIs
  <2>2. \A S : IsFiniteSet(S) => TA(d)!IsFiniteSet(S)
    BY DEF IsFiniteSet, TA!IsFiniteSet
  <2> QED BY <1>1, <2>1, <2>2
<1>15. \A f \in {d.min, d.dur, d.max} : f \in [d.intervals -> Nat]
  BY ONLY <1>11
<1>16. \A x \in d.intervals :
          /\ ~d.rigid[x] /\ ~d.infinite[x] => d.min[x] <= d.max[x]
          /\ d.scenarioOf[d.syncOf[d.startEvent[x]]] = d.scenarioOf[d.syncOf[d.endEvent[x]]]
  <2>1. d.scenarios = {"S1"}
    BY DEF MadeScore
  <2>2. \A y \in d.syncs : d.scenarioOf[y] = "S1"
    BY ONLY <1>5, <2>1
  <2>3. \A x \in d.intervals : /\ d.syncOf[d.startEvent[x]] \in d.syncs
                               /\ d.syncOf[d.endEvent[x]] \in d.syncs
    BY ONLY <1>7
  <2> QED BY ONLY <1>12, <2>2, <2>3
<1>17. DOMAIN d.expression \subseteq d.syncs \cup d.events
  BY ONLY <1>13
<1>18. TA(d)!ScoreAssumption
  BY ONLY <1>4, <1>5, <1>6, <1>7, <1>9, <1>14, <1>15, <1>16, <1>17
     DEF TA!ScoreAssumption
<1> QED BY <1>18

\* Where a conversion would abort: a sync that no interval reaches is the start.
LEMMA MadeConverts ==
    ASSUME ScoreTypeOK, OthersReached
    PROVE  TA(MadeScore)!Convertible
<1> PICK d : d = MadeScore
  OBVIOUS
<1>1. ASSUME NEW tn \in d.syncs, TA(d)!Previous(tn) = {}
      PROVE  tn = d.startSync[d.scenarioOf[tn]]
  <2>1. tn \in Syncs /\ d.startSync[d.scenarioOf[tn]] = Sync(1)
    BY MadeIs
  <2> PICK k \in Events : tn = Sync(k)
    BY <2>1 DEF Syncs
  <2>2. ASSUME k # 1 PROVE FALSE
    <3> PICK c \in Intervals : EndSyncOf(c) = k
      BY <2>2 DEF OthersReached
    <3>1. Interval(c) \in d.intervals /\ d.syncOf[d.endEvent[Interval(c)]] = tn
      BY MadeIs
    <3>2. Interval(c) \in TA(d)!Previous(tn)
      BY <3>1 DEF TA!Previous, TA!EndSync
    <3> QED BY <1>1, <3>2
  <2> QED BY <2>1, <2>2
<1> QED BY <1>1 DEF TA!Convertible

\* The document that generations and imports leave, in whatever order and with
\* whatever choices of rand(), is one that TAConversion converts without abort
\* (TAConversion.cpp:431) into a network with all its channels declared.
THEOREM GeneratedAlwaysConverts == Spec => []GeneratedConverts
<1>1. IInv => GeneratedConverts
  <2> SUFFICES ASSUME IInv PROVE GeneratedConverts
    OBVIOUS
  <2>1. ScoreTypeOK /\ Forward /\ OthersReached
    BY DEF IInv, ScoreInv
  <2> PICK d : d = MadeScore
    OBVIOUS
  <2>2. TA(d)!ScoreAssumption
    BY <2>1, MadeIsScore
  <2>3. TA(d)!Convertible
    BY <2>1, MadeConverts
  <2>4. \E s \in d.scenarios : d.parent[s] = d.root
    BY <2>1, MadeIs
  <2>5. TA(d)!ChannelsDeclared
    BY <2>2, <2>4, ConversionDeclares
  <2> QED BY <2>2, <2>3, <2>5 DEF GeneratedConverts
<1>2. QED BY <1>1, Invariance, PTL
=============================================================================
