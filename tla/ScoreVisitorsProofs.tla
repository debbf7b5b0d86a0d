------------------------ MODULE ScoreVisitorsProofs ------------------------
(***************************************************************************)
(* Proofs about the visitors of ScoreVisitors, for every document.         *)
(***************************************************************************)
EXTENDS ScoreVisitors, SumProofs, FiniteSetTheorems, TLAPS

\* A scenario being visited, as Frame and the steps of the walk leave it.
Frames == [scenar : DOMAIN score.kind, loop : 1..4, left : SUBSET score.objects,
           at : score.objects \cup {Base}, held : SUBSET DOMAIN score.kind]

WalkTypeOK ==
    /\ score \in Scores /\ visitor \in Visitors
    /\ roots \subseteq DOMAIN score.kind
    /\ stack \in Seq(Frames)

Container(f, l) == OfKind(score, Containers(visitor)[l], f.scenar)

\* What is left is of the container that is gone through; there are scenarios to
\* enter inside an interval only; what the export visitors have gone past has its
\* number, or is declared.
Past(f, l) == IF l = f.loop THEN Container(f, l) \ f.left ELSE Container(f, l)
FrameOK(f) ==
    /\ f.loop <= Len(Containers(visitor))
    /\ f.left \subseteq Container(f, f.loop)
    /\ f.held # {} => f.at # Base
    /\ visitor \in {"ml", "cpp"} => \A l \in 1..f.loop : Past(f, l) \subseteq ids

FramesOK == \A k \in 1..Len(stack) : FrameOK(stack[k])

\* curDepth is how many intervals the walk is in: one for every scenario being
\* visited but the innermost, and one more inside an interval of that.
DepthOK ==
    visitor = "statistics" =>
        /\ "curDepth" \in DOMAIN stats
        /\ \A k \in 1..(Len(stack) - 1) : stack[k].at # Base
        /\ stats.curDepth =
              IF stack = <<>> THEN 0
              ELSE IF top.at = Base THEN Len(stack) - 1 ELSE Len(stack)

WalkInv == WalkTypeOK /\ FramesOK /\ DepthOK /\ NothingUnknown

-----------------------------------------------------------------------------
\* What the three ways to change a stack make of it.
LEMMA Pushed ==
    ASSUME NEW S, NEW s \in Seq(S), NEW e \in S
    PROVE  /\ Append(s, e) \in Seq(S) /\ Len(Append(s, e)) = Len(s) + 1
           /\ \A k \in 1..Len(s) : Append(s, e)[k] = s[k]
           /\ Append(s, e)[Len(s) + 1] = e
OBVIOUS

\* The first n elements.
LEMMA Prefix ==
    ASSUME NEW S, NEW s \in Seq(S), NEW n \in Nat, n <= Len(s)
    PROVE  /\ SubSeq(s, 1, n) \in Seq(S) /\ Len(SubSeq(s, 1, n)) = n
           /\ \A k \in 1..n : SubSeq(s, 1, n)[k] = s[k]
OBVIOUS

\* All but the last element.
LEMMA Popped ==
    ASSUME NEW S, NEW s \in Seq(S), s # <<>>
    PROVE  /\ Front(s) \in Seq(S) /\ Len(Front(s)) = Len(s) - 1
           /\ \A k \in 1..(Len(s) - 1) : Front(s)[k] = s[k]
<1>1. Len(s) \in Nat /\ Len(s) >= 1
  OBVIOUS
<1>2. Front(s) = SubSeq(s, 1, Len(s) - 1)
  BY DEF Front
<1>3. Len(s) - 1 \in Nat /\ Len(s) - 1 <= Len(s)
  BY <1>1
<1>4. /\ SubSeq(s, 1, Len(s) - 1) \in Seq(S) /\ Len(SubSeq(s, 1, Len(s) - 1)) = Len(s) - 1
      /\ \A k \in 1..(Len(s) - 1) : SubSeq(s, 1, Len(s) - 1)[k] = s[k]
  BY <1>3, Prefix
<1> QED BY ONLY <1>2, <1>4

\* Another last element.
LEMMA Replaced ==
    ASSUME NEW S, NEW s \in Seq(S), s # <<>>, NEW e \in S
    PROVE  LET r == [s EXCEPT ![Len(s)] = e]
           IN  /\ r \in Seq(S) /\ Len(r) = Len(s) /\ r # <<>>
               /\ \A k \in 1..(Len(s) - 1) : r[k] = s[k]
               /\ r[Len(s)] = e
OBVIOUS

\* There is an innermost scenario while the walk is under way.
LEMMA TopFrame ==
    ASSUME WalkTypeOK, Working
    PROVE  Len(stack) \in Nat /\ Len(stack) >= 1 /\ top \in Frames
BY DEF WalkTypeOK, Working, top

\* A document is as ScoreOK says.
LEMMA Known == ASSUME WalkTypeOK PROVE ScoreOK(score)
BY ScoresAssumption DEF WalkTypeOK

-----------------------------------------------------------------------------
(* The walk: what each of its steps keeps of the stack.  The visitors only *)
(* add to ids.                                                             *)

\* A scenario stays as it should be when ids grow.
LEMMA FrameKept ==
    ASSUME NEW f, FrameOK(f), UNCHANGED <<score, visitor>>, ids \subseteq ids'
    PROVE  FrameOK(f)'
BY DEF FrameOK, Past, Container, OfKind

\* When one scenario changes, or is added, the others stay as they should be.
LEMMA OthersKept ==
    ASSUME FramesOK, UNCHANGED <<score, visitor>>, ids \subseteq ids',
           NEW n, \A k \in 1..Len(stack') : k # n => k \in 1..Len(stack) /\ stack'[k] = stack[k],
           NEW e, n \in 1..Len(stack') => stack'[n] = e /\ FrameOK(e)'
    PROVE  FramesOK'
<1> SUFFICES ASSUME NEW k \in 1..Len(stack') PROVE FrameOK(stack[k])'
  BY DEF FramesOK
<1> PICK f : f = stack'[k]
  OBVIOUS
<1>1. FrameOK(f)'
  <2>1. CASE k = n
    BY <2>1
  <2>2. CASE k # n
    <3>1. FrameOK(f)
      BY <2>2 DEF FramesOK
    <3> QED BY <3>1, FrameKept
  <2> QED BY <2>1, <2>2
<1> QED BY <1>1 DEF FrameOK, Past, Container, OfKind

\* A visitor goes through one to four containers.
LEMMA HowManyContainers ==
    ASSUME visitor \in Visitors PROVE Len(Containers(visitor)) \in 1..4
BY DEF Visitors, Containers

\* The innermost scenario, when there is one.
LEMMA TopOK ==
    ASSUME WalkTypeOK, FramesOK, Working
    PROVE  /\ stack \in Seq(Frames) /\ Len(stack) \in Nat /\ Len(stack) >= 1
           /\ top \in Frames /\ FrameOK(top)
<1>1. stack \in Seq(Frames) /\ Len(stack) \in Nat /\ Len(stack) >= 1 /\ top \in Frames
  BY TopFrame DEF WalkTypeOK
<1> QED BY <1>1 DEF FramesOK, top

\* The innermost scenario is changed, and becomes e.
LEMMA TopReplaced ==
    ASSUME WalkTypeOK, FramesOK, Working, UNCHANGED <<score, visitor, roots>>, ids \subseteq ids',
           NEW e, e \in Frames, ReplaceTop(e), FrameOK(e)'
    PROVE  WalkTypeOK' /\ FramesOK'
<1>1. stack \in Seq(Frames) /\ stack # <<>> /\ Len(stack) \in Nat /\ Len(stack) >= 1
  BY TopOK DEF Working
<1>2. stack' = [stack EXCEPT ![Len(stack)] = e]
  BY DEF ReplaceTop
<1>3. /\ stack' \in Seq(Frames) /\ Len(stack') = Len(stack)
      /\ \A k \in 1..(Len(stack) - 1) : stack'[k] = stack[k]
      /\ stack'[Len(stack)] = e
  BY <1>1, <1>2, Replaced
<1>4. WalkTypeOK'
  BY <1>3 DEF WalkTypeOK, Frames
<1> PICK n \in Nat : n = Len(stack)
  BY <1>1
<1>5. \A k \in 1..Len(stack') : k # n => k \in 1..Len(stack) /\ stack'[k] = stack[k]
  BY <1>1, <1>3
<1>6. n \in 1..Len(stack') => stack'[n] = e /\ FrameOK(e)'
  BY <1>3
<1> QED BY <1>4, <1>5, <1>6, OthersKept

\* An object is visited.
LEMMA VisitWalks ==
    ASSUME WalkTypeOK, FramesOK, NEW x, Visit(x), UNCHANGED <<score, visitor>>,
           ids \subseteq ids', visitor \in {"ml", "cpp"} => x \in ids'
    PROVE  WalkTypeOK' /\ FramesOK'
<1> PICK t : t = top
  OBVIOUS
<1>1. Working /\ t \in Frames /\ FrameOK(t)
  BY TopOK DEF Visit
<1> PICK at, held :
       /\ at = IF x[1] = "interval" /\ visitor # "cpp" THEN x ELSE Base
       /\ held = IF x[1] = "interval" /\ visitor # "cpp" THEN scenariosOf(x) ELSE {}
  OBVIOUS
<1> PICK e : e = [t EXCEPT !.left = @ \ {x}, !.at = at, !.held = held]
  OBVIOUS
<1>2. x \in score.objects /\ scenariosOf(x) \subseteq DOMAIN score.kind
  BY <1>1 DEF Visit, Frames, scenariosOf
<1>3. at \in score.objects \cup {Base} /\ held \subseteq DOMAIN score.kind
  BY <1>2
<1>4. /\ e \in Frames /\ e.scenar = t.scenar /\ e.loop = t.loop /\ e.left = t.left \ {x}
      /\ e.held = held /\ e.at = at
  BY <1>1, <1>3 DEF Frames
<1>5. ReplaceTop(e) /\ UNCHANGED roots
  BY DEF Visit
<1>6. held # {} => at # Base
  BY DEF Base
<1>7. FrameOK(e)'
  BY ONLY <1>1, <1>4, <1>6, UNCHANGED <<score, visitor>>, ids \subseteq ids',
          visitor \in {"ml", "cpp"} => x \in ids'
     DEF FrameOK, Past, Container, OfKind
<1> QED BY <1>1, <1>4, <1>5, <1>7, TopReplaced

\* The next container is gone through.
LEMMA NextContainerWalks ==
    ASSUME WalkTypeOK, FramesOK, NextContainer
    PROVE  WalkTypeOK' /\ FramesOK'
<1> PICK t : t = top
  OBVIOUS
<1>1. Working /\ t \in Frames /\ FrameOK(t)
  BY TopOK DEF NextContainer, LoopOver
<1> PICK next : next = OfKind(score, Containers(visitor)[t.loop + 1], t.scenar)
  OBVIOUS
<1> PICK e : e = [t EXCEPT !.loop = @ + 1, !.left = next]
  OBVIOUS
<1>2. t.loop < Len(Containers(visitor)) /\ Len(Containers(visitor)) \in 1..4 /\ t.left = {}
  BY HowManyContainers DEF NextContainer, LoopOver, WalkTypeOK
<1>3. /\ e \in Frames /\ e.scenar = t.scenar /\ e.loop = t.loop + 1 /\ e.left = next
      /\ e.held = t.held /\ e.at = t.at
  <2>1. next \subseteq score.objects
    BY DEF OfKind
  <2>2. t.loop \in 1..4 /\ t.loop + 1 \in 1..4
    BY <1>1, <1>2 DEF Frames
  <2> QED BY <1>1, <2>1, <2>2 DEF Frames
<1>4. ReplaceTop(e) /\ UNCHANGED <<score, visitor, roots, ids>>
  BY DEF NextContainer
<1>5. FrameOK(e)'
  <2>1. e.loop <= Len(Containers(visitor)) /\ e.left = Container(e, e.loop)
    BY <1>1, <1>2, <1>3 DEF Container, Frames
  <2>2. ASSUME visitor \in {"ml", "cpp"}, NEW l \in 1..e.loop
        PROVE  Past(e, l) \subseteq ids
    <3>1. CASE l = e.loop
      BY <3>1, <2>1 DEF Past
    <3>2. CASE l # e.loop
      <4>1. l \in 1..t.loop
        BY <3>2, <1>1, <1>3 DEF Frames
      <4>2. Past(t, l) \subseteq ids
        BY <4>1, <2>2, <1>1 DEF FrameOK
      <4>3. Past(e, l) = Container(t, l) /\ Past(t, l) = Container(t, l)
        BY <3>2, <1>2, <1>3 DEF Past, Container
      <4> QED BY <4>2, <4>3
    <3> QED BY <3>1, <3>2
  <2>3. e.held # {} => e.at # Base
    BY <1>1, <1>3 DEF FrameOK
  <2>4. FrameOK(e)
    BY <2>1, <2>2, <2>3 DEF FrameOK
  <2> QED BY <2>4, <1>4, FrameKept
<1> QED BY <1>1, <1>3, <1>4, <1>5, TopReplaced

\* An interval is left.
LEMMA LeaveIntervalWalks ==
    ASSUME WalkTypeOK, FramesOK, LeaveInterval, UNCHANGED <<score, visitor, ids>>
    PROVE  WalkTypeOK' /\ FramesOK'
<1> PICK t : t = top
  OBVIOUS
<1>1. Working /\ t \in Frames /\ FrameOK(t)
  BY TopOK DEF LeaveInterval
<1> PICK e : e = [t EXCEPT !.at = Base]
  OBVIOUS
<1>2. /\ e \in Frames /\ e.scenar = t.scenar /\ e.loop = t.loop /\ e.left = t.left
      /\ e.held = t.held /\ t.held = {}
  BY <1>1 DEF Frames, LeaveInterval
<1>3. FrameOK(e)
  BY <1>1, <1>2 DEF FrameOK, Past, Container
<1>4. ReplaceTop(e) /\ UNCHANGED roots
  BY DEF LeaveInterval
<1> QED BY <1>1, <1>2, <1>3, <1>4, FrameKept, TopReplaced

\* A scenario is left.
LEMMA LeaveScenarioWalks ==
    ASSUME WalkTypeOK, FramesOK, LeaveScenario, UNCHANGED <<score, visitor, ids>>
    PROVE  WalkTypeOK' /\ FramesOK'
<1>1. stack \in Seq(Frames) /\ stack # <<>> /\ Len(stack) \in Nat /\ Len(stack) >= 1
  BY TopOK DEF LeaveScenario, LoopOver, Working
<1>2. /\ stack' \in Seq(Frames) /\ Len(stack') = Len(stack) - 1
      /\ \A k \in 1..(Len(stack) - 1) : stack'[k] = stack[k]
  BY <1>1, Popped DEF LeaveScenario
<1>3. WalkTypeOK'
  BY <1>2 DEF WalkTypeOK, LeaveScenario, Frames
<1>4. \A k \in 1..Len(stack') : k # 0 => k \in 1..Len(stack) /\ stack'[k] = stack[k]
  BY <1>1, <1>2
<1>5. 0 \notin 1..Len(stack')
  BY <1>1, <1>2
<1> QED BY <1>3, <1>4, <1>5, OthersKept

\* A scenario that is entered has everything still to be gone through.
LEMMA EnteredOK ==
    ASSUME WalkTypeOK, NEW p \in DOMAIN score.kind
    PROVE  Frame(p) \in Frames /\ FrameOK(Frame(p))
<1> PICK left : left = OfKind(score, Containers(visitor)[1], p)
  OBVIOUS
<1> PICK f : f = [scenar |-> p, loop |-> 1, left |-> left, at |-> Base, held |-> {}]
  OBVIOUS
<1>1. f = Frame(p)
  BY DEF Frame
<1>2. left \subseteq score.objects
  BY DEF OfKind
<1>3. f \in Frames
  BY <1>2 DEF Frames
<1>4. f.loop = 1 /\ f.left = Container(f, 1)
  BY DEF Container
<1>5. 1 <= Len(Containers(visitor))
  BY HowManyContainers DEF WalkTypeOK
<1>6. \A l \in 1..f.loop : Past(f, l) = {}
  BY <1>4 DEF Past
<1>7. FrameOK(f)
  BY <1>4, <1>5, <1>6 DEF FrameOK
<1> QED BY <1>1, <1>3, <1>7

\* A scenario is entered.
LEMMA EnterWalks ==
    ASSUME WalkTypeOK, FramesOK, NEW p \in DOMAIN score.kind, Enter(p),
           UNCHANGED <<score, visitor, ids>>
    PROVE  WalkTypeOK' /\ FramesOK'
<1> PICK f : f = Frame(p)
  OBVIOUS
<1>1. f \in Frames /\ FrameOK(f)
  BY EnteredOK
<1>2. FrameOK(f)'
  BY <1>1, FrameKept
<1>3. CASE ~Working
  <2>1. stack' = <<f>> /\ roots' \subseteq roots
    BY <1>3 DEF Enter
  <2>2. stack' \in Seq(Frames) /\ Len(stack') = 1 /\ stack'[1] = f
    BY <1>1, <2>1
  <2>3. WalkTypeOK'
    BY <2>1, <2>2 DEF WalkTypeOK, Frames
  <2>4. \A k \in 1..Len(stack') : k # 1 => k \in 1..Len(stack) /\ stack'[k] = stack[k]
    BY <2>2
  <2> QED BY <2>2, <2>3, <2>4, <1>2, OthersKept
<1>4. CASE Working
  <2> PICK t : t = top
    OBVIOUS
  <2>1. /\ stack \in Seq(Frames) /\ stack # <<>> /\ Len(stack) \in Nat /\ Len(stack) >= 1
        /\ t \in Frames /\ FrameOK(t) /\ t = stack[Len(stack)]
    BY <1>4, TopOK DEF Working, top
  <2> PICK e : e = [t EXCEPT !.held = @ \ {p}]
    OBVIOUS
  <2>2. e \in Frames /\ e.scenar = t.scenar /\ e.loop = t.loop /\ e.left = t.left
    BY <2>1 DEF Frames
  <2>3. FrameOK(e)
    BY <2>1, <2>2 DEF FrameOK, Past, Container
  <2>4. FrameOK(e)'
    BY <2>3, FrameKept
  <2> PICK r : r = [stack EXCEPT ![Len(stack)] = e]
    OBVIOUS
  <2>5. r = [stack EXCEPT ![Len(stack)].held = @ \ {p}]
    BY <2>1
  <2>6. stack' = Append(r, f) /\ roots' = roots
    BY <1>4, <2>5 DEF Enter
  <2>11. r = [stack EXCEPT ![Len(stack)] = e]
    OBVIOUS
  <2>7. /\ r \in Seq(Frames) /\ Len(r) = Len(stack) /\ r[Len(stack)] = e
        /\ \A k \in 1..(Len(stack) - 1) : r[k] = stack[k]
    BY ONLY <2>1, <2>2, <2>11, Replaced
  <2>8. /\ stack' \in Seq(Frames) /\ Len(stack') = Len(stack) + 1
        /\ \A k \in 1..(Len(stack) - 1) : stack'[k] = stack[k]
        /\ stack'[Len(stack)] = e /\ stack'[Len(stack) + 1] = f
    <3>1. /\ stack' \in Seq(Frames) /\ Len(stack') = Len(r) + 1
          /\ \A k \in 1..Len(r) : stack'[k] = r[k]
          /\ stack'[Len(r) + 1] = f
      BY ONLY <1>1, <2>6, <2>7, Pushed
    <3> QED BY ONLY <2>1, <2>7, <3>1
  <2>9. WalkTypeOK'
    BY <2>6, <2>8 DEF WalkTypeOK, Frames
  <2>10. FramesOK'
    <3> SUFFICES ASSUME NEW k \in 1..Len(stack') PROVE FrameOK(stack[k])'
      BY DEF FramesOK
    <3> PICK g : g = stack'[k]
      OBVIOUS
    <3>1. k < Len(stack) \/ k = Len(stack) \/ k = Len(stack) + 1
      BY <2>1, <2>8
    <3>2. CASE k < Len(stack)
      <4>1. g = stack[k] /\ k \in 1..Len(stack)
        BY <2>1, <2>8, <3>2
      <4>2. FrameOK(g)
        BY <4>1 DEF FramesOK
      <4> QED BY <4>2, FrameKept DEF FrameOK, Past, Container, OfKind
    <3>3. CASE k = Len(stack)
      BY <3>3, <2>4, <2>8 DEF FrameOK, Past, Container, OfKind
    <3>4. CASE k = Len(stack) + 1
      BY <3>4, <1>2, <2>8 DEF FrameOK, Past, Container, OfKind
    <3> QED BY <3>1, <3>2, <3>3, <3>4
  <2> QED BY <2>9, <2>10
<1> QED BY <1>3, <1>4

-----------------------------------------------------------------------------
(* What the export visitors look up.                                       *)

\* What is visited is of the container gone through, and what comes before in
\* the list of containers is known.
LEMMA VisitedIs ==
    ASSUME WalkTypeOK, FramesOK, NEW x, Visit(x)
    PROVE  /\ top.loop \in 1..Len(Containers(visitor)) /\ x \in Container(top, top.loop)
           /\ visitor \in {"ml", "cpp"} =>
                 \A l \in 1..4 : l < top.loop => Container(top, l) \subseteq ids
<1> PICK t : t = top
  OBVIOUS
<1>1. t \in Frames /\ FrameOK(t) /\ x \in t.left
  BY TopOK DEF Visit
<1>2. t.loop \in 1..4 /\ t.loop <= Len(Containers(visitor)) /\ x \in Container(t, t.loop)
  BY <1>1 DEF Frames, FrameOK
<1>3. t.loop \in 1..Len(Containers(visitor))
  BY <1>2, HowManyContainers DEF WalkTypeOK
<1>4. ASSUME visitor \in {"ml", "cpp"}, NEW l \in 1..4, l < t.loop
      PROVE  Container(t, l) \subseteq ids
  BY <1>1, <1>2, <1>4 DEF FrameOK, Past
<1> QED BY <1>2, <1>3, <1>4

\* Objects refer to objects of their scenario.
LEMMA SameScenario ==
    ASSUME ScoreOK(score)
    PROVE  /\ \A c \in DOMAIN score.startState :
                 startEvent(c) \in OfKind(score, "event", c[2])
           /\ \A c \in DOMAIN score.endState :
                 /\ endEvent(c) \in OfKind(score, "event", c[2])
                 /\ c \in OfKind(score, "interval", c[2])
           /\ \A c \in DOMAIN score.startState : c \in OfKind(score, "interval", c[2])
           /\ \A ev \in DOMAIN score.syncOf :
                 parentTimeSync(ev) \in OfKind(score, "timeSync", ev[2])
           /\ \A x \in score.objects : x[1] = "interval" =>
                 x \in DOMAIN score.startState /\ x \in DOMAIN score.endState
           /\ \A x \in score.objects : x[1] = "event" => x \in DOMAIN score.syncOf
<1>1. /\ DOMAIN score.startState = {x \in score.objects : x[1] = "interval"}
      /\ DOMAIN score.endState = {x \in score.objects : x[1] = "interval"}
      /\ DOMAIN score.eventOf = {x \in score.objects : x[1] = "state"}
      /\ DOMAIN score.syncOf = {x \in score.objects : x[1] = "event"}
      /\ \A c \in DOMAIN score.startState : score.startState[c] \in DOMAIN score.eventOf
      /\ \A c \in DOMAIN score.endState : score.endState[c] \in DOMAIN score.eventOf
      /\ \A st \in DOMAIN score.eventOf : score.eventOf[st] \in DOMAIN score.syncOf
      /\ \A ev \in DOMAIN score.syncOf :
            score.syncOf[ev] \in {x \in score.objects : x[1] = "timeSync"}
  BY DEF ScoreOK
<1>2. /\ \A c \in DOMAIN score.startState : score.startState[c][2] = c[2]
      /\ \A c \in DOMAIN score.endState : score.endState[c][2] = c[2]
      /\ \A st \in DOMAIN score.eventOf : score.eventOf[st][2] = st[2]
      /\ \A ev \in DOMAIN score.syncOf : score.syncOf[ev][2] = ev[2]
  BY DEF ScoreOK
<1> QED BY <1>1, <1>2 DEF startEvent, endEvent, parentEvent, parentTimeSync, OfKind

\* What the ML visitor looks up for an object has its number.
LEMMA MLKnows ==
    ASSUME WalkTypeOK, FramesOK, visitor = "ml", NEW x, Visit(x)
    PROVE  MLLooksUp(x) \subseteq ids
<1> SUFFICES ASSUME x[1] = "timeSync",
                    NEW ev \in events(x), NEW c \in previousIntervals(ev) \cup nextIntervals(ev)
             PROVE  c \in ids
  BY DEF MLLooksUp
<1> PICK t : t = top
  OBVIOUS
<1>1. Containers(visitor) = <<"interval", "timeSync">>
  BY DEF Containers
<1>2. /\ t.loop \in 1..2 /\ x \in OfKind(score, Containers(visitor)[t.loop], t.scenar)
      /\ \A l \in 1..4 : l < t.loop => OfKind(score, Containers(visitor)[l], t.scenar) \subseteq ids
  BY <1>1, VisitedIs DEF Container
<1>3. t.loop = 2 /\ x[2] = t.scenar
  BY <1>1, <1>2 DEF OfKind
<1>4. OfKind(score, "interval", t.scenar) \subseteq ids
  BY <1>1, <1>2, <1>3
<1>5. ev \in DOMAIN score.syncOf /\ parentTimeSync(ev) = x
  BY DEF events, parentTimeSync
<1>6. ev[2] = t.scenar
  BY <1>3, <1>5, Known, SameScenario DEF OfKind
<1>7. \/ c \in DOMAIN score.endState /\ endEvent(c) = ev
      \/ c \in DOMAIN score.startState /\ startEvent(c) = ev
  BY DEF previousIntervals, nextIntervals
<1>8. c \in OfKind(score, "interval", t.scenar)
  BY <1>6, <1>7, Known, SameScenario DEF OfKind
<1> QED BY <1>4, <1>8

\* What the C++ visitor looks up for an object is declared.
LEMMA CPPKnows ==
    ASSUME WalkTypeOK, FramesOK, visitor = "cpp", NEW x, Visit(x)
    PROVE  CPPLooksUp(x) \subseteq ids
<1> PICK t : t = top
  OBVIOUS
<1>1. Containers(visitor) = <<"timeSync", "event", "interval">>
  BY DEF Containers
<1>2. /\ t.loop \in 1..3 /\ x \in OfKind(score, Containers(visitor)[t.loop], t.scenar)
      /\ \A l \in 1..4 : l < t.loop => OfKind(score, Containers(visitor)[l], t.scenar) \subseteq ids
  BY <1>1, VisitedIs DEF Container
<1>3. x \in score.objects /\ x[2] = t.scenar /\ x[1] = Containers(visitor)[t.loop]
  BY <1>2 DEF OfKind
<1>4. CASE t.loop = 1
  BY <1>1, <1>3, <1>4 DEF CPPLooksUp
<1>5. CASE t.loop = 2
  <2>1. OfKind(score, "timeSync", t.scenar) \subseteq ids
    BY <1>1, <1>2, <1>5
  <2>2. parentTimeSync(x) \in OfKind(score, "timeSync", t.scenar)
    BY <1>1, <1>3, <1>5, Known, SameScenario
  <2> QED BY <1>1, <1>3, <1>5, <2>1, <2>2 DEF CPPLooksUp
<1>6. CASE t.loop = 3
  <2>1. OfKind(score, "event", t.scenar) \subseteq ids
    BY <1>1, <1>2, <1>6
  <2>2. startEvent(x) \in OfKind(score, "event", t.scenar)
        /\ endEvent(x) \in OfKind(score, "event", t.scenar)
    BY <1>1, <1>3, <1>6, Known, SameScenario
  <2> QED BY <1>1, <1>3, <1>6, <2>1, <2>2 DEF CPPLooksUp
<1> QED BY <1>2, <1>4, <1>5, <1>6

-----------------------------------------------------------------------------
(* The depth.                                                              *)

\* The stack as the steps leave it, of whatever visitor.
LEMMA VisitDeepens ==
    ASSUME WalkTypeOK, FramesOK, DepthOK, NEW x, StatisticsVisit(x)
    PROVE  DepthOK'
<1> PICK t : t = top
  OBVIOUS
<1>1. /\ stack \in Seq(Frames) /\ stack # <<>> /\ Len(stack) \in Nat /\ Len(stack) >= 1
      /\ t \in Frames
  BY TopOK DEF StatisticsVisit, Visit, Working
<1>2. x[1] = "interval" /\ x # Base /\ x \in score.objects
  <2>1. Containers(visitor) = <<"interval">>
    BY DEF Containers, StatisticsVisit
  <2>2. x \in OfKind(score, Containers(visitor)[t.loop], t.scenar) /\ t.loop \in 1..1
    BY <2>1, VisitedIs DEF Container, StatisticsVisit
  <2> QED BY <2>1, <2>2 DEF OfKind, Base
<1> PICK held : held = scenariosOf(x)
  OBVIOUS
<1> PICK e : e = [t EXCEPT !.left = @ \ {x}, !.at = x, !.held = held]
  OBVIOUS
<1>3. e \in Frames /\ e.at = x
  BY <1>1, <1>2 DEF Frames, scenariosOf
<1>4. stack' = [stack EXCEPT ![Len(stack)] = e] /\ visitor' = visitor
  BY <1>2 DEF StatisticsVisit, Visit, ReplaceTop
<1>5. /\ stack' \in Seq(Frames) /\ Len(stack') = Len(stack) /\ stack' # <<>>
      /\ \A k \in 1..(Len(stack) - 1) : stack'[k] = stack[k]
      /\ stack'[Len(stack)] = e
  BY <1>1, <1>3, <1>4, Replaced
<1>6. "curDepth" \in DOMAIN stats /\ stats.curDepth = Len(stack) - 1
  BY <1>1 DEF DepthOK, StatisticsVisit, Visit
<1>7. "curDepth" \in DOMAIN stats' /\ stats'.curDepth = Len(stack)
  <2>1. stats' = [stats EXCEPT !.curDepth = @ + 1,
                   !.maxDepth = IF stats.curDepth + 1 > @ THEN stats.curDepth + 1 ELSE @]
    BY DEF StatisticsVisit
  <2>2. stats'.curDepth = stats.curDepth + 1 /\ DOMAIN stats' = DOMAIN stats
    BY <1>6, <2>1
  <2> QED BY <1>1, <1>6, <2>2
<1>8. \A k \in 1..(Len(stack') - 1) : stack'[k].at # Base
  BY <1>1, <1>5 DEF DepthOK, StatisticsVisit
<1> QED BY <1>1, <1>2, <1>3, <1>5, <1>7, <1>8 DEF DepthOK, top

\* The statistics leave an interval.
LEMMA IntervalReturns ==
    ASSUME WalkTypeOK, FramesOK, DepthOK, StatisticsLeaveInterval
    PROVE  DepthOK'
<1> PICK t : t = top
  OBVIOUS
<1>1. /\ stack \in Seq(Frames) /\ stack # <<>> /\ Len(stack) \in Nat /\ Len(stack) >= 1
      /\ t \in Frames
  BY TopOK DEF StatisticsLeaveInterval, LeaveInterval, Working
<1> PICK e : e = [t EXCEPT !.at = Base]
  OBVIOUS
<1>2. e \in Frames /\ e.at = Base
  BY <1>1 DEF Frames
<1>3. stack' = [stack EXCEPT ![Len(stack)] = e] /\ visitor' = visitor
  BY DEF StatisticsLeaveInterval, LeaveInterval, ReplaceTop
<1>4. /\ stack' \in Seq(Frames) /\ Len(stack') = Len(stack) /\ stack' # <<>>
      /\ \A k \in 1..(Len(stack) - 1) : stack'[k] = stack[k]
      /\ stack'[Len(stack)] = e
  BY <1>1, <1>2, <1>3, Replaced
<1>5. "curDepth" \in DOMAIN stats /\ stats.curDepth = Len(stack)
  BY <1>1 DEF DepthOK, StatisticsLeaveInterval, LeaveInterval
<1>6. "curDepth" \in DOMAIN stats' /\ stats'.curDepth = Len(stack) - 1
  BY <1>5 DEF StatisticsLeaveInterval
<1>7. \A k \in 1..(Len(stack') - 1) : stack'[k].at # Base
  BY <1>1, <1>4 DEF DepthOK, StatisticsLeaveInterval
<1> QED BY <1>1, <1>2, <1>4, <1>6, <1>7 DEF DepthOK, top

\* They enter a scenario, below the interval that holds it.
LEMMA ScenarioEntered ==
    ASSUME WalkTypeOK, FramesOK, DepthOK, NEW p \in DOMAIN score.kind, StatisticsEnter(p)
    PROVE  DepthOK'
<1> PICK f : f = Frame(p)
  OBVIOUS
<1>1. f \in Frames /\ f.at = Base
  BY EnteredOK DEF Frame
<1>2. /\ visitor = "statistics" /\ visitor' = visitor /\ "curDepth" \in DOMAIN stats
      /\ "curDepth" \in DOMAIN stats' /\ stats'.curDepth = stats.curDepth
  BY DEF DepthOK, StatisticsEnter
<1>3. CASE ~Working
  <2>1. stack' = <<f>> /\ stats.curDepth = 0
    BY <1>2, <1>3 DEF Enter, StatisticsEnter, DepthOK, Working
  <2>2. Len(stack') = 1 /\ stack'[1] = f /\ stack' # <<>>
    BY <2>1
  <2> QED BY <1>1, <1>2, <2>1, <2>2 DEF DepthOK, top
<1>4. CASE Working
  <2> PICK t : t = top
    OBVIOUS
  <2>1. /\ stack \in Seq(Frames) /\ stack # <<>> /\ Len(stack) \in Nat /\ Len(stack) >= 1
        /\ t \in Frames /\ t = stack[Len(stack)] /\ t.held # {} /\ t.at # Base
    BY <1>4, TopOK DEF Working, top, StatisticsEnter, Enter, FrameOK
  <2> PICK e : e = [t EXCEPT !.held = @ \ {p}]
    OBVIOUS
  <2>2. e \in Frames /\ e.at # Base
    BY <2>1 DEF Frames
  <2> PICK r : r = [stack EXCEPT ![Len(stack)] = e]
    OBVIOUS
  <2>3. r = [stack EXCEPT ![Len(stack)] = e] /\ r = [stack EXCEPT ![Len(stack)].held = @ \ {p}]
    BY <2>1
  <2>4. stack' = Append(r, f)
    BY <1>4, <2>3 DEF Enter, StatisticsEnter
  <2>5. /\ r \in Seq(Frames) /\ Len(r) = Len(stack) /\ r[Len(stack)] = e
        /\ \A k \in 1..(Len(stack) - 1) : r[k] = stack[k]
    BY ONLY <2>1, <2>2, <2>3, Replaced
  <2>6. /\ Len(stack') = Len(r) + 1 /\ stack'[Len(r) + 1] = f /\ stack' # <<>>
        /\ \A k \in 1..Len(r) : stack'[k] = r[k]
    BY ONLY <1>1, <2>4, <2>5, Pushed
  <2>7. stats.curDepth = Len(stack)
    BY <1>2, <2>1 DEF DepthOK
  <2>8. \A k \in 1..(Len(stack) - 1) : stack[k].at # Base
    BY <1>2 DEF DepthOK
  <2>9. \A k \in 1..(Len(stack') - 1) : stack'[k].at # Base
    BY ONLY <2>1, <2>2, <2>5, <2>6, <2>8
  <2>10. Len(stack') - 1 = Len(stack) /\ stack'[Len(stack')] = f
    BY ONLY <2>1, <2>5, <2>6
  <2> QED BY <1>1, <1>2, <2>6, <2>7, <2>9, <2>10 DEF DepthOK, top
<1> QED BY <1>3, <1>4

\* They leave a scenario.
LEMMA ScenarioLeft ==
    ASSUME WalkTypeOK, FramesOK, DepthOK, StatisticsLeave
    PROVE  DepthOK'
<1>1. stack \in Seq(Frames) /\ stack # <<>> /\ Len(stack) \in Nat /\ Len(stack) >= 1
  BY TopOK DEF StatisticsLeave, LeaveScenario, LoopOver, Working
<1>2. /\ stack' \in Seq(Frames) /\ Len(stack') = Len(stack) - 1
      /\ \A k \in 1..(Len(stack) - 1) : stack'[k] = stack[k]
  BY <1>1, Popped DEF StatisticsLeave, LeaveScenario
<1>3. /\ visitor = "statistics" /\ visitor' = visitor /\ stats' = stats
      /\ "curDepth" \in DOMAIN stats /\ stats.curDepth = Len(stack) - 1
      /\ \A k \in 1..(Len(stack) - 1) : stack[k].at # Base
  BY <1>1 DEF DepthOK, StatisticsLeave, LeaveScenario, LoopOver
<1>4. stack' # <<>> => stack'[Len(stack')].at # Base
  <2> HAVE stack' # <<>>
  <2>1. Len(stack') \in 1..(Len(stack) - 1)
    BY <1>1, <1>2
  <2> QED BY <1>2, <1>3, <2>1
<1>5. stack' = <<>> => Len(stack') = 0
  OBVIOUS
<1>6. \A k \in 1..(Len(stack') - 1) : stack'[k].at # Base
  BY <1>1, <1>2, <1>3
<1> QED BY <1>1, <1>2, <1>3, <1>4, <1>5, <1>6 DEF DepthOK, top

\* They have one container only.
LEMMA ContainerFollows ==
    ASSUME WalkTypeOK, FramesOK, DepthOK, NextContainer
    PROVE  DepthOK'
<1> PICK t : t = top
  OBVIOUS
<1>1. /\ stack \in Seq(Frames) /\ stack # <<>> /\ Len(stack) \in Nat /\ Len(stack) >= 1
      /\ t \in Frames /\ t.at = Base
  BY TopOK DEF NextContainer, LoopOver, Working
<1> PICK next : next = OfKind(score, Containers(visitor)[t.loop + 1], t.scenar)
  OBVIOUS
<1> PICK e : e = [t EXCEPT !.loop = @ + 1, !.left = next]
  OBVIOUS
<1>2. e.at = Base
  BY <1>1 DEF Frames
<1>3. stack' = [stack EXCEPT ![Len(stack)] = e] /\ visitor' = visitor /\ stats' = stats
  BY DEF NextContainer, ReplaceTop
<1>4. DOMAIN stack = 1..Len(stack)
  BY <1>1
<1>5. /\ Len(stack') = Len(stack) /\ stack' # <<>> /\ stack'[Len(stack)] = e
      /\ \A k \in 1..(Len(stack) - 1) : stack'[k] = stack[k]
  <2> PICK S : S = Frames \cup {e}
    OBVIOUS
  <2>1. stack \in Seq(S) /\ e \in S
    BY <1>1
  <2> QED BY ONLY <1>1, <1>3, <2>1, Replaced
<1>6. \A k \in 1..(Len(stack') - 1) : visitor = "statistics" => stack'[k].at # Base
  BY <1>1, <1>5 DEF DepthOK
<1> QED BY <1>1, <1>2, <1>3, <1>5, <1>6 DEF DepthOK, top

-----------------------------------------------------------------------------
\* The walk of every visitor, from its first to its last scenario: what is
\* gone past is known, the depth is how many intervals the walk is in, and
\* nothing was looked up in vain.
THEOREM WalkInvariance == Spec => []WalkInv
<1>1. Init => WalkInv
  <2> SUFFICES ASSUME Init PROVE WalkInv
    OBVIOUS
  <2>1. ScoreOK(score)
    BY ScoresAssumption DEF Init
  <2>2. roots \subseteq DOMAIN score.kind
    BY <2>1 DEF Init, scenariosOf, ScoreOK
  <2>3. stack = <<>> /\ stack \in Seq(Frames) /\ Len(stack) = 0
    BY DEF Init
  <2>4. "curDepth" \in DOMAIN stats /\ stats.curDepth = 0
    BY DEF Init, NoStatistics
  <2>5. WalkTypeOK
    BY <2>2, <2>3 DEF Init, WalkTypeOK
  <2>6. FramesOK
    BY <2>3 DEF FramesOK
  <2>7. DepthOK
    BY <2>3, <2>4 DEF DepthOK
  <2> QED BY <2>5, <2>6, <2>7 DEF WalkInv, Init, NothingUnknown
<1>2. WalkInv /\ [Next]_vars => WalkInv'
  <2> SUFFICES ASSUME WalkInv, [Next]_vars PROVE WalkInv'
    OBVIOUS
  <2> USE DEF WalkInv
  <2>1. ASSUME NEW x \in score.objects, MetricsVisit(x) PROVE WalkInv'
    <3>1. WalkTypeOK' /\ FramesOK'
      BY <2>1, VisitWalks DEF MetricsVisit
    <3> QED BY <2>1, <3>1 DEF MetricsVisit, DepthOK, NothingUnknown
  <2>2. ASSUME NEW x \in score.objects, MLVisit(x) PROVE WalkInv'
    <3>1. ids \subseteq ids' /\ x \in ids'
      BY <2>2 DEF MLVisit, MLNames
    <3>2. WalkTypeOK' /\ FramesOK'
      BY <2>2, <3>1, VisitWalks DEF MLVisit
    <3>3. MLLooksUp(x) \subseteq ids
      BY <2>2, MLKnows DEF MLVisit
    <3>4. NothingUnknown'
      BY <2>2, <3>3 DEF MLVisit, NothingUnknown
    <3> QED BY <2>2, <3>2, <3>4 DEF MLVisit, DepthOK
  <2>3. ASSUME NEW x \in score.objects, CPPVisit(x) PROVE WalkInv'
    <3>1. ids \subseteq ids' /\ x \in ids'
      BY <2>3 DEF CPPVisit
    <3>2. WalkTypeOK' /\ FramesOK'
      BY <2>3, <3>1, VisitWalks DEF CPPVisit
    <3>3. CPPLooksUp(x) \subseteq ids
      BY <2>3, CPPKnows DEF CPPVisit
    <3>4. NothingUnknown'
      BY <2>3, <3>3 DEF CPPVisit, NothingUnknown
    <3> QED BY <2>3, <3>2, <3>4 DEF CPPVisit, DepthOK
  <2>4. ASSUME NEW x \in score.objects, StatisticsVisit(x) PROVE WalkInv'
    <3>1. WalkTypeOK' /\ FramesOK'
      BY <2>4, VisitWalks DEF StatisticsVisit
    <3> QED BY <2>4, <3>1, VisitDeepens DEF StatisticsVisit, NothingUnknown
  <2>5. ASSUME NEW p \in DOMAIN score.kind, MetricsEnter(p) PROVE WalkInv'
    <3>1. WalkTypeOK' /\ FramesOK'
      BY <2>5, EnterWalks DEF MetricsEnter
    <3> QED BY <2>5, <3>1 DEF MetricsEnter, DepthOK, NothingUnknown
  <2>6. ASSUME NEW p \in DOMAIN score.kind, StatisticsEnter(p) PROVE WalkInv'
    <3>1. WalkTypeOK' /\ FramesOK'
      BY <2>6, EnterWalks DEF StatisticsEnter
    <3> QED BY <2>6, <3>1, ScenarioEntered DEF StatisticsEnter, NothingUnknown
  <2>7. CASE NextContainer
    <3>1. WalkTypeOK' /\ FramesOK' /\ DepthOK'
      BY <2>7, NextContainerWalks, ContainerFollows
    <3> QED BY <2>7, <3>1 DEF NextContainer, NothingUnknown
  <2>8. CASE MetricsLeaveInterval
    <3>1. WalkTypeOK' /\ FramesOK'
      BY <2>8, LeaveIntervalWalks DEF MetricsLeaveInterval
    <3> QED BY <2>8, <3>1 DEF MetricsLeaveInterval, DepthOK, NothingUnknown
  <2>9. CASE MetricsLeave
    <3>1. WalkTypeOK' /\ FramesOK'
      BY <2>9, LeaveScenarioWalks DEF MetricsLeave
    <3> QED BY <2>9, <3>1 DEF MetricsLeave, DepthOK, NothingUnknown
  <2>10. CASE StatisticsLeaveInterval
    <3>1. WalkTypeOK' /\ FramesOK'
      BY <2>10, LeaveIntervalWalks DEF StatisticsLeaveInterval
    <3> QED BY <2>10, <3>1, IntervalReturns DEF StatisticsLeaveInterval, NothingUnknown
  <2>11. CASE StatisticsLeave
    <3>1. WalkTypeOK' /\ FramesOK'
      BY <2>11, LeaveScenarioWalks DEF StatisticsLeave
    <3> QED BY <2>11, <3>1, ScenarioLeft DEF StatisticsLeave, NothingUnknown
  <2>12. CASE ExportWalks
    <3>1. WalkTypeOK' /\ FramesOK'
      BY <2>12, LeaveIntervalWalks, LeaveScenarioWalks, EnterWalks DEF ExportWalks
    <3> QED BY <2>12, <3>1 DEF ExportWalks, DepthOK, NothingUnknown
  <2>13. CASE UNCHANGED vars
    BY <2>13 DEF vars, WalkTypeOK, Frames, FramesOK, FrameOK, Past, Container, OfKind,
                 DepthOK, top, NothingUnknown
  <2> QED BY <2>1, <2>2, <2>3, <2>4, <2>5, <2>6, <2>7, <2>8, <2>9, <2>10, <2>11, <2>12, <2>13
          DEF Next
<1> QED BY <1>1, <1>2, PTL DEF Spec

\* No number is looked up before it was given, and no C++ variable used before
\* it is declared, whatever the document: the lists of containers that the two
\* exports go through are in an order in which objects refer to earlier ones.
THEOREM NothingIsUnknown == Spec => []NothingUnknown
<1>1. WalkInv => NothingUnknown
  BY DEF WalkInv
<1> QED BY <1>1, WalkInvariance, PTL

\* curDepth is 0 again when the statistics are complete, whatever scenarios the
\* intervals hold: each addition is matched by a subtraction.
THEOREM DepthAlwaysReturns == Spec => []DepthReturns
<1>1. WalkInv => DepthReturns
  BY DEF WalkInv, DepthOK, DepthReturns, Done, Working
<1> QED BY <1>1, WalkInvariance, PTL

-----------------------------------------------------------------------------
(* What the export visitors have in the end.                               *)

\* The scenarios an export is about: with those within, or the first alone.
Exported(p) == IF visitor = "ml" THEN Reached(p) ELSE p = score.first

\* It is at work on these, and has not numbered or declared anything else.
OnlyExported ==
    visitor \in {"ml", "cpp"} =>
        /\ roots \subseteq {score.first}
        /\ \A k \in 1..Len(stack) :
              Exported(stack[k].scenar) /\ \A p \in stack[k].held : Exported(p)
        /\ ids \subseteq {x \in score.objects : x[1] # "state" /\ Exported(x[2])}

\* A scenario is being visited or about to be, or all of it is known.
UnderWay(p) == \E k \in 1..Len(stack) : stack[k].scenar = p \/ p \in stack[k].held
Finished(p) ==
    \A l \in 1..Len(Containers(visitor)) : OfKind(score, Containers(visitor)[l], p) \subseteq ids

\* The walk forgets no scenario: neither the first nor, for ML, one that an
\* interval with a number holds; and a sync with a number has given one to its
\* events.
NoneForgotten ==
    visitor \in {"ml", "cpp"} =>
        /\ score.first \in roots \/ UnderWay(score.first) \/ Finished(score.first)
        /\ visitor = "ml" =>
              /\ \A c \in ids : c[1] = "interval" =>
                    \A p \in scenariosOf(c) : UnderWay(p) \/ Finished(p)
              /\ \A tn \in ids : tn[1] = "timeSync" => events(tn) \subseteq ids

ExportInv == WalkInv /\ OnlyExported /\ NoneForgotten

\* The scenario that is measured is one the export is about, and so is what its
\* intervals hold.
LEMMA FirstExported == ASSUME WalkTypeOK PROVE Exported(score.first)
BY DEF Exported, Reached, HoldsAll

\* What an interval of a scenario reached holds is reached.
LEMMA HeldReached ==
    ASSUME NEW c, c[1] = "interval", Reached(c[2]), NEW p \in scenariosOf(c)
    PROVE  Reached(p)
<1>1. p \in DOMAIN score.kind /\ score.holder[p] = c /\ c # Base
  BY DEF scenariosOf, Base
<1> SUFFICES ASSUME NEW S \in SUBSET DOMAIN score.kind, HoldsAll(S) PROVE p \in S
  BY DEF Reached
<1>2. c[2] \in S
  BY DEF Reached
<1> QED BY <1>1, <1>2 DEF HoldsAll

\* What is finished stays so.
LEMMA FinishedStays ==
    ASSUME NEW p, UNCHANGED <<score, visitor>>, ids \subseteq ids', Finished(p)
    PROVE  Finished(p)'
BY DEF Finished, OfKind

\* A step that enters or finishes what it takes off the stack, and that numbers
\* what is of the scenarios exported and puts what that holds on the stack.
LEMMA ExportKept ==
    ASSUME WalkTypeOK, OnlyExported, NoneForgotten, visitor \in {"ml", "cpp"},
           UNCHANGED <<score, visitor>>, ids \subseteq ids', roots' \subseteq roots,
           score.first \in roots => score.first \in roots' \/ UnderWay(score.first)',
           \A p : UnderWay(p) => UnderWay(p)' \/ Finished(p)',
           \A k \in 1..Len(stack') :
              Exported(stack'[k].scenar) /\ \A p \in stack'[k].held : Exported(p),
           \A x \in ids' \ ids : x \in score.objects /\ x[1] # "state" /\ Exported(x[2]),
           visitor = "ml" =>
              \A x \in ids' \ ids :
                 /\ x[1] = "interval" => \A p \in scenariosOf(x) : UnderWay(p)'
                 /\ x[1] = "timeSync" => events(x) \subseteq ids'
    PROVE  OnlyExported' /\ NoneForgotten'
<1>1. \A p : Exported(p)' <=> Exported(p)
  BY DEF Exported, Reached, HoldsAll
<1>2. \A x : scenariosOf(x)' = scenariosOf(x) /\ events(x)' = events(x)
  BY DEF scenariosOf, events
<1>3. \A p : Finished(p) => Finished(p)'
  BY FinishedStays
<1> PICK first : first = score.first
  OBVIOUS
<1>4. OnlyExported'
  <2>1. ids' \subseteq {x \in score.objects : x[1] # "state" /\ Exported(x[2])}
    BY DEF OnlyExported
  <2>2. roots' \subseteq {score.first}
    BY DEF OnlyExported
  <2> QED BY <1>1, <2>1, <2>2 DEF OnlyExported
<1>5. score.first \in roots' \/ UnderWay(score.first)' \/ Finished(score.first)'
  BY <1>3 DEF NoneForgotten
<1>6. ASSUME visitor = "ml", NEW c \in ids', c[1] = "interval", NEW p \in scenariosOf(c)
      PROVE  UnderWay(p)' \/ Finished(p)'
  <2>1. CASE c \in ids
    <3>1. UnderWay(p) \/ Finished(p)
      BY <1>6, <2>1 DEF NoneForgotten
    <3> QED BY <3>1, <1>3
  <2>2. CASE c \notin ids
    BY <1>6, <2>2
  <2> QED BY <2>1, <2>2
<1>7. ASSUME visitor = "ml", NEW tn \in ids', tn[1] = "timeSync" PROVE events(tn) \subseteq ids'
  BY <1>7 DEF NoneForgotten
<1>8. NoneForgotten'
  BY <1>2, <1>5, <1>6, <1>7 DEF NoneForgotten
<1> QED BY <1>4, <1>8

\* The innermost scenario changes but keeps what is to be entered.
LEMMA TopTurned ==
    ASSUME WalkTypeOK, Working, NEW e \in Frames, ReplaceTop(e),
           e.scenar = top.scenar, top.held \subseteq e.held
    PROVE  /\ Len(stack) \in 1..Len(stack') /\ stack'[Len(stack)] = e
           /\ \A k \in 1..Len(stack') :
                 stack'[k] = e \/ (k \in 1..Len(stack) /\ stack'[k] = stack[k])
           /\ \A p : UnderWay(p) => UnderWay(p)'
<1>1. stack \in Seq(Frames) /\ stack # <<>> /\ Len(stack) \in Nat /\ Len(stack) >= 1
  BY TopFrame DEF Working, WalkTypeOK
<1>2. stack' = [stack EXCEPT ![Len(stack)] = e]
  BY DEF ReplaceTop
<1>3. /\ Len(stack') = Len(stack) /\ stack'[Len(stack)] = e
      /\ \A k \in 1..(Len(stack) - 1) : stack'[k] = stack[k]
  BY <1>1, <1>2, Replaced
<1>4. \A k \in 1..Len(stack) : k = Len(stack) \/ k \in 1..(Len(stack) - 1)
  BY <1>1
<1>5. ASSUME NEW p, UnderWay(p) PROVE UnderWay(p)'
  <2> PICK k \in 1..Len(stack) : stack[k].scenar = p \/ p \in stack[k].held
    BY <1>5 DEF UnderWay
  <2>1. k \in 1..Len(stack') /\ (stack'[k].scenar = p \/ p \in stack'[k].held)
    BY <1>3, <1>4 DEF top
  <2> QED BY <2>1 DEF UnderWay
<1> QED BY <1>1, <1>3, <1>4, <1>5

\* An object is exported.
LEMMA VisitExports ==
    ASSUME WalkInv, OnlyExported, NoneForgotten, NEW x, MLVisit(x) \/ CPPVisit(x)
    PROVE  OnlyExported' /\ NoneForgotten'
<1> USE DEF WalkInv
<1> PICK t : t = top
  OBVIOUS
<1>1. Visit(x) /\ visitor \in {"ml", "cpp"} /\ UNCHANGED <<score, visitor>>
  BY DEF MLVisit, CPPVisit
<1>2. Working /\ t \in Frames /\ FrameOK(t) /\ t.at = Base /\ t.held = {}
  BY <1>1, TopOK DEF Visit, FrameOK
<1> PICK at, held :
       /\ at = IF x[1] = "interval" /\ visitor # "cpp" THEN x ELSE Base
       /\ held = IF x[1] = "interval" /\ visitor # "cpp" THEN scenariosOf(x) ELSE {}
  OBVIOUS
<1> PICK e : e = [t EXCEPT !.left = @ \ {x}, !.at = at, !.held = held]
  OBVIOUS
<1>3. /\ t.loop \in 1..Len(Containers(visitor))
      /\ x \in OfKind(score, Containers(visitor)[t.loop], t.scenar)
  BY <1>1, VisitedIs DEF Container
<1>4. x \in score.objects /\ x[1] # "state" /\ x[2] = t.scenar
  BY <1>1, <1>3 DEF OfKind, Containers
<1>5. e \in Frames /\ e.scenar = t.scenar /\ e.held = held
  <2>1. at \in score.objects \cup {Base} /\ held \subseteq DOMAIN score.kind
    BY <1>4 DEF scenariosOf
  <2> QED BY <1>2, <2>1 DEF Frames
<1>6. ReplaceTop(e) /\ UNCHANGED roots
  BY <1>1 DEF Visit
<1>7. /\ Len(stack) \in 1..Len(stack') /\ stack'[Len(stack)] = e
      /\ \A k \in 1..Len(stack') :
            stack'[k] = e \/ (k \in 1..Len(stack) /\ stack'[k] = stack[k])
      /\ \A p : UnderWay(p) => UnderWay(p)'
  BY <1>2, <1>5, <1>6, TopTurned
<1>8. \E k \in 1..Len(stack) : stack[k] = t
  BY <1>2, TopFrame DEF top
<1>9. Exported(x[2]) /\ Exported(t.scenar)
  BY <1>1, <1>4, <1>8 DEF OnlyExported
<1>10. \A p \in held : Exported(p)
  BY <1>1, <1>9, HeldReached DEF Exported
<1>11. \A k \in 1..Len(stack') :
          Exported(stack'[k].scenar) /\ \A p \in stack'[k].held : Exported(p)
  BY <1>1, <1>5, <1>7, <1>9, <1>10 DEF OnlyExported
<1>12. \A p \in held : UnderWay(p)'
  BY <1>5, <1>7 DEF UnderWay
<1>13. CASE visitor = "ml"
  <2>1. ids' = ids \cup MLNames(x)
    BY <1>13 DEF MLVisit, CPPVisit
  <2>2. ASSUME NEW y \in MLNames(x) \ {x}
        PROVE  y \in score.objects /\ y[1] = "event" /\ y[2] = x[2]
    <3>1. x[1] = "timeSync" /\ y \in DOMAIN score.syncOf /\ score.syncOf[y] = x
      BY <2>2 DEF MLNames, events
    <3>2. DOMAIN score.syncOf = {z \in score.objects : z[1] = "event"}
          /\ score.syncOf[y][2] = y[2]
      BY <3>1, Known DEF ScoreOK
    <3> QED BY <3>1, <3>2
  <2>3. \A y \in ids' \ ids : y \in score.objects /\ y[1] # "state" /\ Exported(y[2])
    BY <1>4, <1>9, <2>1, <2>2
  <2>4. \A y \in ids' \ ids :
           /\ y[1] = "interval" => \A p \in scenariosOf(y) : UnderWay(p)'
           /\ y[1] = "timeSync" => events(y) \subseteq ids'
    <3> SUFFICES ASSUME NEW y \in ids' \ ids
                 PROVE  /\ y[1] = "interval" => \A p \in scenariosOf(y) : UnderWay(p)'
                        /\ y[1] = "timeSync" => events(y) \subseteq ids'
      OBVIOUS
    <3>1. CASE y = x
      <4>1. y[1] = "interval" => \A p \in scenariosOf(y) : UnderWay(p)'
        BY <3>1, <1>12, <1>13
      <4>2. y[1] = "timeSync" => events(y) \subseteq ids'
        BY <3>1, <2>1 DEF MLNames
      <4> QED BY <4>1, <4>2
    <3>2. CASE y # x
      BY <3>2, <2>1, <2>2
    <3> QED BY <3>1, <3>2
  <2>5. ids \subseteq ids'
    BY <2>1
  <2> QED BY <1>1, <1>6, <1>7, <1>11, <2>3, <2>4, <2>5, ExportKept
<1>14. CASE visitor = "cpp"
  <2>1. ids' = ids \cup {x}
    BY <1>14 DEF MLVisit, CPPVisit
  <2>2. \A y \in ids' \ ids : y \in score.objects /\ y[1] # "state" /\ Exported(y[2])
    BY <1>4, <1>9, <2>1
  <2>3. ids \subseteq ids'
    BY <2>1
  <2> QED BY <1>1, <1>6, <1>7, <1>11, <1>14, <2>2, <2>3, ExportKept
<1> QED BY <1>1, <1>13, <1>14

\* A step of the export that changes the innermost scenario, but nothing that is
\* to be entered.
LEMMA TurnExports ==
    ASSUME WalkInv, OnlyExported, NoneForgotten, visitor \in {"ml", "cpp"}, Working,
           UNCHANGED <<score, visitor, roots, ids>>, NEW e \in Frames, ReplaceTop(e),
           e.scenar = top.scenar, e.held = top.held
    PROVE  OnlyExported' /\ NoneForgotten'
<1> USE DEF WalkInv
<1> PICK t : t = top
  OBVIOUS
<1>1. /\ \A k \in 1..Len(stack') :
            stack'[k] = e \/ (k \in 1..Len(stack) /\ stack'[k] = stack[k])
      /\ \A p : UnderWay(p) => UnderWay(p)'
  BY TopTurned
<1>2. \E k \in 1..Len(stack) : stack[k] = t
  BY TopFrame DEF top
<1>3. Exported(t.scenar) /\ \A p \in t.held : Exported(p)
  BY <1>2 DEF OnlyExported
<1>4. \A k \in 1..Len(stack') :
         Exported(stack'[k].scenar) /\ \A p \in stack'[k].held : Exported(p)
  BY <1>1, <1>3 DEF OnlyExported
<1>5. ids \subseteq ids' /\ roots' \subseteq roots /\ ids' \ ids = {}
      /\ (score.first \in roots => score.first \in roots')
  OBVIOUS
<1> QED BY <1>1, <1>4, <1>5, ExportKept

\* A scenario is entered to be exported.
LEMMA EnterExports ==
    ASSUME WalkInv, OnlyExported, NoneForgotten, visitor \in {"ml", "cpp"},
           UNCHANGED <<score, visitor, ids>>, NEW p \in DOMAIN score.kind, Enter(p)
    PROVE  OnlyExported' /\ NoneForgotten'
<1> USE DEF WalkInv
<1> PICK f : f = Frame(p)
  OBVIOUS
<1>1. f \in Frames /\ f.scenar = p /\ f.held = {}
  BY EnteredOK DEF Frame
<1>2. CASE ~Working
  <2>1. stack' = <<f>> /\ p \in roots /\ roots' = roots \ {p} /\ stack = <<>>
    BY <1>2 DEF Enter, Working
  <2>2. Len(stack) = 0 /\ Len(stack') = 1 /\ stack'[1] = f
    BY <2>1
  <2>3. UnderWay(p)' /\ \A q : ~UnderWay(q)
    BY <1>1, <2>2 DEF UnderWay
  <2>4. p = score.first
    BY <2>1 DEF OnlyExported
  <2>5. Exported(p)
    BY <2>4, FirstExported
  <2>6. \A k \in 1..Len(stack') :
           Exported(stack'[k].scenar) /\ \A q \in stack'[k].held : Exported(q)
    BY <1>1, <2>2, <2>5
  <2>7. ids \subseteq ids' /\ roots' \subseteq roots /\ ids' \ ids = {}
    BY <2>1
  <2> QED BY <2>3, <2>4, <2>6, <2>7, ExportKept
<1>3. CASE Working
  <2> PICK t : t = top
    OBVIOUS
  <2>1. /\ stack \in Seq(Frames) /\ stack # <<>> /\ Len(stack) \in Nat /\ Len(stack) >= 1
        /\ t \in Frames /\ t = stack[Len(stack)] /\ p \in t.held
    BY <1>3, TopOK DEF Working, top, Enter
  <2> PICK e : e = [t EXCEPT !.held = @ \ {p}]
    OBVIOUS
  <2>2. e \in Frames /\ e.scenar = t.scenar /\ e.held = t.held \ {p}
    BY <2>1 DEF Frames
  <2> PICK r : r = [stack EXCEPT ![Len(stack)] = e]
    OBVIOUS
  <2>3. r = [stack EXCEPT ![Len(stack)] = e] /\ r = [stack EXCEPT ![Len(stack)].held = @ \ {p}]
    BY <2>1
  <2>4. stack' = Append(r, f) /\ roots' = roots
    BY <1>3, <2>3 DEF Enter
  <2>5. /\ r \in Seq(Frames) /\ Len(r) = Len(stack) /\ r[Len(stack)] = e
        /\ \A k \in 1..(Len(stack) - 1) : r[k] = stack[k]
    BY ONLY <2>1, <2>2, <2>3, Replaced
  <2>6. /\ Len(stack') = Len(r) + 1 /\ stack'[Len(r) + 1] = f
        /\ \A k \in 1..Len(r) : stack'[k] = r[k]
    BY ONLY <1>1, <2>4, <2>5, Pushed
  <2>7. \A k \in 1..Len(stack) : /\ k \in 1..Len(stack')
                                 /\ k = Len(stack) \/ k \in 1..(Len(stack) - 1)
    BY <2>1, <2>5, <2>6
  <2>8. \A k \in 1..Len(stack') : k \in 1..Len(stack) \/ k = Len(stack) + 1
    BY <2>1, <2>5, <2>6
  <2>9. Len(stack) + 1 \in 1..Len(stack') /\ stack'[Len(stack) + 1] = f
    BY <2>1, <2>5, <2>6
  <2>10. \A k \in 1..Len(stack) :
            \/ stack'[k] = stack[k]
            \/ k = Len(stack) /\ stack'[k] = e /\ stack[k] = t
    BY <2>1, <2>5, <2>6, <2>7
  <2>11. UnderWay(p)'
    BY <1>1, <2>9 DEF UnderWay
  <2>12. ASSUME NEW q, UnderWay(q) PROVE UnderWay(q)'
    <3> PICK k \in 1..Len(stack) : stack[k].scenar = q \/ q \in stack[k].held
      BY <2>12 DEF UnderWay
    <3>1. q = p \/ stack'[k].scenar = q \/ q \in stack'[k].held
      BY <2>2, <2>10
    <3> QED BY <2>7, <2>11, <3>1 DEF UnderWay
  <2>13. Exported(t.scenar) /\ \A q \in t.held : Exported(q)
    BY <2>1 DEF OnlyExported
  <2>14. ASSUME NEW k \in 1..Len(stack')
         PROVE  Exported(stack'[k].scenar) /\ \A q \in stack'[k].held : Exported(q)
    <3>1. CASE k = Len(stack) + 1
      BY <1>1, <2>1, <2>9, <2>13, <3>1
    <3>2. CASE k \in 1..Len(stack)
      BY <2>2, <2>10, <2>13, <3>2 DEF OnlyExported
    <3> QED BY <2>8, <3>1, <3>2
  <2>15. ids \subseteq ids' /\ roots' \subseteq roots /\ ids' \ ids = {}
         /\ (score.first \in roots => score.first \in roots')
    BY <2>4
  <2> QED BY <2>12, <2>14, <2>15, ExportKept
<1> QED BY <1>2, <1>3

\* A scenario that is left has been gone through.
LEMMA LeaveExports ==
    ASSUME WalkInv, OnlyExported, NoneForgotten, visitor \in {"ml", "cpp"},
           UNCHANGED <<score, visitor, ids>>, LeaveScenario
    PROVE  OnlyExported' /\ NoneForgotten'
<1> USE DEF WalkInv
<1> PICK t : t = top
  OBVIOUS
<1>1. /\ stack \in Seq(Frames) /\ stack # <<>> /\ Len(stack) \in Nat /\ Len(stack) >= 1
      /\ t \in Frames /\ FrameOK(t) /\ t = stack[Len(stack)]
      /\ t.at = Base /\ t.left = {} /\ t.loop = Len(Containers(visitor))
  BY TopOK DEF LeaveScenario, LoopOver, Working, top
<1>2. t.held = {}
  BY <1>1 DEF FrameOK
<1>3. Finished(t.scenar)
  <2> SUFFICES ASSUME NEW l \in 1..Len(Containers(visitor))
               PROVE  OfKind(score, Containers(visitor)[l], t.scenar) \subseteq ids
    BY DEF Finished
  <2>1. Past(t, l) \subseteq ids
    BY <1>1 DEF FrameOK
  <2> QED BY <1>1, <2>1 DEF Past, Container
<1>4. Finished(t.scenar)'
  BY <1>3, FinishedStays
<1>5. /\ Len(stack') = Len(stack) - 1
      /\ \A k \in 1..(Len(stack) - 1) : stack'[k] = stack[k]
  BY <1>1, Popped DEF LeaveScenario
<1>6. \A k \in 1..Len(stack') : k \in 1..Len(stack) /\ stack'[k] = stack[k]
  BY <1>1, <1>5
<1>7. \A k \in 1..Len(stack) : k = Len(stack) \/ (k \in 1..Len(stack') /\ stack'[k] = stack[k])
  BY <1>1, <1>5
<1>8. ASSUME NEW q, UnderWay(q) PROVE UnderWay(q)' \/ Finished(q)'
  <2> PICK k \in 1..Len(stack) : stack[k].scenar = q \/ q \in stack[k].held
    BY <1>8 DEF UnderWay
  <2>1. CASE k = Len(stack)
    BY <1>1, <1>2, <1>4, <2>1
  <2>2. CASE k # Len(stack)
    <3>1. k \in 1..Len(stack') /\ (stack'[k].scenar = q \/ q \in stack'[k].held)
      BY <1>7, <2>2
    <3> QED BY <3>1 DEF UnderWay
  <2> QED BY <2>1, <2>2
<1>9. \A k \in 1..Len(stack') :
         Exported(stack'[k].scenar) /\ \A p \in stack'[k].held : Exported(p)
  BY <1>6 DEF OnlyExported
<1>10. ids \subseteq ids' /\ roots' \subseteq roots /\ ids' \ ids = {}
       /\ (score.first \in roots => score.first \in roots')
  BY DEF LeaveScenario
<1> QED BY <1>8, <1>9, <1>10, ExportKept

\* The invariant of the exports.
THEOREM ExportInvariance == Spec => []ExportInv
<1>1. Init => OnlyExported /\ NoneForgotten
  <2> SUFFICES ASSUME Init PROVE OnlyExported /\ NoneForgotten
    OBVIOUS
  <2>1. stack = <<>> /\ Len(stack) = 0 /\ ids = {}
    BY DEF Init
  <2>2. visitor \in {"ml", "cpp"} => roots = {score.first}
    BY DEF Init
  <2> QED BY <2>1, <2>2 DEF OnlyExported, NoneForgotten
<1>2. WalkInv /\ OnlyExported /\ NoneForgotten /\ [Next]_vars => OnlyExported' /\ NoneForgotten'
  <2> SUFFICES ASSUME WalkInv, OnlyExported, NoneForgotten, [Next]_vars
               PROVE  OnlyExported' /\ NoneForgotten'
    OBVIOUS
  <2>1. ASSUME NEW x \in score.objects, MLVisit(x) \/ CPPVisit(x)
        PROVE  OnlyExported' /\ NoneForgotten'
    BY <2>1, VisitExports
  <2>2. CASE ExportWalks /\ LeaveInterval
    <3> PICK t : t = top
      OBVIOUS
    <3>1. Working /\ t \in Frames
      BY <2>2, TopFrame DEF LeaveInterval, WalkInv
    <3> PICK e : e = [t EXCEPT !.at = Base]
      OBVIOUS
    <3>2. e \in Frames /\ e.scenar = t.scenar /\ e.held = t.held
      BY <3>1 DEF Frames
    <3>3. ReplaceTop(e) /\ UNCHANGED <<score, visitor, roots, ids>> /\ visitor \in {"ml", "cpp"}
      BY <2>2 DEF LeaveInterval, ExportWalks
    <3> QED BY <3>1, <3>2, <3>3, TurnExports
  <2>3. CASE ExportWalks /\ LeaveScenario
    BY <2>3, LeaveExports DEF ExportWalks
  <2>4. ASSUME ExportWalks, NEW p \in DOMAIN score.kind, Enter(p)
        PROVE  OnlyExported' /\ NoneForgotten'
    BY <2>4, EnterExports DEF ExportWalks
  <2>5. CASE NextContainer /\ visitor \in {"ml", "cpp"}
    <3> PICK t : t = top
      OBVIOUS
    <3>1. Working /\ t \in Frames /\ FrameOK(t) /\ t.loop < Len(Containers(visitor))
      BY <2>5, TopOK DEF NextContainer, LoopOver, WalkInv
    <3> PICK next : next = OfKind(score, Containers(visitor)[t.loop + 1], t.scenar)
      OBVIOUS
    <3> PICK e : e = [t EXCEPT !.loop = @ + 1, !.left = next]
      OBVIOUS
    <3>2. e \in Frames /\ e.scenar = t.scenar /\ e.held = t.held
      <4>1. next \subseteq score.objects
        BY DEF OfKind
      <4>2. t.loop + 1 \in 1..4
        BY <3>1, HowManyContainers DEF WalkInv, WalkTypeOK, Frames
      <4> QED BY <3>1, <4>1, <4>2 DEF Frames
    <3>3. ReplaceTop(e) /\ UNCHANGED <<score, visitor, roots, ids>>
      BY <2>5 DEF NextContainer
    <3> QED BY <2>5, <3>1, <3>2, <3>3, TurnExports
  <2>6. CASE visitor' = visitor /\ visitor \notin {"ml", "cpp"}
    BY <2>6 DEF OnlyExported, NoneForgotten
  <2>7. CASE UNCHANGED vars
    BY <2>7 DEF vars, OnlyExported, NoneForgotten, Exported, Reached, HoldsAll, UnderWay,
                Finished, OfKind, scenariosOf, events
  <2>8. ASSUME NEW x \in score.objects, MetricsVisit(x) \/ StatisticsVisit(x)
        PROVE  visitor' = visitor /\ visitor \notin {"ml", "cpp"}
    BY <2>8 DEF MetricsVisit, StatisticsVisit
  <2>9. ASSUME NEW p \in DOMAIN score.kind, MetricsEnter(p) \/ StatisticsEnter(p)
        PROVE  visitor' = visitor /\ visitor \notin {"ml", "cpp"}
    BY <2>9 DEF MetricsEnter, StatisticsEnter
  <2>10. ASSUME \/ MetricsLeaveInterval \/ MetricsLeave
                \/ StatisticsLeaveInterval \/ StatisticsLeave
         PROVE  visitor' = visitor /\ visitor \notin {"ml", "cpp"}
    BY <2>10 DEF MetricsLeaveInterval, MetricsLeave, StatisticsLeaveInterval, StatisticsLeave
  <2>11. NextContainer => visitor' = visitor
    BY DEF NextContainer
  <2> QED BY <2>1, <2>2, <2>3, <2>4, <2>5, <2>6, <2>7, <2>8, <2>9, <2>10, <2>11
          DEF Next, ExportWalks
<1>3. Init /\ [][Next]_vars /\ []WalkInv => [](OnlyExported /\ NoneForgotten)
  BY <1>1, <1>2, PTL
<1> QED BY <1>3, WalkInvariance, PTL DEF Spec, ExportInv

\* Nothing is looked up before it was given, and in the end the ML text has
\* every interval, sync and event of the scenarios within the first, however
\* they are nested, and the C++ text those of the first: nothing is left out,
\* nothing of another scenario is there.
THEOREM IdsAreKnown == Spec => []IdsKnown
<1>1. ExportInv => IdsKnown
  <2> SUFFICES ASSUME ExportInv PROVE IdsKnown
    OBVIOUS
  <2> USE DEF ExportInv, WalkInv
  <2> SUFFICES ASSUME visitor \in {"ml", "cpp"}, Done
               PROVE  ids = {x \in score.objects : x[1] # "state" /\
                                IF visitor = "ml" THEN Reached(x[2]) ELSE x[2] = score.first}
    BY DEF IdsKnown
  <2>1. ids \subseteq {x \in score.objects : x[1] # "state" /\ Exported(x[2])}
    BY DEF OnlyExported
  <2>2. roots = {} /\ \A p : ~UnderWay(p)
    <3>1. Len(stack) = 0 /\ roots = {}
      BY DEF Done, Working
    <3> QED BY <3>1 DEF UnderWay
  <2>3. Finished(score.first)
    BY <2>2 DEF NoneForgotten
  <2>4. ScoreOK(score)
    BY Known
  <2>5. ASSUME NEW x \in score.objects, x[1] # "state", Exported(x[2]) PROVE x \in ids
    <3>1. x[1] \in {"interval", "event", "timeSync"} /\ x[2] \in DOMAIN score.kind
      BY <2>4, <2>5 DEF ScoreOK
    <3>2. CASE visitor = "cpp"
      <4>1. /\ Len(Containers(visitor)) = 3 /\ Containers(visitor)[1] = "timeSync"
            /\ Containers(visitor)[2] = "event" /\ Containers(visitor)[3] = "interval"
        BY <3>2 DEF Containers
      <4>2. \A l \in 1..3 : OfKind(score, Containers(visitor)[l], score.first) \subseteq ids
        BY <2>3, <4>1 DEF Finished
      <4>3. x[2] = score.first
        BY <2>5, <3>2 DEF Exported
      <4> QED BY <2>5, <3>1, <4>1, <4>2, <4>3 DEF OfKind
    <3>3. CASE visitor = "ml"
      <4> PICK S : S = {p \in DOMAIN score.kind : Finished(p)}
        OBVIOUS
      <4>1. /\ Len(Containers(visitor)) = 2 /\ Containers(visitor)[1] = "interval"
            /\ Containers(visitor)[2] = "timeSync"
        BY <3>3 DEF Containers
      <4>2. \A p : Finished(p) =>
               /\ OfKind(score, "interval", p) \subseteq ids
               /\ OfKind(score, "timeSync", p) \subseteq ids
        BY <4>1 DEF Finished
      <4>3. ASSUME NEW p \in DOMAIN score.kind, score.holder[p] # Base, score.holder[p][2] \in S
            PROVE  p \in S
        <5> PICK c : c = score.holder[p]
          OBVIOUS
        <5>1. c \in score.objects /\ c[1] = "interval" /\ c[2] \in S
          BY <2>4, <4>3 DEF ScoreOK
        <5>2. c \in ids
          BY <4>2, <5>1 DEF OfKind
        <5>3. CASE score.kind[p] = "scenario"
          <6>1. p \in scenariosOf(c)
            BY <5>3 DEF scenariosOf
          <6> QED BY <2>2, <3>3, <5>1, <5>2, <6>1 DEF NoneForgotten
        <5>4. CASE score.kind[p] # "scenario"
          <6>1. \A kind : OfKind(score, kind, p) = {}
            BY <2>4, <5>4 DEF ScoreOK, OfKind
          <6> QED BY <6>1 DEF Finished
        <5> QED BY <5>3, <5>4
      <4>4. score.first \in S
        BY <2>3, <2>4 DEF ScoreOK
      <4>5. HoldsAll(S)
        BY <4>3, <4>4 DEF HoldsAll
      <4>6. x[2] \in S
        BY <2>5, <3>3, <4>5 DEF Exported, Reached
      <4>7. x[1] \in {"interval", "timeSync"} => x \in ids
        BY <4>2, <4>6 DEF OfKind
      <4>8. ASSUME x[1] = "event" PROVE x \in ids
        <5>1. x \in DOMAIN score.syncOf
          BY <2>4, <4>8, SameScenario
        <5> PICK tn : tn = parentTimeSync(x)
          OBVIOUS
        <5>2. tn \in OfKind(score, "timeSync", x[2])
          BY <2>4, <5>1, SameScenario
        <5>3. tn \in ids /\ tn[1] = "timeSync"
          BY <4>2, <4>6, <5>2 DEF OfKind
        <5>4. x \in events(tn)
          BY <5>1 DEF events, parentTimeSync
        <5> QED BY <3>3, <5>3, <5>4 DEF NoneForgotten
      <4> QED BY <3>1, <4>7, <4>8
    <3> QED BY <3>2, <3>3
  <2> QED BY <2>1, <2>5 DEF Exported
<1> QED BY <1>1, ExportInvariance, PTL

-----------------------------------------------------------------------------
(* The two visitors of the grammar: what HalsteadVisitor counts over all   *)
(* scenarios being visited is what LanguageVisitor has written.            *)

\* Over all of fs, op was counted total times: T[k] times in the first k.
CountedIn(f, op) == Copies(op, f.operators)
SumsTo(fs, op, total) ==
    /\ fs \in Seq(Range(fs))
    /\ \A k \in 1..Len(fs) : "operators" \in DOMAIN fs[k] /\ CountedIn(fs[k], op) \in Nat
    /\ \E T \in [0..Len(fs) -> Nat] :
          /\ T[0] = 0 /\ T[Len(fs)] = total
          /\ \A k \in 1..Len(fs) : T[k] = T[k - 1] + CountedIn(fs[k], op)

\* One ScenarioFactors for each scenario being visited, and in the end that of
\* the first; an operator was counted in them as often as it was written.
FactorsTell ==
    visitor = "metrics" =>
        /\ roots \subseteq {score.first}
        /\ IF stack # <<>> THEN roots = {} /\ Len(factors) = Len(stack)
           ELSE IF roots = {} THEN Len(factors) = 1 ELSE factors = <<>>
        /\ \A op \in operators_t : SumsTo(factors, op, Copies(<<op>>, words))

\* Copies in two bags, and in the bag of a sequence that grows.
LEMMA CopiesOfBoth ==
    ASSUME NEW A, NEW B, NEW x
    PROVE  Copies(x, A (+) B) = Copies(x, A) + Copies(x, B)
BY DEF Copies, (+), BagIn, BagToSet

\* Nothing is in the empty bag.
LEMMA CopiesOfNone == ASSUME NEW x PROVE Copies(x, EmptyBag) = 0
BY DEF Copies, EmptyBag, BagIn, BagToSet, SetToBag

\* The copies in the bag of a sequence are its places in the sequence.
LEMMA CopiesAre ==
    ASSUME NEW S, NEW s \in Seq(S), NEW x
    PROVE  /\ Copies(x, ToBag(s)) = Cardinality({k \in 1..Len(s) : s[k] = x})
           /\ IsFiniteSet({k \in 1..Len(s) : s[k] = x})
           /\ Copies(x, ToBag(s)) \in Nat
<1> PICK K : K = {k \in 1..Len(s) : s[k] = x}
  OBVIOUS
<1>1. IsFiniteSet(K)
  BY FS_Interval, FS_Subset
<1>2. DOMAIN s = 1..Len(s)
  OBVIOUS
<1>3. CASE x \in Range(s)
  <2>1. Copies(x, ToBag(s)) = Cardinality(K)
    BY <1>2, <1>3 DEF Copies, ToBag, BagIn, BagToSet
  <2> QED BY <1>1, <2>1, FS_CardinalityType
<1>4. CASE x \notin Range(s)
  <2>1. Copies(x, ToBag(s)) = 0
    BY <1>4 DEF Copies, ToBag, BagIn, BagToSet
  <2>2. K = {}
    BY <1>2, <1>4 DEF Range
  <2> QED BY <1>1, <2>1, <2>2, FS_EmptySet
<1> QED BY <1>3, <1>4

\* One element more.
LEMMA CopiesAppended ==
    ASSUME NEW S, NEW s \in Seq(S), NEW e \in S, NEW x
    PROVE  Copies(x, ToBag(Append(s, e))) = Copies(x, ToBag(s)) + (IF e = x THEN 1 ELSE 0)
<1> PICK t : t = Append(s, e)
  OBVIOUS
<1>1. /\ t \in Seq(S) /\ Len(s) \in Nat /\ Len(t) = Len(s) + 1 /\ t[Len(s) + 1] = e
      /\ \A k \in 1..Len(s) : t[k] = s[k]
  OBVIOUS
<1> PICK K : K = {k \in 1..Len(s) : s[k] = x}
  OBVIOUS
<1> PICK L : L = {k \in 1..Len(t) : t[k] = x}
  OBVIOUS
<1>2. /\ Copies(x, ToBag(s)) = Cardinality(K) /\ IsFiniteSet(K) /\ Cardinality(K) \in Nat
      /\ Copies(x, ToBag(t)) = Cardinality(L)
  <2>1. Copies(x, ToBag(s)) = Cardinality(K) /\ IsFiniteSet(K)
    BY CopiesAre
  <2>2. Copies(x, ToBag(t)) = Cardinality(L)
    BY ONLY t \in Seq(S), L = {k \in 1..Len(t) : t[k] = x}, <1>1, CopiesAre
  <2> QED BY <2>1, <2>2, FS_CardinalityType
<1>3. CASE e = x
  <2>1. L = K \cup {Len(s) + 1} /\ Len(s) + 1 \notin K
    BY <1>1, <1>3
  <2>2. Cardinality(L) = Cardinality(K) + 1
    BY <1>2, <2>1, FS_AddElement
  <2> QED BY <1>2, <1>3, <2>2
<1>4. CASE e # x
  <2>1. L = K
    BY <1>1, <1>4
  <2> QED BY ONLY t = Append(s, e), <1>2, <1>4, <2>1
<1> QED BY <1>3, <1>4

\* The copies in a line of one word, of two and of three.
LEMMA CopiesOfOne ==
    ASSUME NEW a, NEW x, NEW line, line = <<a>>
    PROVE  Copies(x, ToBag(line)) = IF a = x THEN 1 ELSE 0
<1> PICK S : S = {a}
  OBVIOUS
<1> PICK none : none = <<>>
  OBVIOUS
<1>1. none \in Seq(S) /\ a \in S /\ line = Append(none, a)
  OBVIOUS
<1>2. Copies(x, ToBag(none)) = 0
  <2>1. {k \in 1..Len(none) : none[k] = x} = {}
    OBVIOUS
  <2>2. Copies(x, ToBag(none)) = Cardinality({k \in 1..Len(none) : none[k] = x})
    BY ONLY <1>1, CopiesAre
  <2> QED BY ONLY <2>1, <2>2, FS_EmptySet
<1>3. Copies(x, ToBag(line)) = Copies(x, ToBag(none)) + (IF a = x THEN 1 ELSE 0)
  BY ONLY <1>1, CopiesAppended
<1> QED BY ONLY <1>2, <1>3

\* Two words.
LEMMA CopiesOfTwo ==
    ASSUME NEW a, NEW b, NEW x, NEW line, line = <<a, b>>
    PROVE  Copies(x, ToBag(line)) = (IF a = x THEN 1 ELSE 0) + (IF b = x THEN 1 ELSE 0)
<1> PICK S : S = {a, b}
  OBVIOUS
<1> PICK one : one = <<a>>
  OBVIOUS
<1>1. one \in Seq(S) /\ b \in S /\ line = Append(one, b)
  OBVIOUS
<1>2. Copies(x, ToBag(one)) = IF a = x THEN 1 ELSE 0
  BY ONLY one = <<a>>, CopiesOfOne
<1>3. Copies(x, ToBag(line)) = Copies(x, ToBag(one)) + (IF b = x THEN 1 ELSE 0)
  BY ONLY <1>1, CopiesAppended
<1> QED BY ONLY <1>2, <1>3

\* Three words.
LEMMA CopiesOfThree ==
    ASSUME NEW a, NEW b, NEW c, NEW x, NEW line, line = <<a, b, c>>
    PROVE  Copies(x, ToBag(line)) =
              (IF a = x THEN 1 ELSE 0) + (IF b = x THEN 1 ELSE 0) + (IF c = x THEN 1 ELSE 0)
<1> PICK S : S = {a, b, c}
  OBVIOUS
<1> PICK two : two = <<a, b>>
  OBVIOUS
<1>1. two \in Seq(S) /\ c \in S /\ line = Append(two, c)
  OBVIOUS
<1>2. Copies(x, ToBag(two)) = (IF a = x THEN 1 ELSE 0) + (IF b = x THEN 1 ELSE 0)
  BY ONLY two = <<a, b>>, CopiesOfTwo
<1>3. Copies(x, ToBag(line)) = Copies(x, ToBag(two)) + (IF c = x THEN 1 ELSE 0)
  BY ONLY <1>1, CopiesAppended
<1> QED BY ONLY <1>2, <1>3

\* In the line of an object every other word is an operator, and the one after it
\* a name or a value.
LEMMA EveryOther ==
    ASSUME NEW S, NEW ops \in Seq(S), NEW W, NEW line \in Seq(W), NEW op,
           Len(line) = 2 * Len(ops),
           \A k \in 1..Len(ops) : line[2 * k - 1] = <<ops[k]>> /\ line[2 * k] # <<op>>
    PROVE  /\ Copies(op, ToBag(ops)) = Copies(<<op>>, ToBag(line))
           /\ Copies(op, ToBag(ops)) \in Nat
<1> PICK K : K = {k \in 1..Len(ops) : ops[k] = op}
  OBVIOUS
<1> PICK L : L = {k \in 1..Len(line) : line[k] = <<op>>}
  OBVIOUS
<1> PICK f : f = [k \in K |-> 2 * k - 1]
  OBVIOUS
<1>1. /\ Copies(op, ToBag(ops)) = Cardinality(K) /\ IsFiniteSet(K)
      /\ Copies(op, ToBag(ops)) \in Nat /\ Copies(<<op>>, ToBag(line)) = Cardinality(L)
  <2>1. /\ Copies(op, ToBag(ops)) = Cardinality(K) /\ IsFiniteSet(K)
        /\ Copies(op, ToBag(ops)) \in Nat
    BY CopiesAre
  <2> PICK word : word = <<op>>
    OBVIOUS
  <2>2. L = {k \in 1..Len(line) : line[k] = word}
    OBVIOUS
  <2>3. Copies(word, ToBag(line)) = Cardinality(L)
    BY ONLY <2>2, line \in Seq(W), CopiesAre
  <2> QED BY <2>1, <2>3
<1>2. f \in Bijection(K, L)
  <2>1. Len(ops) \in Nat
    OBVIOUS
  <2>2. \A k \in K : k \in 1..Len(ops) /\ 2 * k - 1 \in 1..Len(line) /\ line[2 * k - 1] = <<op>>
    BY <2>1
  <2>3. f \in [K -> L]
    BY <2>2
  <2>4. \A j, k \in K : f[j] = f[k] => j = k
    BY <2>1
  <2>5. ASSUME NEW j \in L PROVE \E k \in K : f[k] = j
    <3>1. j \in 1..(2 * Len(ops)) /\ line[j] = <<op>>
      OBVIOUS
    <3>2. \E k \in 1..Len(ops) : j = 2 * k - 1 \/ j = 2 * k
      <4> PICK k : k = (j + 1) \div 2
        OBVIOUS
      <4>1. j \in Int /\ 1 <= j /\ j <= 2 * Len(ops)
        BY <2>1, <3>1
      <4>2. k \in 1..Len(ops) /\ (j = 2 * k - 1 \/ j = 2 * k)
        BY ONLY <2>1, <4>1, k = (j + 1) \div 2
      <4> QED BY <4>2
    <3> PICK k \in 1..Len(ops) : j = 2 * k - 1 \/ j = 2 * k
      BY <3>2
    <3>3. j = 2 * k - 1
      BY <3>1
    <3>4. <<ops[k]>> = <<op>>
      BY <3>1, <3>3
    <3>5. k \in K
      BY <3>4
    <3> QED BY <3>3, <3>5
  <2> QED BY <2>3, <2>4, <2>5 DEF Bijection, Injection, Surjection, IsInjective
<1> QED BY <1>1, <1>2, FS_Bijection DEF ExistsBijection

\* Two sequences joined.
LEMMA JoinedIs ==
    ASSUME NEW S, NEW s \in Seq(S), NEW t \in Seq(S), NEW u \in Seq(S), Len(u) = Len(s) + Len(t),
           \A k \in 1..Len(s) : u[k] = s[k], \A k \in 1..Len(t) : u[Len(s) + k] = t[k]
    PROVE  s \o t = u
<1> PICK v : v = s \o t
  OBVIOUS
<1>1. v \in Seq(S) /\ Len(v) = Len(s) + Len(t)
  OBVIOUS
<1>2. ASSUME NEW k \in 1..Len(v) PROVE v[k] = u[k]
  <2>1. CASE k <= Len(s)
    BY <1>1, <2>1
  <2>2. CASE k > Len(s)
    <3> PICK j : j = k - Len(s)
      OBVIOUS
    <3>1. j \in 1..Len(t) /\ k = Len(s) + j /\ Len(s) \in Nat
      BY <1>1, <2>2
    <3>2. v[k] = t[j]
      BY <1>1, <2>2, <3>1
    <3>3. u[Len(s) + j] = t[j]
      BY <3>1
    <3> QED BY <3>1, <3>2, <3>3
  <2> QED BY <1>1, <2>1, <2>2
<1>3. v = u
  BY ONLY <1>1, <1>2, u \in Seq(S), Len(u) = Len(s) + Len(t)
<1> QED BY <1>3

\* Two lines of four words.
LEMMA Joined44 ==
    ASSUME NEW S, NEW s \in Seq(S), NEW t \in Seq(S), NEW u \in Seq(S),
           Len(s) = 4, Len(t) = 4, Len(u) = 8,
           \A k \in 1..4 : u[k] = s[k], \A k \in 1..4 : u[4 + k] = t[k]
    PROVE  s \o t = u
<1>1. \A k \in 1..Len(s) : u[k] = s[k]
  OBVIOUS
<1>2. \A k \in 1..Len(t) : u[Len(s) + k] = t[k]
  OBVIOUS
<1>3. s \in Seq(S) /\ t \in Seq(S) /\ u \in Seq(S) /\ Len(u) = Len(s) + Len(t)
  OBVIOUS
<1> QED BY ONLY <1>1, <1>2, <1>3, JoinedIs

\* A line of two words and what follows it.
LEMMA Joined24 ==
    ASSUME NEW a, NEW b, NEW c, NEW d, NEW e, NEW f,
           NEW s, s = <<a, b>>, NEW t, t = <<c, d, e, f>>
    PROVE  s \o t = <<a, b, c, d, e, f>>
<1> PICK S : S = {a, b, c, d, e, f}
  OBVIOUS
<1> PICK u : u = <<a, b, c, d, e, f>>
  OBVIOUS
<1>1. a \in S /\ b \in S /\ c \in S /\ d \in S /\ e \in S /\ f \in S
  OBVIOUS
<1>2. s \in Seq(S) /\ t \in Seq(S) /\ u \in Seq(S)
  BY ONLY <1>1,
          s = <<a, b>>, t = <<c, d, e, f>>, u = <<a, b, c, d, e, f>>
<1>3. Len(s) = 2 /\ Len(t) = 4 /\ Len(u) = Len(s) + Len(t)
  BY ONLY s = <<a, b>>, t = <<c, d, e, f>>, u = <<a, b, c, d, e, f>>
<1>4. \A k \in 1..2 : u[k] = s[k]
  BY ONLY s = <<a, b>>, t = <<c, d, e, f>>, u = <<a, b, c, d, e, f>>
<1>5. \A k \in 1..4 : u[2 + k] = t[k]
  BY ONLY s = <<a, b>>, t = <<c, d, e, f>>, u = <<a, b, c, d, e, f>>
<1>6. \A k \in 1..Len(s) : u[k] = s[k]
  BY ONLY <1>3, <1>4
<1>7. \A k \in 1..Len(t) : u[Len(s) + k] = t[k]
  BY ONLY <1>3, <1>5
<1>8. s \o t = u
  BY ONLY <1>2, <1>3, <1>6, <1>7, JoinedIs
<1> QED BY <1>8

\* Nothing before it, or after.
LEMMA JoinedNone ==
    ASSUME NEW S, NEW s \in Seq(S) PROVE s \o <<>> = s /\ <<>> \o s = s
OBVIOUS

\* In lines of one to four operators every other word is one, and the one after
\* it a name or a value.
LEMMA SameCounts1 ==
    ASSUME NEW op, NEW o1,
           NEW a,
           a # <<op>>,
           NEW ops, ops = <<o1>>,
           NEW w1, w1 = <<o1>>,
           NEW line, line = <<w1, a>>
    PROVE  /\ Copies(op, ToBag(ops)) = Copies(<<op>>, ToBag(line))
           /\ Copies(op, ToBag(ops)) \in Nat
<1> PICK S : S = {o1}
  OBVIOUS
<1> PICK W : W = {w1, a}
  OBVIOUS
<1>1. ops \in Seq(S) /\ Len(ops) = 1
  <2>1. o1 \in S
    OBVIOUS
  <2> QED BY ONLY <2>1, ops = <<o1>>
<1>2. line \in Seq(W) /\ Len(line) = 2 * 1
  <2>1. w1 \in W /\ a \in W
    OBVIOUS
  <2>2. line = <<w1, a>>
    OBVIOUS
  <2> QED BY ONLY <2>1, <2>2
<1>3. \A k \in 1..1 : line[2 * k - 1] = <<ops[k]>> /\ line[2 * k] # <<op>>
  OBVIOUS
<1>4. Len(line) = 2 * Len(ops)
  BY <1>1, <1>2
<1> QED BY ONLY <1>1, <1>2, <1>3, <1>4, EveryOther

\* The same for two operators.
LEMMA SameCounts2 ==
    ASSUME NEW op, NEW o1, NEW o2,
           NEW a, NEW b,
           a # <<op>>, b # <<op>>,
           NEW ops, ops = <<o1, o2>>,
           NEW w1, w1 = <<o1>>, NEW w2, w2 = <<o2>>,
           NEW line, line = <<w1, a, w2, b>>
    PROVE  /\ Copies(op, ToBag(ops)) = Copies(<<op>>, ToBag(line))
           /\ Copies(op, ToBag(ops)) \in Nat
<1> PICK S : S = {o1, o2}
  OBVIOUS
<1> PICK W : W = {w1, w2, a, b}
  OBVIOUS
<1>1. ops \in Seq(S) /\ Len(ops) = 2
  <2>1. o1 \in S /\ o2 \in S
    OBVIOUS
  <2> QED BY ONLY <2>1, ops = <<o1, o2>>
<1>2. line \in Seq(W) /\ Len(line) = 2 * 2
  <2>1. w1 \in W /\ w2 \in W /\ a \in W /\ b \in W
    OBVIOUS
  <2>2. line = <<w1, a, w2, b>>
    OBVIOUS
  <2> QED BY ONLY <2>1, <2>2
<1>3. \A k \in 1..2 : line[2 * k - 1] = <<ops[k]>> /\ line[2 * k] # <<op>>
  OBVIOUS
<1>4. Len(line) = 2 * Len(ops)
  BY <1>1, <1>2
<1> QED BY ONLY <1>1, <1>2, <1>3, <1>4, EveryOther

\* The same for three operators.
LEMMA SameCounts3 ==
    ASSUME NEW op, NEW o1, NEW o2, NEW o3,
           NEW a, NEW b, NEW c,
           a # <<op>>, b # <<op>>, c # <<op>>,
           NEW ops, ops = <<o1, o2, o3>>,
           NEW w1, w1 = <<o1>>, NEW w2, w2 = <<o2>>, NEW w3, w3 = <<o3>>,
           NEW line, line = <<w1, a, w2, b, w3, c>>
    PROVE  /\ Copies(op, ToBag(ops)) = Copies(<<op>>, ToBag(line))
           /\ Copies(op, ToBag(ops)) \in Nat
<1> PICK S : S = {o1, o2, o3}
  OBVIOUS
<1> PICK W : W = {w1, w2, w3, a, b, c}
  OBVIOUS
<1>1. ops \in Seq(S) /\ Len(ops) = 3
  <2>1. o1 \in S /\ o2 \in S /\ o3 \in S
    OBVIOUS
  <2> QED BY ONLY <2>1, ops = <<o1, o2, o3>>
<1>2. line \in Seq(W) /\ Len(line) = 2 * 3
  <2>1. w1 \in W /\ w2 \in W /\ w3 \in W /\ a \in W /\ b \in W /\ c \in W
    OBVIOUS
  <2>2. line = <<w1, a, w2, b, w3, c>>
    OBVIOUS
  <2> QED BY ONLY <2>1, <2>2
<1>3. \A k \in 1..3 : line[2 * k - 1] = <<ops[k]>> /\ line[2 * k] # <<op>>
  OBVIOUS
<1>4. Len(line) = 2 * Len(ops)
  BY <1>1, <1>2
<1> QED BY ONLY <1>1, <1>2, <1>3, <1>4, EveryOther

\* The same for four operators.
LEMMA SameCounts4 ==
    ASSUME NEW op, NEW o1, NEW o2, NEW o3, NEW o4,
           NEW a, NEW b, NEW c, NEW d,
           a # <<op>>, b # <<op>>, c # <<op>>, d # <<op>>,
           NEW ops, ops = <<o1, o2, o3, o4>>,
           NEW w1, w1 = <<o1>>, NEW w2, w2 = <<o2>>, NEW w3, w3 = <<o3>>, NEW w4, w4 = <<o4>>,
           NEW line, line = <<w1, a, w2, b, w3, c, w4, d>>
    PROVE  /\ Copies(op, ToBag(ops)) = Copies(<<op>>, ToBag(line))
           /\ Copies(op, ToBag(ops)) \in Nat
<1> PICK S : S = {o1, o2, o3, o4}
  OBVIOUS
<1> PICK W : W = {w1, w2, w3, w4, a, b, c, d}
  OBVIOUS
<1>1. ops \in Seq(S) /\ Len(ops) = 4
  <2>1. o1 \in S /\ o2 \in S /\ o3 \in S /\ o4 \in S
    OBVIOUS
  <2> QED BY ONLY <2>1, ops = <<o1, o2, o3, o4>>
<1>2. line \in Seq(W) /\ Len(line) = 2 * 4
  <2>1. w1 \in W /\ w2 \in W /\ w3 \in W /\ w4 \in W /\ a \in W /\ b \in W /\ c \in W /\ d \in W
    OBVIOUS
  <2>2. line = <<w1, a, w2, b, w3, c, w4, d>>
    OBVIOUS
  <2> QED BY ONLY <2>1, <2>2
<1>3. \A k \in 1..4 : line[2 * k - 1] = <<ops[k]>> /\ line[2 * k] # <<op>>
  OBVIOUS
<1>4. Len(line) = 2 * Len(ops)
  BY <1>1, <1>2
<1> QED BY ONLY <1>1, <1>2, <1>3, <1>4, EveryOther

\* A word that is in a line only at the places g of a sequence of names.
Places(names, line, g, w) ==
    /\ \A k \in 1..Len(names) : g[k] \in 1..Len(line) /\ line[g[k]] = names[k]
    /\ \A j, k \in 1..Len(names) : g[j] = g[k] => j = k
    /\ \A i \in 1..Len(line) : line[i] = w => \E k \in 1..Len(names) : g[k] = i

\* A name is as often in a list as it has places in the line.
LEMMA SameCopies ==
    ASSUME NEW S, NEW names \in Seq(S), NEW W, NEW line \in Seq(W), NEW g, NEW w,
           Places(names, line, g, w)
    PROVE  Copies(w, ToBag(names)) = Copies(w, ToBag(line))
<1> PICK K : K = {k \in 1..Len(names) : names[k] = w}
  OBVIOUS
<1> PICK L : L = {i \in 1..Len(line) : line[i] = w}
  OBVIOUS
<1> PICK f : f = [k \in K |-> g[k]]
  OBVIOUS
<1>0. /\ \A k \in 1..Len(names) : g[k] \in 1..Len(line) /\ line[g[k]] = names[k]
      /\ \A j, k \in 1..Len(names) : g[j] = g[k] => j = k
      /\ \A i \in 1..Len(line) : line[i] = w => \E k \in 1..Len(names) : g[k] = i
  BY DEF Places
<1>1. Copies(w, ToBag(names)) = Cardinality(K) /\ IsFiniteSet(K)
  BY CopiesAre
<1>2. Copies(w, ToBag(line)) = Cardinality(L)
  BY CopiesAre
<1>3. f \in Bijection(K, L)
  <2>1. f \in [K -> L]
    BY <1>0
  <2>2. \A j, k \in K : f[j] = f[k] => j = k
    BY <1>0
  <2>3. ASSUME NEW i \in L PROVE \E k \in K : f[k] = i
    <3>1. PICK k \in 1..Len(names) : g[k] = i
      BY <1>0
    <3>2. k \in K
      BY <1>0, <3>1
    <3> QED BY <3>1, <3>2
  <2> QED BY <2>1, <2>2, <2>3 DEF Bijection, Injection, Surjection, IsInjective
<1> QED BY <1>1, <1>2, <1>3, FS_Bijection DEF ExistsBijection

\* But for its times and their brackets, the line of an interval has the words of one
\* with a fixed duration.
LEMMA IntervalLine ==
    ASSUME NEW x, x[1] = "interval", NEW w, w # <<"[;]">>, w # <<"time">>,
           NEW short, short = << <<"interval">>, Name(x), <<"after">>, Name(score.startState[x]),
                                 <<"duration">>, <<"time">>, <<"of">>, Name(x)>>
    PROVE  Copies(w, ToBag(Line(x))) = Copies(w, ToBag(short))
<1> PICK a, c, e, t, f :
       /\ a = <<"interval">> /\ c = <<"after">> /\ e = <<"duration">> /\ t = <<"time">>
       /\ f = <<"of">>
  OBVIOUS
<1> PICK b, d, bracket, time :
       /\ b = Name(x) /\ d = Name(score.startState[x]) /\ bracket = <<"[;]">>
       /\ time = Duration(x)
  OBVIOUS
<1> PICK head, tail : head = <<a, b, c, d, e>> /\ tail = <<f, b>>
  OBVIOUS
<1> PICK W : W = {a, b, c, d, e, t, f, bracket}
  OBVIOUS
<1>1. a \in W /\ b \in W /\ c \in W /\ d \in W /\ e \in W /\ t \in W /\ f \in W
      /\ bracket \in W
  OBVIOUS
<1>2. /\ head = <<a, b, c, d, e>> /\ tail = <<f, b>>
      /\ short = <<a, b, c, d, e, t, f, b>>
  OBVIOUS
<1>3. /\ head \in Seq(W) /\ tail \in Seq(W) /\ short \in Seq(W)
      /\ Len(head) = 5 /\ Len(tail) = 2 /\ Len(short) = 8
  BY ONLY <1>1, <1>2
<1>4. w # bracket /\ w # t
  OBVIOUS
<1>5. ASSUME time = <<t>>
      PROVE  Copies(w, ToBag(head \o time \o tail)) = Copies(w, ToBag(short))
  <2> PICK u : u = <<a, b, c, d, e, t>>
    OBVIOUS
  <2>1. u \in Seq(W) /\ Len(u) = 6 /\ time \in Seq(W) /\ Len(time) = 1
    BY ONLY <1>1, <1>5, u = <<a, b, c, d, e, t>>
  <2>2. (\A k \in 1..5 : u[k] = head[k]) /\ \A k \in 1..1 : u[5 + k] = time[k]
    BY ONLY <1>2, <1>5, u = <<a, b, c, d, e, t>>
  <2>3. (\A k \in 1..6 : short[k] = u[k]) /\ \A k \in 1..2 : short[6 + k] = tail[k]
    BY ONLY <1>2, u = <<a, b, c, d, e, t>>
  <2>4. head \o time = u
    <3>1. /\ Len(u) = Len(head) + Len(time) /\ \A k \in 1..Len(head) : u[k] = head[k]
          /\ \A k \in 1..Len(time) : u[Len(head) + k] = time[k]
      BY ONLY <1>3, <2>1, <2>2
    <3> QED BY ONLY <1>3, <2>1, <3>1, JoinedIs
  <2>5. u \o tail = short
    <3>1. /\ Len(short) = Len(u) + Len(tail) /\ \A k \in 1..Len(u) : short[k] = u[k]
          /\ \A k \in 1..Len(tail) : short[Len(u) + k] = tail[k]
      BY ONLY <1>3, <2>1, <2>3
    <3> QED BY ONLY <1>3, <2>1, <3>1, JoinedIs
  <2> QED BY ONLY <2>4, <2>5
<1>6. ASSUME time = <<bracket, t, t>>
      PROVE  Copies(w, ToBag(head \o time \o tail)) = Copies(w, ToBag(short))
  <2> PICK u, v : /\ u = <<a, b, c, d, e, bracket, t, t>>
                  /\ v = <<a, b, c, d, e, bracket, t, t, f, b>>
    OBVIOUS
  <2>1. u = <<a, b, c, d, e, bracket, t, t>> /\ v = <<a, b, c, d, e, bracket, t, t, f, b>>
    OBVIOUS
  <2>2. /\ u \in Seq(W) /\ Len(u) = 8 /\ time \in Seq(W) /\ Len(time) = 3
        /\ v \in Seq(W) /\ Len(v) = 10
    BY ONLY <1>1, <1>6, <2>1
  <2>3. (\A k \in 1..5 : u[k] = head[k]) /\ \A k \in 1..3 : u[5 + k] = time[k]
    BY ONLY <1>2, <1>6, <2>1
  <2>4. (\A k \in 1..8 : v[k] = u[k]) /\ \A k \in 1..2 : v[8 + k] = tail[k]
    BY ONLY <1>2, <2>1
  <2>5. head \o time = u
    <3>1. /\ Len(u) = Len(head) + Len(time) /\ \A k \in 1..Len(head) : u[k] = head[k]
          /\ \A k \in 1..Len(time) : u[Len(head) + k] = time[k]
      BY ONLY <1>3, <2>2, <2>3
    <3> QED BY ONLY <1>3, <2>2, <3>1, JoinedIs
  <2>6. u \o tail = v
    <3>1. /\ Len(v) = Len(u) + Len(tail) /\ \A k \in 1..Len(u) : v[k] = u[k]
          /\ \A k \in 1..Len(tail) : v[Len(u) + k] = tail[k]
      BY ONLY <1>3, <2>2, <2>4
    <3> QED BY ONLY <1>3, <2>2, <3>1, JoinedIs
  <2> PICK at : at = <<1, 2, 3, 4, 5, 7, 9, 10>>
    OBVIOUS
  <2>7. /\ at[1] = 1 /\ at[2] = 2 /\ at[3] = 3 /\ at[4] = 4 /\ at[5] = 5 /\ at[6] = 7
        /\ at[7] = 9 /\ at[8] = 10
    OBVIOUS
  <2>8. \A k \in 1..8 : at[k] \in 1..10 /\ v[at[k]] = short[k]
    BY ONLY <1>2, <2>1, <2>7
  <2>9. \A j, k \in 1..8 : at[j] = at[k] => j = k
    BY ONLY <2>7
  <2>10. v[6] # w /\ v[8] # w
    BY ONLY <1>4, <2>1
  <2>11. \A i \in 1..10 : v[i] = w => \E k \in 1..8 : at[k] = i
    BY ONLY <2>7, <2>10
  <2>12. Places(short, v, at, w)
    BY ONLY <1>3, <2>2, <2>8, <2>9, <2>11 DEF Places
  <2>13. Copies(w, ToBag(short)) = Copies(w, ToBag(v))
    BY ONLY <1>3, <2>2, <2>12, SameCopies
  <2> QED BY ONLY <2>5, <2>6, <2>13
<1>7. time = <<t>> \/ time = <<bracket, t, t>>
  BY DEF Duration
<1>8. Line(x) = head \o time \o tail
  BY DEF Line
<1> QED BY <1>5, <1>6, <1>7, <1>8

\* The line that LanguageVisitor writes for an object has the operators that
\* HalsteadVisitor counts for it.
LEMMA LineCounts ==
    ASSUME NEW x \in score.objects, ScoreOK(score), NEW op \in operators_t
    PROVE  /\ Copies(op, ToBag(Counts(x).operators)) = Copies(<<op>>, ToBag(Line(x)))
           /\ Copies(op, ToBag(Counts(x).operators)) \in Nat
<1>1. x[1] \in {"interval", "event", "timeSync", "state"}
  BY DEF ScoreOK
<1>2. \A y : Name(y) # <<op>>
  BY DEF Name
<1> PICK ops : ops = Counts(x).operators
  OBVIOUS
<1> PICK line : line = Line(x)
  OBVIOUS
<1> PICK name : name = Name(x)
  OBVIOUS
<1> PICK of, after, expression, text, time :
       /\ of = <<"of">> /\ after = <<"after">> /\ expression = <<"expression">>
       /\ text = <<"text">> /\ time = <<"time">>
  OBVIOUS
<1>3. /\ of = <<"of">> /\ after = <<"after">> /\ expression = <<"expression">>
      /\ text = <<"text">> /\ time = <<"time">>
  OBVIOUS
<1>4. text # <<op>> /\ time # <<op>> /\ name # <<op>>
  BY <1>2 DEF operators_t
<1> SUFFICES /\ Copies(op, ToBag(ops)) = Copies(<<op>>, ToBag(line))
             /\ Copies(op, ToBag(ops)) \in Nat
  OBVIOUS
<1>5. CASE x[1] = "interval"
  <2> PICK start, interval, duration :
         /\ start = Name(score.startState[x])
         /\ interval = <<"interval">> /\ duration = <<"duration">>
    OBVIOUS
  <2>1. interval = <<"interval">> /\ duration = <<"duration">> /\ start # <<op>>
    BY <1>2
  <2>2. ops = <<"interval", "after", "duration", "of">>
    BY <1>5 DEF Counts
  <2> PICK short : short = <<interval, name, after, start, duration, time, of, name>>
    OBVIOUS
  <2>3. short = <<interval, name, after, start, duration, time, of, name>>
    OBVIOUS
  <2>4. Copies(op, ToBag(ops)) = Copies(<<op>>, ToBag(short)) /\ Copies(op, ToBag(ops)) \in Nat
    BY ONLY <1>3, <1>4, <2>1, <2>2, <2>3, SameCounts4
  <2>5. <<op>> # <<"[;]">> /\ <<op>> # <<"time">>
    BY DEF operators_t
  <2>6. Copies(<<op>>, ToBag(line)) = Copies(<<op>>, ToBag(short))
    BY <1>5, <2>5, IntervalLine
  <2> QED BY <2>4, <2>6
<1>6. CASE x[1] = "event"
  <2> PICK sync, event, tail :
         /\ sync = Name(parentTimeSync(x)) /\ event = <<"event">>
         /\ tail = Expression(x, x \in score.conditioned)
    OBVIOUS
  <2>1. event = <<"event">> /\ sync # <<op>>
    BY <1>2
  <2> PICK head : head = <<event, name, of, sync>>
    OBVIOUS
  <2>2. head = <<event, name, of, sync>>
    OBVIOUS
  <2>3. line = head \o tail
    BY <1>6 DEF Line
  <2>4. CASE x \in score.conditioned
    <3>1. ops = <<"event", "of", "expression", "of">>
      BY <1>6, <2>4 DEF Counts
    <3>2. tail = <<expression, text, of, name>>
      BY <2>4 DEF Expression
    <3> PICK all : all = <<event, name, of, sync, expression, text, of, name>>
      OBVIOUS
    <3>4. all = <<event, name, of, sync, expression, text, of, name>>
      OBVIOUS
    <3> PICK W : W = {event, name, of, sync, expression, text}
      OBVIOUS
    <3>5. event \in W /\ name \in W /\ of \in W /\ sync \in W /\ expression \in W /\ text \in W
      OBVIOUS
    <3>6. /\ head \in Seq(W) /\ tail \in Seq(W) /\ all \in Seq(W)
          /\ Len(head) = 4 /\ Len(tail) = 4 /\ Len(all) = 8
      BY ONLY <2>2, <3>2, <3>4, <3>5
    <3>7. (\A k \in 1..4 : all[k] = head[k]) /\ (\A k \in 1..4 : all[4 + k] = tail[k])
      BY ONLY <2>2, <3>2, <3>4
    <3>8. head \o tail = all
      BY ONLY <3>6, <3>7, Joined44
    <3>3. line = <<event, name, of, sync, expression, text, of, name>>
      BY ONLY <2>3, <3>4, <3>8
    <3> QED BY ONLY <1>3, <1>4, <2>1, <3>1, <3>3, SameCounts4
  <2>5. CASE x \notin score.conditioned
    <3>1. ops = <<"event", "of">>
      BY <1>6, <2>5 DEF Counts
    <3>2. tail = <<>>
      BY <2>5 DEF Expression
    <3>3. head \in Seq({event, name, of, sync})
      BY ONLY <2>2
    <3>4. line = head
      BY ONLY <2>3, <3>2, <3>3, JoinedNone
    <3>5. line = <<event, name, of, sync>>
      BY ONLY <2>2, <3>4
    <3> QED BY ONLY <1>3, <1>4, <2>1, <3>1, <3>5, SameCounts2
  <2> QED BY <2>4, <2>5
<1>7. CASE x[1] = "timeSync"
  <2> PICK sync, tail :
         sync = <<"timeSync">> /\ tail = Expression(x, x \in score.triggered)
    OBVIOUS
  <2>1. sync = <<"timeSync">>
    OBVIOUS
  <2> PICK head : head = <<sync, name>>
    OBVIOUS
  <2>2. head = <<sync, name>>
    OBVIOUS
  <2>3. line = head \o tail
    BY <1>7 DEF Line
  <2>4. CASE x \in score.triggered
    <3>1. ops = <<"timeSync", "expression", "of">>
      BY <1>7, <2>4 DEF Counts
    <3>2. tail = <<expression, text, of, name>>
      BY <2>4 DEF Expression
    <3>3. line = <<sync, name, expression, text, of, name>>
      BY ONLY <2>2, <2>3, <3>2, Joined24
    <3> QED BY ONLY <1>3, <1>4, <2>1, <3>1, <3>3, SameCounts3
  <2>5. CASE x \notin score.triggered
    <3>1. ops = <<"timeSync">>
      BY <1>7, <2>5 DEF Counts
    <3>2. tail = <<>>
      BY <2>5 DEF Expression
    <3>3. head \in Seq({sync, name})
      BY ONLY <2>2
    <3>4. line = head
      BY ONLY <2>3, <3>2, <3>3, JoinedNone
    <3>5. line = <<sync, name>>
      BY ONLY <2>2, <3>4
    <3> QED BY ONLY <1>3, <1>4, <2>1, <3>1, <3>5, SameCounts1
  <2> QED BY <2>4, <2>5
<1>8. CASE x[1] = "state"
  <2> PICK state, previous, event, head, tail :
         /\ state = <<"state">> /\ previous = Name(previousInterval(x))
         /\ event = Name(parentEvent(x)) /\ tail = <<state, name, of, event>>
         /\ head = IF hasPrevious(x) THEN <<state, name, after, previous>> ELSE <<>>
    OBVIOUS
  <2>1. state = <<"state">> /\ previous # <<op>> /\ event # <<op>>
    BY <1>2
  <2>2. tail = <<state, name, of, event>>
    OBVIOUS
  <2>3. line = head \o tail
    BY <1>8 DEF Line
  <2>4. CASE hasPrevious(x)
    <3>1. ops = <<"state", "after", "state", "of">>
      BY <1>8, <2>4 DEF Counts
    <3>2. head = <<state, name, after, previous>>
      BY <2>4
    <3> PICK all : all = <<state, name, after, previous, state, name, of, event>>
      OBVIOUS
    <3>4. all = <<state, name, after, previous, state, name, of, event>>
      OBVIOUS
    <3> PICK W : W = {state, name, after, previous, of, event}
      OBVIOUS
    <3>5. state \in W /\ name \in W /\ after \in W /\ previous \in W /\ of \in W /\ event \in W
      OBVIOUS
    <3>6. /\ head \in Seq(W) /\ tail \in Seq(W) /\ all \in Seq(W)
          /\ Len(head) = 4 /\ Len(tail) = 4 /\ Len(all) = 8
      BY ONLY <2>2, <3>2, <3>4, <3>5
    <3>7. (\A k \in 1..4 : all[k] = head[k]) /\ (\A k \in 1..4 : all[4 + k] = tail[k])
      BY ONLY <2>2, <3>2, <3>4
    <3>8. head \o tail = all
      BY ONLY <3>6, <3>7, Joined44
    <3>3. line = <<state, name, after, previous, state, name, of, event>>
      BY ONLY <2>3, <3>4, <3>8
    <3> QED BY ONLY <1>3, <1>4, <2>1, <3>1, <3>3, SameCounts4
  <2>5. CASE ~hasPrevious(x)
    <3>1. ops = <<"state", "of">>
      BY <1>8, <2>5 DEF Counts
    <3>2. head = <<>>
      BY <2>5
    <3>3. tail \in Seq({state, name, of, event})
      BY ONLY <2>2
    <3>4. line = tail
      BY ONLY <2>3, <3>2, <3>3, JoinedNone
    <3>5. line = <<state, name, of, event>>
      BY ONLY <2>2, <3>4
    <3> QED BY ONLY <1>3, <1>4, <2>1, <3>1, <3>5, SameCounts2
  <2> QED BY <2>4, <2>5
<1> QED BY <1>1, <1>5, <1>6, <1>7, <1>8

-----------------------------------------------------------------------------
\* Sums over no ScenarioFactors, over one more, and over all but the last.
LEMMA NoneSumsTo == ASSUME NEW op PROVE SumsTo(<<>>, op, 0)
<1> PICK fs : fs = <<>>
  OBVIOUS
<1>1. fs \in Seq(Range(fs)) /\ Len(fs) = 0
  OBVIOUS
<1> PICK T : T = [k \in 0..0 |-> 0]
  OBVIOUS
<1>2. T \in [0..Len(fs) -> Nat] /\ T[0] = 0 /\ T[Len(fs)] = 0
  BY <1>1
<1>3. \A k \in 1..Len(fs) : FALSE
  BY <1>1
<1>4. SumsTo(fs, op, 0)
  BY ONLY <1>1, <1>2, <1>3 DEF SumsTo
<1> QED BY <1>4

\* The factors of one more scenario.
LEMMA SumWithOne ==
    ASSUME NEW fs, NEW op, NEW total, SumsTo(fs, op, total),
           NEW f, "operators" \in DOMAIN f, CountedIn(f, op) \in Nat
    PROVE  SumsTo(Append(fs, f), op, total + CountedIn(f, op))
<1> PICK gs : gs = Append(fs, f)
  OBVIOUS
<1>1. fs \in Seq(Range(fs)) /\ Len(fs) \in Nat
  BY DEF SumsTo
<1> PICK n \in Nat : n = Len(fs)
  BY <1>1
<1>2. /\ Len(gs) = n + 1 /\ gs[n + 1] = f /\ \A k \in 1..n : gs[k] = fs[k]
      /\ gs \in Seq(Range(fs) \cup {f})
  BY <1>1
<1>3. gs \in Seq(Range(gs))
  <2>1. \A k \in 1..Len(gs) : gs[k] \in Range(gs)
    BY <1>2 DEF Range
  <2> QED BY <1>2, <2>1
<1> PICK T \in [0..n -> Nat] :
       T[0] = 0 /\ T[n] = total /\ \A k \in 1..n : T[k] = T[k - 1] + CountedIn(fs[k], op)
  BY DEF SumsTo
<1> PICK U : U = [k \in 0..(n + 1) |-> IF k = n + 1 THEN total + CountedIn(f, op) ELSE T[k]]
  OBVIOUS
<1>4. total \in Nat
  OBVIOUS
<1>5. U \in [0..Len(gs) -> Nat]
  BY <1>2, <1>4
<1>6. U[0] = 0 /\ U[Len(gs)] = total + CountedIn(f, op)
  BY <1>2
<1>7. ASSUME NEW k \in 1..Len(gs) PROVE U[k] = U[k - 1] + CountedIn(gs[k], op)
  <2>1. CASE k = n + 1
    <3>1. U[k] = total + CountedIn(f, op) /\ U[k - 1] = T[n]
      BY <2>1
    <3> QED BY <3>1, <2>1, <1>2
  <2>2. CASE k # n + 1
    <3>1. k \in 1..n /\ k - 1 \in 0..n
      BY <2>2, <1>2
    <3> QED BY <3>1, <1>2
  <2> QED BY <2>1, <2>2
<1>8. \A k \in 1..Len(gs) : "operators" \in DOMAIN gs[k] /\ CountedIn(gs[k], op) \in Nat
  <2>1. \A k \in 1..n : "operators" \in DOMAIN fs[k] /\ CountedIn(fs[k], op) \in Nat
    BY DEF SumsTo
  <2> QED BY <1>2, <2>1
<1>9. SumsTo(gs, op, total + CountedIn(f, op))
  BY ONLY <1>3, <1>5, <1>6, <1>7, <1>8 DEF SumsTo
<1> QED BY <1>9

\* Those of all but the innermost scenario.
LEMMA SumButLast ==
    ASSUME NEW fs, NEW op, NEW total, SumsTo(fs, op, total), Len(fs) >= 1
    PROVE  /\ SumsTo(SubSeq(fs, 1, Len(fs) - 1), op, total - CountedIn(fs[Len(fs)], op))
           /\ total \in Nat /\ CountedIn(fs[Len(fs)], op) \in Nat
           /\ total - CountedIn(fs[Len(fs)], op) \in Nat
           /\ "operators" \in DOMAIN fs[Len(fs)]
<1>1. fs \in Seq(Range(fs)) /\ Len(fs) \in Nat
  BY DEF SumsTo
<1> PICK n \in Nat : n = Len(fs)
  BY <1>1
<1> PICK last : last = fs[n]
  OBVIOUS
<1> PICK gs : gs = SubSeq(fs, 1, n - 1)
  OBVIOUS
<1>2. /\ n - 1 \in Nat /\ Len(gs) = n - 1 /\ \A k \in 1..(n - 1) : gs[k] = fs[k]
      /\ gs \in Seq(Range(fs))
  <2>1. n - 1 \in Nat /\ n - 1 <= Len(fs)
    OBVIOUS
  <2> QED BY <1>1, <2>1, Prefix
<1>3. gs \in Seq(Range(gs))
  <2>1. DOMAIN gs = 1..Len(gs)
    BY <1>2
  <2>2. \A k \in 1..Len(gs) : gs[k] \in Range(gs)
    BY ONLY <2>1 DEF Range
  <2> QED BY <1>2, <2>2
<1> PICK T \in [0..n -> Nat] :
       T[0] = 0 /\ T[n] = total /\ \A k \in 1..n : T[k] = T[k - 1] + CountedIn(fs[k], op)
  BY DEF SumsTo
<1> PICK U : U = [k \in 0..(n - 1) |-> T[k]]
  OBVIOUS
<1>4. \A k \in 1..n : "operators" \in DOMAIN fs[k] /\ CountedIn(fs[k], op) \in Nat
  BY DEF SumsTo
<1>5. "operators" \in DOMAIN last /\ CountedIn(last, op) \in Nat
  BY <1>4
<1>6. total \in Nat /\ T[n - 1] \in Nat /\ total = T[n - 1] + CountedIn(last, op)
  <2>1. n \in 0..n /\ n - 1 \in 0..n /\ n \in 1..n
    BY <1>2
  <2> QED BY <2>1
<1>7. U \in [0..Len(gs) -> Nat] /\ U[0] = 0 /\ U[Len(gs)] = total - CountedIn(last, op)
  BY <1>2, <1>5, <1>6
<1>8. \A k \in 1..Len(gs) : U[k] = U[k - 1] + CountedIn(gs[k], op)
  BY <1>2
<1>9. \A k \in 1..Len(gs) : "operators" \in DOMAIN gs[k] /\ CountedIn(gs[k], op) \in Nat
  BY <1>2, <1>4
<1>10. SumsTo(gs, op, total - CountedIn(last, op))
  BY ONLY <1>3, <1>7, <1>8, <1>9 DEF SumsTo
<1> QED BY <1>5, <1>6, <1>10

\* The last ScenarioFactors becomes f.
LEMMA SumChanged ==
    ASSUME NEW fs, NEW op, NEW total, SumsTo(fs, op, total), Len(fs) >= 1,
           NEW f, "operators" \in DOMAIN f, NEW more \in Nat,
           CountedIn(f, op) = CountedIn(fs[Len(fs)], op) + more
    PROVE  SumsTo([fs EXCEPT ![Len(fs)] = f], op, total + more)
<1>1. fs \in Seq(Range(fs)) /\ Len(fs) \in Nat
  BY DEF SumsTo
<1> PICK n \in Nat : n = Len(fs)
  BY <1>1
<1> PICK gs : gs = SubSeq(fs, 1, n - 1)
  OBVIOUS
<1> PICK c : c = CountedIn(fs[n], op)
  OBVIOUS
<1>2. SumsTo(gs, op, total - c) /\ total \in Nat /\ c \in Nat /\ total - c \in Nat
  BY SumButLast
<1>3. CountedIn(f, op) = c + more /\ CountedIn(f, op) \in Nat
  BY <1>2
<1>4. SumsTo(Append(gs, f), op, total - c + CountedIn(f, op))
  BY ONLY <1>2, <1>3, "operators" \in DOMAIN f, SumWithOne
<1>5. total - c + CountedIn(f, op) = total + more
  BY <1>2, <1>3
<1>6. Append(gs, f) = [fs EXCEPT ![n] = f]
  <2> PICK S : S = Range(fs) \cup {f}
    OBVIOUS
  <2> PICK r : r = [fs EXCEPT ![n] = f]
    OBVIOUS
  <2> PICK q : q = Append(gs, f)
    OBVIOUS
  <2>1. /\ r \in Seq(S) /\ Len(r) = n /\ r[n] = f
        /\ \A k \in 1..(n - 1) : r[k] = fs[k]
    BY <1>1
  <2>2. n - 1 \in Nat /\ n - 1 <= Len(fs) /\ fs \in Seq(S)
    BY <1>1
  <2>3. gs \in Seq(S) /\ Len(gs) = n - 1 /\ \A k \in 1..(n - 1) : gs[k] = fs[k]
    BY <2>2, Prefix
  <2>4. /\ q \in Seq(S) /\ Len(q) = n /\ q[n] = f
        /\ \A k \in 1..(n - 1) : q[k] = fs[k]
    BY <2>3
  <2>5. \A k \in 1..n : q[k] = r[k]
    BY <2>1, <2>4
  <2>6. q = r
    BY ONLY <2>1, <2>4, <2>5, n \in Nat
  <2> QED BY <2>6
<1> QED BY <1>4, <1>5, <1>6
-----------------------------------------------------------------------------
\* Counted adds the operators it is given.
LEMMA CountedAdds ==
    ASSUME NEW f, "operators" \in DOMAIN f, NEW ops, NEW names, NEW expressions, NEW op
    PROVE  /\ "operators" \in DOMAIN Counted(f, ops, names, expressions)
           /\ Counted(f, ops, names, expressions).operators = f.operators (+) ToBag(ops)
           /\ CountedIn(Counted(f, ops, names, expressions), op)
                 = CountedIn(f, op) + Copies(op, ToBag(ops))
<1> PICK g : g = Counted(f, ops, names, expressions)
  OBVIOUS
<1>1. DOMAIN g = DOMAIN f /\ g.operators = f.operators (+) ToBag(ops)
  BY DEF Counted
<1>2. CountedIn(g, op) = CountedIn(f, op) + Copies(op, ToBag(ops))
  BY <1>1, CopiesOfBoth DEF CountedIn
<1> QED BY <1>1, <1>2

\* The factors while the metrics are at work on a scenario.
LEMMA MetricsAtWork ==
    ASSUME FactorsTell, visitor = "metrics", Working, WalkTypeOK
    PROVE  /\ Len(factors) = Len(stack) /\ Len(factors) \in Nat /\ Len(factors) >= 1
           /\ roots = {} /\ factors \in Seq(Range(factors))
           /\ "operators" \in DOMAIN factors[Len(factors)]
<1>1. Len(factors) = Len(stack) /\ roots = {} /\ Len(stack) \in Nat /\ Len(stack) >= 1
  BY TopFrame DEF FactorsTell, Working
<1>2. SumsTo(factors, "of", Copies(<<"of">>, words))
  BY DEF FactorsTell, operators_t
<1>3. Len(factors) \in 1..Len(factors)
  BY <1>1
<1> QED BY <1>1, <1>2, <1>3 DEF SumsTo

\* A step of the metrics that stays in the scenario, and counts what it writes.
LEMMA MetricsStays ==
    ASSUME FactorsTell, WalkTypeOK, UNCHANGED <<score, visitor, roots>>, visitor = "metrics",
           Working, stack' # <<>>, Len(stack') = Len(stack),
           NEW f, "operators" \in DOMAIN f, factors' = [factors EXCEPT ![Len(factors)] = f],
           \A op \in operators_t : \E more \in Nat :
              /\ CountedIn(f, op) = CountedIn(factors[Len(factors)], op) + more
              /\ Copies(<<op>>, words') = Copies(<<op>>, words) + more
    PROVE  FactorsTell'
<1>1. Len(factors) = Len(stack) /\ Len(factors) >= 1 /\ roots = {}
      /\ factors \in Seq(Range(factors))
  BY MetricsAtWork
<1>2. Len(factors') = Len(factors)
  BY <1>1
<1>3. ASSUME NEW op \in operators_t PROVE SumsTo(factors', op, Copies(<<op>>, words'))
  <2> PICK more \in Nat :
         /\ CountedIn(f, op) = CountedIn(factors[Len(factors)], op) + more
         /\ Copies(<<op>>, words') = Copies(<<op>>, words) + more
    OBVIOUS
  <2>1. SumsTo(factors, op, Copies(<<op>>, words))
    BY DEF FactorsTell
  <2> PICK total : total = Copies(<<op>>, words)
    OBVIOUS
  <2>2. SumsTo(factors, op, total)
    BY <2>1
  <2>3. SumsTo([factors EXCEPT ![Len(factors)] = f], op, total + more)
    BY ONLY <1>1, <2>2, "operators" \in DOMAIN f, more \in Nat, SumChanged,
            CountedIn(f, op) = CountedIn(factors[Len(factors)], op) + more
  <2>4. Copies(<<op>>, words') = total + more
    OBVIOUS
  <2> QED BY <2>3, <2>4
<1>4. \A op \in operators_t : SumsTo(factors, op, Copies(<<op>>, words))'
  BY <1>3 DEF SumsTo, CountedIn, Copies, BagIn, BagToSet
<1> QED BY <1>1, <1>2, <1>4 DEF FactorsTell

\* An object is visited: its operators are counted, and written.
LEMMA VisitTells ==
    ASSUME WalkInv, FactorsTell, NEW x \in score.objects, MetricsVisit(x)
    PROVE  FactorsTell'
<1> USE DEF WalkInv
<1>1. Visit(x) /\ visitor = "metrics" /\ UNCHANGED <<score, visitor, roots>> /\ Working
  BY DEF MetricsVisit, Visit
<1>2. Len(stack') = Len(stack) /\ stack' # <<>>
  <2>1. stack \in Seq(Frames) /\ stack # <<>> /\ Len(stack) \in Nat /\ Len(stack) >= 1
    BY <1>1, TopOK DEF Working
  <2> PICK e : stack' = [stack EXCEPT ![Len(stack)] = e]
    BY DEF MetricsVisit, Visit, ReplaceTop
  <2>2. Len(stack') = Len(stack)
    BY <2>1
  <2> QED BY <2>1, <2>2
<1> PICK n : n = Counts(x)
  OBVIOUS
<1> PICK names : names = [k \in DOMAIN n.variables |-> Name(n.variables[k])]
  OBVIOUS
<1> PICK last : last = factors[Len(factors)]
  OBVIOUS
<1> PICK f : f = Counted(last, n.operators, names, n.expressions)
  OBVIOUS
<1>3. Len(factors) >= 1 /\ factors \in Seq(Range(factors)) /\ "operators" \in DOMAIN last
  BY <1>1, MetricsAtWork
<1>4. factors' = [factors EXCEPT ![Len(factors)] = f] /\ words' = words (+) ToBag(Line(x))
  BY <1>3 DEF MetricsVisit
<1>5. "operators" \in DOMAIN f
  BY <1>3, CountedAdds
<1>6. ASSUME NEW op \in operators_t
      PROVE  \E more \in Nat : /\ CountedIn(f, op) = CountedIn(last, op) + more
                               /\ Copies(<<op>>, words') = Copies(<<op>>, words) + more
  <2> PICK more : more = Copies(op, ToBag(n.operators))
    OBVIOUS
  <2>1. more \in Nat /\ more = Copies(<<op>>, ToBag(Line(x)))
    BY Known, LineCounts
  <2>2. CountedIn(f, op) = CountedIn(last, op) + more
    BY <1>3, CountedAdds
  <2> PICK word, line : word = <<op>> /\ line = ToBag(Line(x))
    OBVIOUS
  <2>3. Copies(word, words (+) line) = Copies(word, words) + Copies(word, line)
    BY CopiesOfBoth
  <2>4. Copies(<<op>>, words') = Copies(<<op>>, words) + more
    BY <1>4, <2>1, <2>3
  <2> QED BY <2>1, <2>2, <2>4
<1> QED BY <1>1, <1>2, <1>3, <1>4, <1>5, <1>6, MetricsStays

\* What a scenario starts with: its brace.
LEMMA NewFactors ==
    ASSUME NEW curly, NEW braces, braces = <<curly>>,
           NEW new, new = Counted(NoFactors, braces, <<>>, 0)
    PROVE  /\ "operators" \in DOMAIN new
           /\ \A op : CountedIn(new, op) = IF curly = op THEN 1 ELSE 0
<1>1. "operators" \in DOMAIN NoFactors /\ NoFactors.operators = EmptyBag
  BY DEF NoFactors
<1>2. "operators" \in DOMAIN new
  BY ONLY <1>1, new = Counted(NoFactors, braces, <<>>, 0), CountedAdds
<1>3. ASSUME NEW op PROVE CountedIn(new, op) = IF curly = op THEN 1 ELSE 0
  <2>1. CountedIn(new, op) = CountedIn(NoFactors, op) + Copies(op, ToBag(braces))
    BY ONLY <1>1, new = Counted(NoFactors, braces, <<>>, 0), CountedAdds
  <2>2. CountedIn(NoFactors, op) = 0
    BY <1>1, CopiesOfNone DEF CountedIn
  <2>3. Copies(op, ToBag(braces)) = IF curly = op THEN 1 ELSE 0
    BY ONLY braces = <<curly>>, CopiesOfOne
  <2> QED BY ONLY <2>1, <2>2, <2>3
<1> QED BY <1>2, <1>3

\* The words of the text as those of its lines are added.
LEMMA WordsAdded ==
    ASSUME NEW A, NEW B, NEW x, NEW total, total = Copies(x, A), NEW more, more = Copies(x, B),
           NEW C, C = A (+) B
    PROVE  Copies(x, C) = total + more
BY ONLY total = Copies(x, A), more = Copies(x, B), C = A (+) B, CopiesOfBoth

\* A frame upon the others.
LEMMA FramePushed ==
    ASSUME NEW s \in Seq(Frames), s # <<>>, NEW e, NEW f,
           NEW t, t = Append([s EXCEPT ![Len(s)] = e], f)
    PROVE  Len(t) = Len(s) + 1 /\ t # <<>>
<1> PICK S : S = Frames \cup {e, f}
  OBVIOUS
<1> PICK r : r = [s EXCEPT ![Len(s)] = e]
  OBVIOUS
<1>1. s \in Seq(S) /\ e \in S /\ f \in S /\ s # <<>> /\ Len(s) \in Nat
  OBVIOUS
<1>2. r \in Seq(S) /\ Len(r) = Len(s)
  BY ONLY <1>1, r = [s EXCEPT ![Len(s)] = e], Replaced
<1>3. t = Append(r, f)
  BY ONLY r = [s EXCEPT ![Len(s)] = e], t = Append([s EXCEPT ![Len(s)] = e], f)
<1>4. Len(t) = Len(s) + 1 /\ Len(t) # 0
  BY ONLY <1>1, <1>2, <1>3
<1>5. Len(t) # 0 => t # <<>>
  OBVIOUS
<1> QED BY <1>4, <1>5

\* The first scenario is entered.
LEMMA EnterFirstTells ==
    ASSUME WalkInv, FactorsTell, NEW p \in DOMAIN score.kind, MetricsEnter(p), ~Working
    PROVE  FactorsTell'
<1> USE DEF WalkInv
<1>1. Enter(p) /\ visitor = "metrics" /\ UNCHANGED <<score, visitor>>
  BY DEF MetricsEnter
<1> PICK curly : curly = "{"
  OBVIOUS
<1> PICK braces, new : braces = <<curly>> /\ new = Counted(NoFactors, braces, <<>>, 0)
  OBVIOUS
<1>2. "operators" \in DOMAIN new /\ \A op : CountedIn(new, op) = IF curly = op THEN 1 ELSE 0
  BY ONLY braces = <<curly>>, new = Counted(NoFactors, braces, <<>>, 0), NewFactors
<1> PICK none : none = <<>>
  OBVIOUS
<1>3. roots = {score.first} /\ p = score.first /\ factors = none
  BY <1>1 DEF FactorsTell, Working, Enter
<1>4. roots' = {} /\ stack' = <<Frame(p)>>
  BY <1>1, <1>3 DEF Enter
<1>5. factors' = Append(none, new) /\ words' = words (+) ToBag(Append(none, <<curly>>))
  <2>1. /\ factors' = Append(<<>>, Counted(NoFactors, <<"{">>, <<>>, 0))
        /\ words' = words (+) ToBag(Append(<<>>, <<"{">>))
    BY <1>3 DEF MetricsEnter
  <2> QED BY ONLY <2>1, curly = "{", braces = <<curly>>, none = <<>>,
                  new = Counted(NoFactors, braces, <<>>, 0)
<1>6. stack' # <<>> /\ Len(stack') = 1
  BY <1>4
<1>7. Len(factors') = 1
  <2>1. none \in Seq({new}) /\ Len(none) = 0
    BY ONLY none = <<>>
  <2>2. Len(Append(none, new)) = 1
    BY ONLY <2>1, Pushed
  <2> QED BY ONLY <1>5, <2>2
<1>8. ASSUME NEW op \in operators_t PROVE SumsTo(factors', op, Copies(<<op>>, words'))
  <2> PICK word, brace : word = <<op>> /\ brace = <<curly>>
    OBVIOUS
  <2> PICK line : line = <<brace>>
    OBVIOUS
  <2> PICK total, more : total = Copies(word, words) /\ more = Copies(word, ToBag(line))
    OBVIOUS
  <2>1. SumsTo(factors, op, Copies(<<op>>, words))
    BY <1>1 DEF FactorsTell
  <2>2. SumsTo(none, op, total)
    BY ONLY <2>1, <1>3, total = Copies(word, words), word = <<op>>
  <2>3. CountedIn(new, op) \in Nat
    <3>1. CountedIn(new, op) = IF curly = op THEN 1 ELSE 0
      BY ONLY <1>2
    <3> QED BY ONLY <3>1
  <2>4. SumsTo(Append(none, new), op, total + CountedIn(new, op))
    BY ONLY <1>2, <2>2, <2>3, SumWithOne
  <2>5. words' = words (+) ToBag(line)
    <3>1. Append(none, brace) = line
      BY ONLY none = <<>>, line = <<brace>>
    <3> QED BY ONLY <3>1, <1>5, brace = <<curly>>
  <2>6. Copies(word, words') = total + more
    BY ONLY <2>5, total = Copies(word, words), more = Copies(word, ToBag(line)), WordsAdded
  <2>7. Copies(word, ToBag(line)) = IF brace = word THEN 1 ELSE 0
    BY ONLY line = <<brace>>, CopiesOfOne
  <2>8. brace = word <=> curly = op
    OBVIOUS
  <2>9. more = CountedIn(new, op)
    BY ONLY <1>2, <2>7, <2>8, more = Copies(word, ToBag(line))
  <2>10. SumsTo(factors', op, Copies(word, words'))
    BY ONLY <1>5, <2>4, <2>6, <2>9
  <2> QED BY ONLY <2>10, word = <<op>>
<1>9. \A op \in operators_t : SumsTo(factors, op, Copies(<<op>>, words))'
  BY <1>8 DEF SumsTo, CountedIn, Copies, BagIn, BagToSet
<1>10. roots' \subseteq {score'.first}
  BY <1>4
<1> QED BY <1>4, <1>6, <1>7, <1>9, <1>10 DEF FactorsTell

\* A scenario of the interval being visited is entered.
LEMMA EnterHeldTells ==
    ASSUME WalkInv, FactorsTell, NEW p \in DOMAIN score.kind, MetricsEnter(p), Working
    PROVE  FactorsTell'
<1> USE DEF WalkInv
<1>1. Enter(p) /\ visitor = "metrics" /\ UNCHANGED <<score, visitor>>
  BY DEF MetricsEnter
<1> PICK curly : curly = "{"
  OBVIOUS
<1> PICK braces, new : braces = <<curly>> /\ new = Counted(NoFactors, braces, <<>>, 0)
  OBVIOUS
<1>2. "operators" \in DOMAIN new /\ \A op : CountedIn(new, op) = IF curly = op THEN 1 ELSE 0
  BY ONLY braces = <<curly>>, new = Counted(NoFactors, braces, <<>>, 0), NewFactors
<1> PICK last, named, scens : /\ last = factors[Len(factors)] /\ named = ProcessName(p)
                              /\ scens = <<"scenario">>
  OBVIOUS
<1> PICK f : f = Counted(last, scens, <<named>>, 0)
  OBVIOUS
<1> PICK outer : outer = [factors EXCEPT ![Len(factors)] = f]
  OBVIOUS
<1>3. /\ Len(factors) = Len(stack) /\ Len(factors) \in Nat /\ Len(factors) >= 1
      /\ roots = {} /\ factors \in Seq(Range(factors)) /\ "operators" \in DOMAIN last
  BY <1>1, MetricsAtWork
<1>4. roots' = {} /\ stack' # <<>> /\ Len(stack') = Len(stack) + 1
  <2>1. /\ stack' = Append([stack EXCEPT ![Len(stack)].held = @ \ {p}], Frame(p))
        /\ roots' = roots
    BY <1>1 DEF Enter
  <2> PICK e : e = [stack[Len(stack)] EXCEPT !.held = @ \ {p}]
    OBVIOUS
  <2>2. stack' = Append([stack EXCEPT ![Len(stack)] = e], Frame(p))
    BY <2>1
  <2>3. stack \in Seq(Frames) /\ stack # <<>>
    BY TopOK DEF Working
  <2>4. Len(stack') = Len(stack) + 1 /\ stack' # <<>>
    BY ONLY <2>2, <2>3, FramePushed
  <2> QED BY <1>3, <2>1, <2>4
<1>5. /\ factors' = Append(outer, new)
      /\ words' = words (+) ToBag(Append(<< <<"scenario">>, named>>, <<curly>>))
  <2>1. /\ factors' = Append([factors EXCEPT ![Len(factors)] = f],
                             Counted(NoFactors, <<"{">>, <<>>, 0))
        /\ words' = words (+) ToBag(Append(<< <<"scenario">>, named>>, <<"{">>))
    BY <1>3 DEF MetricsEnter
  <2> QED BY ONLY <2>1, curly = "{", braces = <<curly>>,
                  outer = [factors EXCEPT ![Len(factors)] = f],
                  new = Counted(NoFactors, braces, <<>>, 0)
<1>6. "operators" \in DOMAIN f
  BY ONLY <1>3, f = Counted(last, scens, <<named>>, 0), CountedAdds
<1>7. ASSUME NEW op \in operators_t
      PROVE  SumsTo(factors', op, Copies(<<op>>, words'))
  <2> PICK word, brace, scen : word = <<op>> /\ brace = <<curly>> /\ scen = <<"scenario">>
    OBVIOUS
  <2>1. (brace = word <=> curly = op) /\ (scen = word <=> "scenario" = op) /\ named # word
    BY DEF ProcessName
  <2> PICK line : line = <<scen, named, brace>>
    OBVIOUS
  <2> PICK total, more : total = Copies(word, words) /\ more = Copies(word, ToBag(line))
    OBVIOUS
  <2> PICK one : one = IF "scenario" = op THEN 1 ELSE 0
    OBVIOUS
  <2>2. SumsTo(factors, op, total)
    <3>1. SumsTo(factors, op, Copies(<<op>>, words))
      BY <1>1 DEF FactorsTell
    <3> QED BY ONLY <3>1, total = Copies(word, words), word = <<op>>
  <2>3. CountedIn(f, op) = CountedIn(last, op) + one
    <3>1. Copies(op, ToBag(scens)) = one
      BY ONLY scens = <<"scenario">>, one = IF "scenario" = op THEN 1 ELSE 0, CopiesOfOne
    <3>2. CountedIn(f, op) = CountedIn(last, op) + Copies(op, ToBag(scens))
      BY ONLY <1>3, f = Counted(last, scens, <<named>>, 0), CountedAdds
    <3> QED BY ONLY <3>1, <3>2
  <2>4. one \in Nat /\ CountedIn(new, op) \in Nat
    <3>1. CountedIn(new, op) = IF curly = op THEN 1 ELSE 0
      BY ONLY <1>2
    <3> QED BY ONLY <3>1, one = IF "scenario" = op THEN 1 ELSE 0
  <2>5. SumsTo(outer, op, total + one)
    <3>1. SumsTo([factors EXCEPT ![Len(factors)] = f], op, total + one)
      BY ONLY <1>3, <1>6, <2>2, <2>3, <2>4, last = factors[Len(factors)], SumChanged
    <3> QED BY ONLY <3>1, outer = [factors EXCEPT ![Len(factors)] = f]
  <2>6. SumsTo(Append(outer, new), op, total + one + CountedIn(new, op))
    BY ONLY <1>2, <2>4, <2>5, SumWithOne
  <2>7. total \in Nat
    BY ONLY <1>3, <2>2, SumButLast
  <2>8. words' = words (+) ToBag(line)
    <3>1. Append(<< <<"scenario">>, named>>, <<curly>>) = line
      <4> PICK two : two = <<scen, named>>
        OBVIOUS
      <4>1. line = Append(two, brace)
        BY ONLY line = <<scen, named, brace>>, two = <<scen, named>>
      <4> QED BY ONLY <4>1, two = <<scen, named>>, brace = <<curly>>, scen = <<"scenario">>
    <3> QED BY ONLY <3>1, <1>5
  <2>9. Copies(word, words') = total + more
    BY ONLY <2>8, total = Copies(word, words), more = Copies(word, ToBag(line)), WordsAdded
  <2>10. Copies(word, ToBag(line)) = (IF scen = word THEN 1 ELSE 0)
            + (IF named = word THEN 1 ELSE 0) + (IF brace = word THEN 1 ELSE 0)
    BY ONLY line = <<scen, named, brace>>, CopiesOfThree
  <2>11. more = one + CountedIn(new, op)
    <3>1. CountedIn(new, op) = IF curly = op THEN 1 ELSE 0
      BY ONLY <1>2
    <3> QED BY ONLY <3>1, <2>1, <2>10, more = Copies(word, ToBag(line)),
                    one = IF "scenario" = op THEN 1 ELSE 0
  <2>12. total + more = total + one + CountedIn(new, op)
    BY ONLY <2>4, <2>7, <2>11
  <2>13. SumsTo(factors', op, Copies(word, words'))
    BY ONLY <1>5, <2>6, <2>9, <2>12
  <2> QED BY ONLY <2>13, word = <<op>>
<1>8. \A op \in operators_t : SumsTo(factors, op, Copies(<<op>>, words))'
  BY <1>7 DEF SumsTo, CountedIn, Copies, BagIn, BagToSet
<1>9. Len(factors') = Len(factors) + 1
  <2>1. outer \in Seq(Range(factors) \cup {f}) /\ Len(outer) = Len(factors)
    <3> PICK S, n : S = Range(factors) \cup {f} /\ n = Len(factors)
      OBVIOUS
    <3>1. factors \in Seq(S) /\ f \in S /\ n \in Nat /\ n >= 1
      <4>1. Range(factors) \subseteq S /\ f \in S
        OBVIOUS
      <4> QED BY ONLY <1>3, <4>1, n = Len(factors)
    <3>2. factors # <<>>
      BY ONLY <3>1, n = Len(factors)
    <3>3. outer \in Seq(S) /\ Len(outer) = n
      BY ONLY <3>1, <3>2, n = Len(factors), Replaced,
              outer = [factors EXCEPT ![Len(factors)] = f]
    <3> QED BY <3>3
  <2> PICK t : t = Append(outer, new)
    OBVIOUS
  <2> PICK S : S = Range(factors) \cup {f}
    OBVIOUS
  <2>2. outer \in Seq(S)
    BY <2>1
  <2>3. Len(t) = Len(outer) + 1
    BY ONLY <2>2, t = Append(outer, new)
  <2> QED BY <1>5, <2>1, <2>3
<1> QED BY <1>3, <1>4, <1>8, <1>9 DEF FactorsTell

\* A scenario is entered, the first or another.
LEMMA EnterTells ==
    ASSUME WalkInv, FactorsTell, NEW p \in DOMAIN score.kind, MetricsEnter(p)
    PROVE  FactorsTell'
BY EnterFirstTells, EnterHeldTells

\* What a scenario that is over leaves to the one around it: its operators.
LEMMA PlusTells ==
    ASSUME NEW f, "operators" \in DOMAIN f, NEW done, NEW op
    PROVE  /\ "operators" \in DOMAIN Plus(f, done)
           /\ CountedIn(Plus(f, done), op) = CountedIn(f, op) + CountedIn(done, op)
<1> PICK g : g = Plus(f, done)
  OBVIOUS
<1>1. "operators" \in DOMAIN g /\ g.operators = f.operators (+) done.operators
  BY DEF Plus
<1>2. CountedIn(g, op) = CountedIn(f, op) + CountedIn(done, op)
  BY <1>1, CopiesOfBoth DEF CountedIn
<1> QED BY <1>1, <1>2

\* The last two become one.
LEMMA SumMerged ==
    ASSUME NEW fs, NEW op, NEW total, SumsTo(fs, op, total), Len(fs) >= 2,
           NEW f, "operators" \in DOMAIN f, NEW more \in Nat,
           CountedIn(f, op) = CountedIn(fs[Len(fs) - 1], op) + CountedIn(fs[Len(fs)], op) + more
    PROVE  SumsTo(Append(SubSeq(fs, 1, Len(fs) - 2), f), op, total + more)
<1>1. fs \in Seq(Range(fs)) /\ Len(fs) \in Nat
  BY DEF SumsTo
<1> PICK n \in Nat : n = Len(fs)
  BY <1>1
<1> PICK gs : gs = SubSeq(fs, 1, n - 1)
  OBVIOUS
<1> PICK hs : hs = SubSeq(fs, 1, n - 2)
  OBVIOUS
<1> PICK c, d : c = CountedIn(fs[n], op) /\ d = CountedIn(fs[n - 1], op)
  OBVIOUS
<1>2. SumsTo(gs, op, total - c) /\ total \in Nat /\ c \in Nat /\ total - c \in Nat
  BY SumButLast
<1>3. /\ n - 1 \in Nat /\ n - 2 \in Nat /\ n - 1 <= Len(fs) /\ n - 2 <= Len(fs)
      /\ n - 2 <= n - 1 /\ n - 1 >= 1
  OBVIOUS
<1>4. /\ gs \in Seq(Range(fs)) /\ Len(gs) = n - 1 /\ \A k \in 1..(n - 1) : gs[k] = fs[k]
      /\ hs \in Seq(Range(fs)) /\ Len(hs) = n - 2 /\ \A k \in 1..(n - 2) : hs[k] = fs[k]
  BY <1>1, <1>3, Prefix
<1>5. SubSeq(gs, 1, n - 2) = hs
  <2> PICK r : r = SubSeq(gs, 1, n - 2)
    OBVIOUS
  <2>1. /\ r \in Seq(Range(fs)) /\ Len(r) = n - 2 /\ \A k \in 1..(n - 2) : r[k] = gs[k]
    BY <1>3, <1>4, Prefix
  <2>2. \A k \in 1..(n - 2) : r[k] = hs[k]
    BY <1>3, <1>4, <2>1
  <2>3. r = hs
    BY ONLY <1>4, <2>1, <2>2
  <2> QED BY <2>3
<1>6. gs[n - 1] = fs[n - 1] /\ Len(gs) - 1 = n - 2 /\ Len(gs) >= 1
  BY <1>3, <1>4
<1>7. SumsTo(hs, op, total - c - d) /\ d \in Nat /\ total - c - d \in Nat
  <2>1. /\ SumsTo(SubSeq(gs, 1, Len(gs) - 1), op, total - c - CountedIn(gs[Len(gs)], op))
        /\ CountedIn(gs[Len(gs)], op) \in Nat
        /\ total - c - CountedIn(gs[Len(gs)], op) \in Nat
    BY ONLY <1>2, <1>6, SumButLast
  <2>2. CountedIn(gs[Len(gs)], op) = d
    BY <1>4, <1>6
  <2>3. SubSeq(gs, 1, Len(gs) - 1) = hs
    BY ONLY <1>5, <1>6
  <2> QED BY ONLY <2>1, <2>2, <2>3
<1>8. CountedIn(f, op) = d + c + more /\ CountedIn(f, op) \in Nat
  <2>1. CountedIn(f, op) = d + c + more
    OBVIOUS
  <2> QED BY ONLY <2>1, <1>2, <1>7, more \in Nat
<1>9. SumsTo(Append(hs, f), op, total - c - d + CountedIn(f, op))
  BY ONLY <1>7, <1>8, "operators" \in DOMAIN f, SumWithOne
<1>10. total - c - d + CountedIn(f, op) = total + more
  BY ONLY <1>2, <1>7, <1>8, more \in Nat
<1> QED BY <1>9, <1>10

\* The first scenario is over.
LEMMA LeaveFirstTells ==
    ASSUME WalkInv, FactorsTell, MetricsLeave, Len(stack) = 1
    PROVE  FactorsTell'
<1> USE DEF WalkInv
<1>1. LeaveScenario /\ visitor = "metrics" /\ UNCHANGED <<score, visitor, roots>> /\ Working
  BY DEF MetricsLeave, LeaveScenario, LoopOver
<1> PICK curly : curly = "}"
  OBVIOUS
<1> PICK braces, last : braces = <<curly>> /\ last = factors[Len(factors)]
  OBVIOUS
<1> PICK done : done = Counted(last, braces, <<>>, 0)
  OBVIOUS
<1>2. /\ Len(factors) = 1 /\ roots = {} /\ factors \in Seq(Range(factors))
      /\ "operators" \in DOMAIN last
  BY <1>1, MetricsAtWork
<1>3. stack' = <<>> /\ roots' = {}
  <2>1. stack \in Seq(Frames) /\ stack # <<>>
    BY <1>1, TopOK DEF Working
  <2>2. stack' = Front(stack)
    BY <1>1 DEF LeaveScenario
  <2>3. Front(stack) \in Seq(Frames) /\ Len(Front(stack)) = Len(stack) - 1
    BY ONLY <2>1, Popped
  <2>4. Front(stack) = <<>>
    BY ONLY <2>3, Len(stack) = 1
  <2> QED BY <1>1, <1>2, <2>2, <2>4
<1>4. /\ factors' = <<done>>
      /\ words' = words (+) ToBag(<< <<curly>> >>)
  <2>1. /\ factors' = <<Counted(Last(factors), <<"}">>, <<>>, 0)>>
        /\ words' = words (+) ToBag(<< <<"}">> >> \o <<>>)
    <3>1. ~(Len(stack) > 1)
      BY ONLY Len(stack) = 1
    <3> QED BY <3>1, Zenon DEF MetricsLeave
  <2>2. Last(factors) = last
    BY DEF Last
  <2> PICK brace : brace = <<"}">>
    OBVIOUS
  <2> PICK line : line = <<brace>>
    OBVIOUS
  <2>3. line \o <<>> = line
    <3>1. line \in Seq({brace})
      BY ONLY line = <<brace>>
    <3> QED BY ONLY <3>1, JoinedNone
  <2>4. words' = words (+) ToBag(line)
    BY ONLY <2>1, <2>3, line = <<brace>>, brace = <<"}">>
  <2> QED BY ONLY <2>1, <2>2, <2>4, line = <<brace>>, brace = <<"}">>,
                  curly = "}", braces = <<curly>>, done = Counted(last, braces, <<>>, 0)
<1>5. "operators" \in DOMAIN done
  BY ONLY <1>2, done = Counted(last, braces, <<>>, 0), CountedAdds
<1>6. factors' = [factors EXCEPT ![Len(factors)] = done]
  <2> PICK r : r = [factors EXCEPT ![Len(factors)] = done]
    OBVIOUS
  <2> PICK one : one = <<done>>
    OBVIOUS
  <2> PICK S : S = Range(factors) \cup {done}
    OBVIOUS
  <2>1. factors \in Seq(S) /\ done \in S /\ factors # <<>>
    <3>1. Range(factors) \subseteq S /\ done \in S
      OBVIOUS
    <3> QED BY ONLY <1>2, <3>1
  <2>2. r \in Seq(S) /\ Len(r) = 1 /\ r[1] = done
    <3>1. r \in Seq(S) /\ Len(r) = Len(factors) /\ r[Len(factors)] = done
      BY ONLY <2>1, r = [factors EXCEPT ![Len(factors)] = done], Replaced
    <3> QED BY ONLY <3>1, <1>2
  <2>3. one \in Seq(S) /\ Len(one) = 1 /\ one[1] = done
    BY ONLY <2>1, one = <<done>>
  <2>4. r = one
    BY ONLY <2>2, <2>3
  <2> QED BY <1>4, <2>4
<1>7. ASSUME NEW op \in operators_t
      PROVE  SumsTo(factors', op, Copies(<<op>>, words'))
  <2> PICK word, brace : word = <<op>> /\ brace = <<curly>>
    OBVIOUS
  <2> PICK line : line = <<brace>>
    OBVIOUS
  <2> PICK total, more : total = Copies(word, words) /\ more = Copies(word, ToBag(line))
    OBVIOUS
  <2>1. SumsTo(factors, op, total)
    <3>1. SumsTo(factors, op, Copies(<<op>>, words))
      BY <1>1 DEF FactorsTell
    <3> QED BY ONLY <3>1, total = Copies(word, words), word = <<op>>
  <2>2. Copies(word, ToBag(line)) = IF brace = word THEN 1 ELSE 0
    BY ONLY line = <<brace>>, CopiesOfOne
  <2>3. Copies(op, ToBag(braces)) = IF curly = op THEN 1 ELSE 0
    BY ONLY braces = <<curly>>, CopiesOfOne
  <2>4. brace = word <=> curly = op
    BY ONLY brace = <<curly>>, word = <<op>>
  <2>5. more \in Nat /\ more = Copies(op, ToBag(braces))
    BY ONLY <2>2, <2>3, <2>4, more = Copies(word, ToBag(line))
  <2>6. CountedIn(done, op) = CountedIn(last, op) + more
    <3>1. CountedIn(done, op) = CountedIn(last, op) + Copies(op, ToBag(braces))
      BY ONLY <1>2, done = Counted(last, braces, <<>>, 0), CountedAdds
    <3> QED BY ONLY <3>1, <2>5
  <2>7. Len(factors) >= 1
    BY ONLY <1>2
  <2>8. SumsTo([factors EXCEPT ![Len(factors)] = done], op, total + more)
    BY ONLY <1>5, <2>1, <2>5, <2>6, <2>7, last = factors[Len(factors)], SumChanged
  <2>9. words' = words (+) ToBag(line)
    BY ONLY <1>4, line = <<brace>>, brace = <<curly>>
  <2>10. Copies(word, words') = total + more
    BY ONLY <2>9, total = Copies(word, words), more = Copies(word, ToBag(line)), WordsAdded
  <2> QED BY ONLY <1>6, <2>8, <2>10, word = <<op>>
<1>8. \A op \in operators_t : SumsTo(factors, op, Copies(<<op>>, words))'
  BY <1>7 DEF SumsTo, CountedIn, Copies, BagIn, BagToSet
<1>9. Len(factors') = 1
  BY <1>4
<1> QED BY <1>3, <1>8, <1>9 DEF FactorsTell

\* A scenario within is over, and the interval that holds it is named.
LEMMA LeaveHeldTells ==
    ASSUME WalkInv, FactorsTell, MetricsLeave, Len(stack) # 1
    PROVE  FactorsTell'
<1> USE DEF WalkInv
<1>1. LeaveScenario /\ visitor = "metrics" /\ UNCHANGED <<score, visitor, roots>> /\ Working
  BY DEF MetricsLeave, LeaveScenario, LoopOver
<1> PICK curly : curly = "}"
  OBVIOUS
<1> PICK braces, ofs, last, outer, named :
       /\ braces = <<curly>> /\ ofs = <<"of">> /\ last = factors[Len(factors)]
       /\ outer = factors[Len(factors) - 1] /\ named = Name(score.holder[top.scenar])
  OBVIOUS
<1> PICK done : done = Counted(last, braces, <<>>, 0)
  OBVIOUS
<1> PICK both : both = Plus(outer, done)
  OBVIOUS
<1> PICK f : f = Counted(both, ofs, <<named>>, 0)
  OBVIOUS
<1>2. /\ Len(factors) = Len(stack) /\ Len(factors) \in Nat /\ Len(factors) >= 1 /\ roots = {}
      /\ factors \in Seq(Range(factors)) /\ "operators" \in DOMAIN last
  BY <1>1, MetricsAtWork
<1>3. Len(stack) > 1 /\ Len(factors) >= 2 /\ Len(factors) - 1 \in 1..Len(factors)
  BY ONLY <1>2, Len(stack) # 1
<1>4. stack' # <<>> /\ roots' = {} /\ Len(stack') = Len(stack) - 1
  <2>1. stack \in Seq(Frames) /\ stack # <<>>
    BY <1>1, TopOK DEF Working
  <2>2. stack' = Front(stack)
    BY <1>1 DEF LeaveScenario
  <2>3. Front(stack) \in Seq(Frames) /\ Len(Front(stack)) = Len(stack) - 1
    BY ONLY <2>1, Popped
  <2>4. Front(stack) # <<>>
    BY ONLY <1>2, <1>3, <2>3
  <2> QED BY <1>1, <1>2, <2>2, <2>3, <2>4
<1>5. /\ factors' = Append(SubSeq(factors, 1, Len(factors) - 2), f)
      /\ words' = words (+) ToBag(<< <<curly>> >> \o << <<"of">>, named>>)
  <2>1. /\ factors' = Append(SubSeq(factors, 1, Len(factors) - 2),
              Counted(Plus(factors[Len(factors) - 1], Counted(Last(factors), <<"}">>, <<>>, 0)),
                      <<"of">>, <<Name(score.holder[top.scenar])>>, 0))
        /\ words' = words (+) ToBag(
              << <<"}">> >> \o << <<"of">>, Name(score.holder[top.scenar])>>)
    BY <1>3, Zenon DEF MetricsLeave
  <2>2. Last(factors) = last
    BY DEF Last
  <2> QED BY ONLY <2>1, <2>2, curly = "}", braces = <<curly>>, ofs = <<"of">>,
                  outer = factors[Len(factors) - 1], named = Name(score.holder[top.scenar]),
                  done = Counted(last, braces, <<>>, 0), both = Plus(outer, done),
                  f = Counted(both, ofs, <<named>>, 0)
<1>6. "operators" \in DOMAIN done
  BY ONLY <1>2, done = Counted(last, braces, <<>>, 0), CountedAdds
<1>7. "operators" \in DOMAIN outer
  <2>1. SumsTo(factors, "of", Copies(<<"of">>, words))
    BY <1>1 DEF FactorsTell, operators_t
  <2> QED BY ONLY <1>3, <2>1, outer = factors[Len(factors) - 1] DEF SumsTo
<1>8. "operators" \in DOMAIN both
  BY ONLY <1>7, both = Plus(outer, done), PlusTells
<1>9. "operators" \in DOMAIN f
  BY ONLY <1>8, f = Counted(both, ofs, <<named>>, 0), CountedAdds
<1>10. ASSUME NEW op \in operators_t
       PROVE  SumsTo(factors', op, Copies(<<op>>, words'))
  <2> PICK word, brace, of : word = <<op>> /\ brace = <<curly>> /\ of = <<"of">>
    OBVIOUS
  <2> PICK line : line = <<brace, of, named>>
    OBVIOUS
  <2> PICK total, more : total = Copies(word, words) /\ more = Copies(word, ToBag(line))
    OBVIOUS
  <2>1. SumsTo(factors, op, total)
    <3>1. SumsTo(factors, op, Copies(<<op>>, words))
      BY <1>1 DEF FactorsTell
    <3> QED BY ONLY <3>1, total = Copies(word, words), word = <<op>>
  <2>2. Copies(word, ToBag(line)) = (IF brace = word THEN 1 ELSE 0)
            + (IF of = word THEN 1 ELSE 0) + (IF named = word THEN 1 ELSE 0)
    BY ONLY line = <<brace, of, named>>, CopiesOfThree
  <2>3. Copies(op, ToBag(braces)) = IF curly = op THEN 1 ELSE 0
    BY ONLY braces = <<curly>>, CopiesOfOne
  <2>4. Copies(op, ToBag(ofs)) = IF "of" = op THEN 1 ELSE 0
    BY ONLY ofs = <<"of">>, CopiesOfOne
  <2>5. (brace = word <=> curly = op) /\ (of = word <=> "of" = op)
    BY ONLY brace = <<curly>>, word = <<op>>, of = <<"of">>
  <2>6. named # word
    BY ONLY named = Name(score.holder[top.scenar]), word = <<op>> DEF Name
  <2>7. more \in Nat /\ more = Copies(op, ToBag(braces)) + Copies(op, ToBag(ofs))
    BY ONLY <2>2, <2>3, <2>4, <2>5, <2>6, more = Copies(word, ToBag(line))
  <2>8. CountedIn(f, op) = CountedIn(outer, op) + CountedIn(last, op) + more
    <3>1. CountedIn(done, op) = CountedIn(last, op) + Copies(op, ToBag(braces))
      BY ONLY <1>2, done = Counted(last, braces, <<>>, 0), CountedAdds
    <3>2. CountedIn(both, op) = CountedIn(outer, op) + CountedIn(done, op)
      BY ONLY <1>7, both = Plus(outer, done), PlusTells
    <3>3. CountedIn(f, op) = CountedIn(both, op) + Copies(op, ToBag(ofs))
      BY ONLY <1>8, f = Counted(both, ofs, <<named>>, 0), CountedAdds
    <3>4. CountedIn(outer, op) \in Nat /\ CountedIn(last, op) \in Nat
      <4>1. Len(factors) \in 1..Len(factors)
        BY ONLY <1>2
      <4> QED BY ONLY <1>3, <2>1, <4>1, last = factors[Len(factors)],
                      outer = factors[Len(factors) - 1] DEF SumsTo
    <3>5. Copies(op, ToBag(braces)) \in Nat /\ Copies(op, ToBag(ofs)) \in Nat
      BY ONLY <2>3, <2>4
    <3> QED BY ONLY <2>7, <3>1, <3>2, <3>3, <3>4, <3>5
  <2>9. SumsTo(Append(SubSeq(factors, 1, Len(factors) - 2), f), op, total + more)
    BY ONLY <1>3, <1>9, <2>1, <2>7, <2>8, last = factors[Len(factors)],
            outer = factors[Len(factors) - 1], SumMerged
  <2>10. words' = words (+) ToBag(line)
    <3> PICK front, back : front = <<brace>> /\ back = <<of, named>>
      OBVIOUS
    <3> PICK S : S = {brace, of, named}
      OBVIOUS
    <3>1. front \in Seq(S) /\ back \in Seq(S) /\ line \in Seq(S)
      <4>1. brace \in S /\ of \in S /\ named \in S
        BY ONLY S = {brace, of, named}
      <4> QED BY ONLY <4>1, front = <<brace>>, back = <<of, named>>,
                      line = <<brace, of, named>>
    <3>2. /\ Len(line) = Len(front) + Len(back)
          /\ \A k \in 1..Len(front) : line[k] = front[k]
          /\ \A k \in 1..Len(back) : line[Len(front) + k] = back[k]
      <4>1. Len(line) = 3 /\ Len(front) = 1 /\ Len(back) = 2
        BY ONLY front = <<brace>>, back = <<of, named>>, line = <<brace, of, named>>
      <4>2. line[1] = front[1] /\ line[2] = back[1] /\ line[3] = back[2]
        BY ONLY front = <<brace>>, back = <<of, named>>, line = <<brace, of, named>>
      <4> QED BY ONLY <4>1, <4>2
    <3>3. front \o back = line
      BY ONLY <3>1, <3>2, JoinedIs
    <3> QED BY ONLY <3>3, <1>5, front = <<brace>>, back = <<of, named>>, of = <<"of">>,
                    brace = <<curly>>
  <2>11. Copies(word, words') = total + more
    BY ONLY <2>10, total = Copies(word, words), more = Copies(word, ToBag(line)), WordsAdded
  <2> QED BY ONLY <1>5, <2>9, <2>11, word = <<op>>
<1>11. \A op \in operators_t : SumsTo(factors, op, Copies(<<op>>, words))'
  BY <1>10 DEF SumsTo, CountedIn, Copies, BagIn, BagToSet
<1>12. Len(factors') = Len(stack')
  <2> PICK hs : hs = SubSeq(factors, 1, Len(factors) - 2)
    OBVIOUS
  <2>1. Len(factors) - 2 \in Nat /\ Len(factors) - 2 <= Len(factors)
    BY ONLY <1>2, <1>3
  <2>2. hs \in Seq(Range(factors)) /\ Len(hs) = Len(factors) - 2
    BY ONLY <1>2, <2>1, hs = SubSeq(factors, 1, Len(factors) - 2), Prefix
  <2>3. Len(Append(hs, f)) = Len(hs) + 1
    <3>1. hs \in Seq(Range(factors) \cup {f}) /\ f \in Range(factors) \cup {f}
      BY ONLY <2>2
    <3> QED BY ONLY <3>1, Pushed
  <2>4. factors' = Append(hs, f)
    BY ONLY <1>5, hs = SubSeq(factors, 1, Len(factors) - 2)
  <2> QED BY ONLY <1>2, <1>4, <2>2, <2>3, <2>4
<1> QED BY <1>4, <1>11, <1>12 DEF FactorsTell

\* A scenario is over, the first or another.
LEMMA LeaveTells ==
    ASSUME WalkInv, FactorsTell, MetricsLeave
    PROVE  FactorsTell'
BY LeaveFirstTells, LeaveHeldTells

\* The metrics change a frame, and count and write nothing.
LEMMA TurnTells ==
    ASSUME WalkInv, FactorsTell, Working, UNCHANGED <<score, visitor, roots, words, factors>>,
           NEW e \in Frames, ReplaceTop(e)
    PROVE  FactorsTell'
<1>1. stack \in Seq(Frames) /\ stack # <<>>
  BY DEF Working, WalkInv, WalkTypeOK
<1>2. stack' = [stack EXCEPT ![Len(stack)] = e]
  BY DEF ReplaceTop
<1>3. stack' # <<>> /\ Len(stack') = Len(stack)
  BY ONLY <1>1, <1>2, e \in Frames, Replaced
<1>4. ASSUME visitor = "metrics", NEW op \in operators_t
      PROVE  SumsTo(factors, op, Copies(<<op>>, words))'
  <2>1. SumsTo(factors, op, Copies(<<op>>, words))
    BY <1>4 DEF FactorsTell
  <2> QED BY <2>1 DEF SumsTo, CountedIn, Copies, BagIn, BagToSet
<1>5. visitor = "metrics" => roots = {} /\ Len(factors) = Len(stack)
  BY DEF FactorsTell, Working
<1> QED BY <1>3, <1>4, <1>5 DEF FactorsTell

\* What is counted over all scenarios being visited has been written.
THEOREM FactorsInvariance == Spec => []FactorsTell
<1>1. Init => FactorsTell
  <2> SUFFICES ASSUME Init, visitor = "metrics" PROVE FactorsTell
    BY DEF FactorsTell
  <2>1. stack = <<>> /\ factors = <<>> /\ words = EmptyBag /\ roots = {score.first}
    BY DEF Init
  <2>2. ASSUME NEW op \in operators_t PROVE SumsTo(factors, op, Copies(<<op>>, words))
    <3>1. Copies(<<op>>, words) = 0
      BY <2>1, CopiesOfNone
    <3>2. SumsTo(<<>>, op, 0)
      BY NoneSumsTo
    <3> QED BY ONLY <2>1, <3>1, <3>2
  <2> QED BY <2>1, <2>2 DEF FactorsTell
<1>2. WalkInv /\ FactorsTell /\ [Next]_vars => FactorsTell'
  <2> SUFFICES ASSUME WalkInv, FactorsTell, [Next]_vars PROVE FactorsTell'
    OBVIOUS
  <2>1. ASSUME NEW x \in score.objects, MetricsVisit(x) PROVE FactorsTell'
    BY <2>1, VisitTells
  <2>2. ASSUME NEW p \in DOMAIN score.kind, MetricsEnter(p) PROVE FactorsTell'
    BY <2>2, EnterTells
  <2>3. CASE MetricsLeave
    BY <2>3, LeaveTells
  <2>4. CASE MetricsLeaveInterval
    <3> PICK t : t = top
      OBVIOUS
    <3>1. Working /\ t \in Frames
      BY <2>4, TopFrame DEF LeaveInterval, MetricsLeaveInterval, WalkInv
    <3> PICK e : e = [t EXCEPT !.at = Base]
      OBVIOUS
    <3>2. e \in Frames
      BY <3>1 DEF Frames
    <3>3. ReplaceTop(e) /\ UNCHANGED <<score, visitor, roots, words, factors>>
      BY <2>4 DEF LeaveInterval, MetricsLeaveInterval
    <3> QED BY <3>1, <3>2, <3>3, TurnTells
  <2>5. CASE NextContainer
    <3> PICK t : t = top
      OBVIOUS
    <3>1. Working /\ t \in Frames /\ FrameOK(t) /\ t.loop < Len(Containers(visitor))
      BY <2>5, TopOK DEF NextContainer, LoopOver, WalkInv
    <3> PICK next : next = OfKind(score, Containers(visitor)[t.loop + 1], t.scenar)
      OBVIOUS
    <3> PICK e : e = [t EXCEPT !.loop = @ + 1, !.left = next]
      OBVIOUS
    <3>2. e \in Frames
      <4>1. next \subseteq score.objects
        BY DEF OfKind
      <4>2. t.loop + 1 \in 1..4
        BY <3>1, HowManyContainers DEF WalkInv, WalkTypeOK, Frames
      <4> QED BY <3>1, <4>1, <4>2 DEF Frames
    <3>3. ReplaceTop(e) /\ UNCHANGED <<score, visitor, roots, words, factors>>
      BY <2>5 DEF NextContainer
    <3> QED BY <3>1, <3>2, <3>3, TurnTells
  <2>6. CASE visitor' = visitor /\ visitor # "metrics"
    BY <2>6 DEF FactorsTell
  <2>7. CASE UNCHANGED vars
    <3>1. UNCHANGED <<score, visitor, roots, stack, words, factors>>
      BY <2>7 DEF vars
    <3> QED BY <3>1 DEF FactorsTell, SumsTo, CountedIn, Copies, BagIn, BagToSet
  <2>8. ASSUME NEW x \in score.objects, MLVisit(x) \/ CPPVisit(x) \/ StatisticsVisit(x)
        PROVE  visitor' = visitor /\ visitor # "metrics"
    BY <2>8 DEF MLVisit, CPPVisit, StatisticsVisit
  <2>9. ASSUME NEW p \in DOMAIN score.kind, StatisticsEnter(p)
        PROVE  visitor' = visitor /\ visitor # "metrics"
    BY <2>9 DEF StatisticsEnter
  <2>10. ASSUME StatisticsLeaveInterval \/ StatisticsLeave \/ ExportWalks
         PROVE  visitor' = visitor /\ visitor # "metrics"
    BY <2>10 DEF StatisticsLeaveInterval, StatisticsLeave, ExportWalks
  <2> QED BY <2>1, <2>2, <2>3, <2>4, <2>5, <2>6, <2>7, <2>8, <2>9, <2>10 DEF Next
<1>3. Init /\ [][Next]_vars /\ []WalkInv => []FactorsTell
  BY <1>1, <1>2, PTL
<1> QED BY <1>3, WalkInvariance, PTL DEF Spec

\* HalsteadVisitor and LanguageVisitor, written apart, agree on the operators that
\* the first has counters for: each is counted for the first scenario as often as
\* the text has it, at any depth.  "[;]" is none of them, and is not counted.
THEOREM OperatorsMatchWords == Spec => []OperatorsAreWords
<1>1. FactorsTell => OperatorsAreWords
  <2> SUFFICES ASSUME FactorsTell, visitor = "metrics", Done, NEW op \in operators_t
               PROVE  Copies(op, factors[1].operators) = Copies(<<op>>, words)
    BY DEF OperatorsAreWords, operators_t
  <2>1. Len(factors) = 1
    BY DEF FactorsTell, Done, Working
  <2> PICK total : total = Copies(<<op>>, words)
    OBVIOUS
  <2>2. SumsTo(factors, op, total)
    BY DEF FactorsTell
  <2>3. CountedIn(factors[1], op) = total
    <3> PICK T \in [0..1 -> Nat] :
           /\ T[0] = 0 /\ T[1] = total
           /\ \A k \in 1..1 : T[k] = T[k - 1] + CountedIn(factors[k], op)
      BY ONLY <2>1, <2>2 DEF SumsTo
    <3>1. CountedIn(factors[1], op) \in Nat
      BY ONLY <2>1, <2>2 DEF SumsTo
    <3>2. T[1] = T[0] + CountedIn(factors[1], op)
      OBVIOUS
    <3> QED BY <3>1, <3>2
  <2> QED BY <2>3 DEF CountedIn
<1> QED BY <1>1, FactorsInvariance, PTL

-----------------------------------------------------------------------------
(* What the walk has entered, and what is ahead of it.                     *)

AllScenarios == {p \in DOMAIN score.kind : score.kind[p] = "scenario"}

\* The scenarios in E have been entered, and nothing that f is still to look at
\* holds one of them.
FrameEnters(f, E) ==
    /\ f.scenar \in E
    /\ f.held \subseteq scenariosOf(f.at) \ E
    /\ f.at # Base => f.at \in OfKind(score, "interval", f.scenar) \ f.left
    /\ \A p \in E : score.holder[p] \notin f.left

\* What will be entered, what is held by what will be looked at or entered, and
\* what is beside the first process, when that is the one measured.
Ahead(p, E) ==
    \/ p \in roots
    \/ \E k \in 1..Len(stack) : p \in stack[k].held \/ score.holder[p] \in stack[k].left
    \/ score.holder[p] # Base /\ score.holder[p][2] \notin E
    \/ score.holder[p] = Base /\ visitor # "statistics"

\* All scenarios have been entered once or are ahead; one that has been is in one
\* that has been.
Entered(E) ==
    /\ E \subseteq AllScenarios
    /\ roots \subseteq scenariosOf(Base) \ E
    /\ \A p \in E : score.holder[p] # Base => score.holder[p][2] \in E
    /\ \A k \in 1..Len(stack) : FrameEnters(stack[k], E)
    /\ \A j, k \in 1..Len(stack) : stack[j].scenar = stack[k].scenar => j = k
    /\ \A p \in AllScenarios \ E : Ahead(p, E)

\* What holds a process is the base interval, or an interval of a scenario.
LEMMA Holders ==
    ASSUME WalkTypeOK
    PROVE  /\ \A p \in DOMAIN score.kind :
                 \/ score.holder[p] = Base
                 \/ /\ score.holder[p] \in OfKind(score, "interval", score.holder[p][2])
                    /\ score.holder[p] # Base /\ score.holder[p][2] \in AllScenarios
           /\ Base \notin score.objects
           /\ \A x \in score.objects : x[2] \in AllScenarios
<1>1. ScoreOK(score)
  BY Known
<1>2. /\ DOMAIN score.holder = DOMAIN score.kind
      /\ \A p \in DOMAIN score.kind :
            score.holder[p] = Base
               \/ (score.holder[p] \in score.objects /\ score.holder[p][1] = "interval")
  BY <1>1 DEF ScoreOK
<1>3. \A x \in score.objects : x[1] \in {"interval", "event", "timeSync", "state"}
         /\ x[2] \in DOMAIN score.holder /\ score.kind[x[2]] = "scenario"
  BY <1>1 DEF ScoreOK
<1>4. Base \notin score.objects
  BY <1>3 DEF Base
<1>5. \A x \in score.objects : x[2] \in AllScenarios
  BY <1>2, <1>3 DEF AllScenarios
<1> QED BY <1>2, <1>4, <1>5 DEF OfKind

\* The innermost scenario changes; nothing is entered.
LEMMA TurnEnters ==
    ASSUME WalkTypeOK, FramesOK, Working, UNCHANGED <<score, visitor, roots>>,
           NEW E, Entered(E), NEW e \in Frames, ReplaceTop(e), e.scenar = top.scenar,
           FrameEnters(e, E),
           \A p \in AllScenarios \ E :
              p \in top.held \/ score.holder[p] \in top.left =>
                 p \in e.held \/ score.holder[p] \in e.left
    PROVE  Entered(E)'
<1>1. stack \in Seq(Frames) /\ stack # <<>> /\ Len(stack) \in Nat /\ Len(stack) >= 1
  BY TopFrame DEF Working, WalkTypeOK
<1>2. /\ Len(stack') = Len(stack) /\ stack'[Len(stack)] = e
      /\ \A k \in 1..(Len(stack) - 1) : stack'[k] = stack[k]
  BY <1>1, Replaced DEF ReplaceTop
<1>3. \A k \in 1..Len(stack) : k = Len(stack) \/ k \in 1..(Len(stack) - 1)
  BY <1>1
<1>4. /\ AllScenarios' = AllScenarios
      /\ \A c : scenariosOf(c)' = scenariosOf(c)
      /\ \A f : FrameEnters(f, E)' <=> FrameEnters(f, E)
  BY DEF AllScenarios, scenariosOf, FrameEnters
<1>5. \A k \in 1..Len(stack) : stack'[k].scenar = stack[k].scenar
  BY <1>2, <1>3 DEF top
<1>6. ASSUME NEW k \in 1..Len(stack') PROVE FrameEnters(stack[k], E)'
  <2>1. FrameEnters(stack'[k], E)
    BY <1>2, <1>3 DEF Entered
  <2> QED BY <2>1 DEF FrameEnters, scenariosOf
<1>7. ASSUME NEW p \in AllScenarios \ E PROVE Ahead(p, E)'
  <2>1. Ahead(p, E)
    BY DEF Entered
  <2>2. ASSUME NEW k \in 1..Len(stack), p \in stack[k].held \/ score.holder[p] \in stack[k].left
        PROVE  Ahead(p, E)'
    <3>1. p \in stack'[k].held \/ score.holder[p] \in stack'[k].left
      BY <1>2, <1>3, <2>2 DEF top
    <3> QED BY <1>2, <3>1 DEF Ahead
  <2> QED BY <2>1, <2>2 DEF Ahead
<1> QED BY <1>2, <1>4, <1>5, <1>6, <1>7 DEF Entered

\* An object is visited, and its scenarios come next.
LEMMA VisitEnters ==
    ASSUME WalkTypeOK, FramesOK, visitor # "cpp", NEW E, Entered(E), NEW x, Visit(x),
           UNCHANGED <<score, visitor>>
    PROVE  Entered(E)'
<1> PICK t : t = top
  OBVIOUS
<1>1. Working /\ t \in Frames /\ FrameOK(t) /\ t.at = Base /\ t.held = {} /\ x \in t.left
  BY TopOK DEF Visit, FrameOK
<1>2. FrameEnters(t, E)
  <2>1. stack \in Seq(Frames) /\ Len(stack) \in Nat /\ Len(stack) >= 1
    BY <1>1, TopOK
  <2> QED BY <2>1 DEF Entered, top
<1>3. x \in score.objects /\ x[2] = t.scenar
  BY <1>1 DEF FrameOK, Container, OfKind
<1> PICK at, held :
       /\ at = IF x[1] = "interval" THEN x ELSE Base
       /\ held = IF x[1] = "interval" THEN scenariosOf(x) ELSE {}
  OBVIOUS
<1> PICK e : e = [t EXCEPT !.left = @ \ {x}, !.at = at, !.held = held]
  OBVIOUS
<1>4. /\ e \in Frames /\ e.scenar = t.scenar /\ e.left = t.left \ {x} /\ e.at = at
      /\ e.held = held
  <2>1. at \in score.objects \cup {Base} /\ held \subseteq DOMAIN score.kind
    BY <1>3 DEF scenariosOf
  <2> QED BY <1>1, <2>1 DEF Frames
<1>5. ReplaceTop(e) /\ UNCHANGED roots
  BY DEF Visit
<1>6. \A p \in E : score.holder[p] # x
  BY <1>1, <1>2 DEF FrameEnters
<1>7. FrameEnters(e, E)
  <2>1. held \subseteq scenariosOf(at) \ E
    BY <1>6 DEF scenariosOf
  <2>2. at # Base => at \in OfKind(score, "interval", t.scenar) \ e.left
    BY <1>3, <1>4 DEF OfKind
  <2> QED BY <1>2, <1>4, <2>1, <2>2 DEF FrameEnters
<1>8. ASSUME NEW p \in AllScenarios \ E, p \in t.held \/ score.holder[p] \in t.left
      PROVE  p \in e.held \/ score.holder[p] \in e.left
  <2>1. score.holder[p] \in t.left
    BY <1>1, <1>8
  <2>2. CASE score.holder[p] = x
    <3>1. x[1] = "interval"
      <4>1. p \in DOMAIN score.kind /\ x # Base
        BY <1>3, Holders DEF AllScenarios
      <4> QED BY <2>2, <4>1, Holders DEF OfKind
    <3> QED BY <1>4, <2>2, <3>1 DEF AllScenarios, scenariosOf
  <2>3. CASE score.holder[p] # x
    BY <1>4, <2>1, <2>3
  <2> QED BY <2>2, <2>3
<1> QED BY <1>1, <1>4, <1>5, <1>7, <1>8, TurnEnters

\* The next container is gone through: no interval of it holds what was entered.
LEMMA NextContainerEnters ==
    ASSUME WalkTypeOK, FramesOK, visitor # "cpp", NEW E, Entered(E), NextContainer
    PROVE  Entered(E)'
<1> PICK t : t = top
  OBVIOUS
<1>1. Working /\ t \in Frames /\ FrameOK(t) /\ t.at = Base /\ t.held = {} /\ t.left = {}
  BY TopOK DEF NextContainer, LoopOver, FrameOK
<1>2. FrameEnters(t, E)
  <2>1. stack \in Seq(Frames) /\ Len(stack) \in Nat /\ Len(stack) >= 1
    BY <1>1, TopOK
  <2> QED BY <2>1 DEF Entered, top
<1> PICK kind : kind = Containers(visitor)[t.loop + 1]
  OBVIOUS
<1> PICK next : next = OfKind(score, kind, t.scenar)
  OBVIOUS
<1> PICK e : e = [t EXCEPT !.loop = @ + 1, !.left = next]
  OBVIOUS
<1>3. /\ e \in Frames /\ e.scenar = t.scenar /\ e.left = next /\ e.at = t.at
      /\ e.held = t.held
  <2>1. next \subseteq score.objects
    BY DEF OfKind
  <2>2. t.loop < Len(Containers(visitor)) /\ Len(Containers(visitor)) \in 1..4
    BY HowManyContainers DEF NextContainer, LoopOver, WalkTypeOK
  <2>3. t.loop \in 1..4 /\ t.loop + 1 \in 1..4
    BY <1>1, <2>2 DEF Frames
  <2> QED BY <1>1, <2>1, <2>3 DEF Frames
<1>4. ReplaceTop(e) /\ UNCHANGED <<score, visitor, roots>>
  BY DEF NextContainer
<1>5. kind # "interval"
  <2>1. t.loop \in 1..4 /\ t.loop < Len(Containers(visitor))
    BY <1>1 DEF Frames, NextContainer
  <2> QED BY <2>1 DEF WalkTypeOK, Visitors, Containers
<1>6. \A p \in E : score.holder[p] \notin next
  <2> SUFFICES ASSUME NEW p \in E, score.holder[p] \in next PROVE FALSE
    OBVIOUS
  <2>1. p \in DOMAIN score.kind
    BY DEF Entered, AllScenarios
  <2>2. score.holder[p] \in score.objects /\ score.holder[p][1] = kind
    BY DEF OfKind
  <2> QED BY <1>5, <2>1, <2>2, Holders DEF OfKind
<1>7. FrameEnters(e, E)
  BY <1>1, <1>2, <1>3, <1>6 DEF FrameEnters
<1> QED BY <1>1, <1>3, <1>4, <1>7, TurnEnters

\* An interval is left, all it holds having been entered.
LEMMA LeaveIntervalEnters ==
    ASSUME WalkTypeOK, FramesOK, NEW E, Entered(E), LeaveInterval, UNCHANGED <<score, visitor>>
    PROVE  Entered(E)'
<1> PICK t : t = top
  OBVIOUS
<1>1. Working /\ t \in Frames /\ t.held = {}
  BY TopOK DEF LeaveInterval
<1>2. FrameEnters(t, E)
  <2>1. stack \in Seq(Frames) /\ Len(stack) \in Nat /\ Len(stack) >= 1
    BY <1>1, TopOK
  <2> QED BY <2>1 DEF Entered, top
<1> PICK e : e = [t EXCEPT !.at = Base]
  OBVIOUS
<1>3. e \in Frames /\ e.scenar = t.scenar /\ e.left = t.left /\ e.held = t.held /\ e.at = Base
  BY <1>1 DEF Frames
<1>4. ReplaceTop(e) /\ UNCHANGED roots
  BY DEF LeaveInterval
<1>5. FrameEnters(e, E)
  BY <1>1, <1>2, <1>3 DEF FrameEnters
<1> QED BY <1>1, <1>3, <1>4, <1>5, TurnEnters

\* A scenario is left, all it holds having been entered.
LEMMA LeaveScenarioEnters ==
    ASSUME WalkTypeOK, FramesOK, NEW E, Entered(E), LeaveScenario, UNCHANGED <<score, visitor>>
    PROVE  Entered(E)'
<1> PICK t : t = top
  OBVIOUS
<1>1. Working /\ t \in Frames /\ FrameOK(t) /\ t.held = {} /\ t.left = {}
  BY TopOK DEF LeaveScenario, LoopOver, FrameOK
<1>2. stack \in Seq(Frames) /\ stack # <<>> /\ Len(stack) \in Nat /\ Len(stack) >= 1
  BY <1>1, TopOK DEF Working
<1>3. /\ Len(stack') = Len(stack) - 1
      /\ \A k \in 1..(Len(stack) - 1) : stack'[k] = stack[k]
  BY <1>2, Popped DEF LeaveScenario
<1>4. \A k \in 1..Len(stack) : k = Len(stack) \/ k \in 1..(Len(stack) - 1)
  BY <1>2
<1>5. roots' = roots /\ AllScenarios' = AllScenarios /\ scenariosOf(Base)' = scenariosOf(Base)
  BY DEF LeaveScenario, AllScenarios, scenariosOf
<1>6. ASSUME NEW k \in 1..Len(stack')
      PROVE  k \in 1..Len(stack) /\ stack'[k] = stack[k] /\ FrameEnters(stack[k], E)'
  <2>1. k \in 1..Len(stack) /\ stack'[k] = stack[k]
    BY <1>2, <1>3
  <2>2. FrameEnters(stack'[k], E)
    BY <2>1 DEF Entered
  <2> QED BY <2>1, <2>2 DEF FrameEnters, scenariosOf
<1>7. ASSUME NEW p \in AllScenarios \ E PROVE Ahead(p, E)'
  <2>1. Ahead(p, E)
    BY DEF Entered
  <2>2. ASSUME NEW k \in 1..Len(stack), p \in stack[k].held \/ score.holder[p] \in stack[k].left
        PROVE  Ahead(p, E)'
    <3>1. k # Len(stack)
      BY <1>1, <2>2 DEF top
    <3>2. k \in 1..Len(stack') /\ stack'[k] = stack[k]
      BY <1>3, <1>4, <3>1
    <3> QED BY <2>2, <3>2 DEF Ahead
  <2> QED BY <1>5, <2>1, <2>2 DEF Ahead
<1> QED BY <1>5, <1>6, <1>7 DEF Entered

\* A scenario is entered that has not been, and is held by where the walk is.
LEMMA EnterEnters ==
    ASSUME WalkTypeOK, FramesOK, visitor # "cpp", NEW E, Entered(E),
           NEW p \in DOMAIN score.kind, Enter(p), UNCHANGED <<score, visitor>>
    PROVE  /\ p \in AllScenarios \ E /\ Entered(E \cup {p})'
           /\ score.holder[p] = IF Working THEN top.at ELSE Base
<1> PICK f : f = Frame(p)
  OBVIOUS
<1> PICK F : F = E \cup {p}
  OBVIOUS
<1>1. /\ f.scenar = p /\ f.held = {} /\ f.at = Base
      /\ f.left = OfKind(score, "interval", p) /\ f \in Frames
  <2>1. Containers(visitor)[1] = "interval"
    BY DEF WalkTypeOK, Visitors, Containers
  <2> QED BY <2>1, EnteredOK DEF Frame
<1>2. /\ AllScenarios' = AllScenarios
      /\ \A c : scenariosOf(c)' = scenariosOf(c)
  BY DEF AllScenarios, scenariosOf
<1>3. /\ \A c : \A q \in scenariosOf(c) : q \in AllScenarios /\ score.holder[q] = c
      /\ \A q \in AllScenarios : q \in DOMAIN score.kind
  BY DEF AllScenarios, scenariosOf
<1>4. p \in AllScenarios \ E => FrameEnters(f, F)
  <2> SUFFICES ASSUME p \in AllScenarios \ E, NEW q \in F PROVE score.holder[q] \notin f.left
    BY <1>1 DEF FrameEnters
  <2> SUFFICES ASSUME score.holder[q] \in f.left PROVE FALSE
    OBVIOUS
  <2>1. score.holder[q] \in score.objects /\ score.holder[q][2] = p
    BY <1>1 DEF OfKind
  <2>2. score.holder[q] # Base
    BY <2>1, Holders
  <2>3. CASE q \in E
    BY <2>1, <2>2, <2>3 DEF Entered
  <2>4. CASE q = p
    \* a scenario that is held by one of its own intervals
    <3>1. p \in AllScenarios
      OBVIOUS
    <3>2. ScoreOK(score)
      BY Known
    <3>3. {p} # {} /\ {p} \in SUBSET {r \in DOMAIN score.kind : score.kind[r] = "scenario"}
      BY <3>1 DEF AllScenarios
    <3>4. \E r \in {p} : score.holder[r] = Base \/ score.holder[r][2] \notin {p}
      BY <3>2, <3>3 DEF ScoreOK
    <3> QED BY <2>1, <2>2, <2>4, <3>4
  <2> QED BY <2>3, <2>4
<1>5. CASE ~Working
  <2>1. stack = <<>> /\ stack' = <<f>> /\ p \in roots /\ roots' = roots \ {p}
    BY <1>5 DEF Enter, Working
  <2>2. Len(stack) = 0 /\ Len(stack') = 1 /\ stack'[1] = f
    BY <2>1
  <2>3. p \in AllScenarios \ E /\ score.holder[p] = Base
    BY <1>3, <2>1 DEF Entered
  <2>4. FrameEnters(f, F)'
    BY <1>4, <2>3 DEF FrameEnters, scenariosOf
  <2>5. \A k \in 1..Len(stack') : FrameEnters(stack[k], F)'
    BY <2>2, <2>4 DEF FrameEnters, scenariosOf
  <2>6. \A j, k \in 1..Len(stack') : stack'[j].scenar = stack'[k].scenar => j = k
    BY <2>2
  <2>7. ASSUME NEW q \in AllScenarios \ F PROVE Ahead(q, F)'
    <3>1. Ahead(q, E) /\ q # p
      BY DEF Entered
    <3>2. CASE score.holder[q] # Base /\ score.holder[q][2] \notin E
      <4>1. CASE score.holder[q][2] = p
        <5>1. score.holder[q] \in f.left
          BY <1>1, <1>3, <3>2, <4>1, Holders
        <5> QED BY <2>2, <5>1 DEF Ahead
      <4>2. CASE score.holder[q][2] # p
        BY <3>2, <4>2 DEF Ahead
      <4> QED BY <4>1, <4>2
    <3>3. CASE ~(score.holder[q] # Base /\ score.holder[q][2] \notin E)
      BY <2>1, <2>2, <3>1, <3>3 DEF Ahead
    <3> QED BY <3>2, <3>3
  <2>8. roots' \subseteq scenariosOf(Base) \ F
    BY <2>1 DEF Entered
  <2>9. F \subseteq AllScenarios /\ \A q \in F : score.holder[q] # Base => score.holder[q][2] \in F
    BY <2>3 DEF Entered
  <2>10. Entered(F)'
    BY <1>2, <2>5, <2>6, <2>7, <2>8, <2>9 DEF Entered
  <2> QED BY <1>5, <2>3, <2>10
<1>6. CASE Working
  <2> PICK n \in Nat : n = Len(stack)
    BY <1>6, TopFrame
  <2> PICK t : t = top
    OBVIOUS
  <2>1. /\ stack \in Seq(Frames) /\ stack # <<>> /\ n >= 1
        /\ t \in Frames /\ FrameOK(t) /\ t = stack[n]
    BY <1>6, TopOK DEF Working, top
  <2> PICK e : e = [t EXCEPT !.held = @ \ {p}]
    OBVIOUS
  <2>2. /\ e \in Frames /\ e.scenar = t.scenar /\ e.left = t.left /\ e.at = t.at
        /\ e.held = t.held \ {p}
    BY <2>1 DEF Frames
  <2>3. /\ Len(stack') = n + 1 /\ stack'[n] = e /\ stack'[n + 1] = f
        /\ \A k \in 1..(n - 1) : stack'[k] = stack[k]
    <3> PICK r : r = [stack EXCEPT ![Len(stack)] = e]
      OBVIOUS
    <3>1. r = [stack EXCEPT ![Len(stack)].held = @ \ {p}]
      BY <2>1
    <3>2. stack' = Append(r, f)
      BY <1>6, <3>1 DEF Enter
    <3>3. r = [stack EXCEPT ![Len(stack)] = e]
      OBVIOUS
    <3>4. /\ r \in Seq(Frames) /\ Len(r) = Len(stack) /\ r[Len(stack)] = e
          /\ \A k \in 1..(Len(stack) - 1) : r[k] = stack[k]
      BY ONLY <2>1, <2>2, <3>3, Replaced
    <3>5. /\ Len(stack') = Len(r) + 1
          /\ \A k \in 1..Len(r) : stack'[k] = r[k]
          /\ stack'[Len(r) + 1] = f
      BY ONLY <1>1, <3>2, <3>4, Pushed
    <3> QED BY ONLY <2>1, n = Len(stack), <3>4, <3>5
  <2>4. p \in t.held /\ roots' = roots
    BY <1>6 DEF Enter
  <2>5. \A k \in 1..n : FrameEnters(stack[k], E) /\ FrameOK(stack[k])
    BY DEF Entered, FramesOK
  <2>6. FrameEnters(t, E)
    BY <2>1, <2>5
  <2>7. p \in AllScenarios \ E /\ score.holder[p] = t.at
    BY <1>3, <2>4, <2>6 DEF FrameEnters
  <2>8. t.at # Base /\ t.at \in OfKind(score, "interval", t.scenar) /\ t.at \notin t.left
           /\ t.scenar \in E
    BY <2>1, <2>4, <2>6 DEF FrameOK, FrameEnters
  <2>9. t.at[2] = t.scenar
    BY <2>8 DEF OfKind
  <2>10. FrameEnters(e, F)
    <3>1. e.held \subseteq scenariosOf(e.at) \ F
      BY <2>2, <2>6 DEF FrameEnters
    <3>2. \A q \in F : score.holder[q] \notin e.left
      BY <2>2, <2>6, <2>7, <2>8 DEF FrameEnters
    <3> QED BY <2>2, <2>6, <3>1, <3>2 DEF FrameEnters
  <2>11. ASSUME NEW k \in 1..n, k # n PROVE FrameEnters(stack[k], F)
    <3> PICK g : g = stack[k]
      OBVIOUS
    <3>1. FrameEnters(g, E) /\ FrameOK(g)
      BY <2>5
    <3>2. g.scenar # t.scenar
      BY <2>1, <2>11 DEF Entered
    <3>3. p \notin g.held
      <4> SUFFICES ASSUME p \in g.held PROVE FALSE
        OBVIOUS
      <4>1. score.holder[p] = g.at /\ g.at # Base
        BY <1>3, <3>1 DEF FrameEnters, FrameOK
      <4>2. g.at[2] = g.scenar
        BY <3>1, <4>1 DEF FrameEnters, OfKind
      <4> QED BY <2>7, <2>9, <3>2, <4>1, <4>2
    <3>4. score.holder[p] \notin g.left
      <4>1. \A c \in g.left : c[2] = g.scenar
        BY <3>1 DEF FrameOK, Container, OfKind
      <4> QED BY <2>7, <2>9, <3>2, <4>1
    <3>5. FrameEnters(g, F)
      BY <3>1, <3>3, <3>4 DEF FrameEnters
    <3> QED BY <3>5
  <2>12. ASSUME NEW k \in 1..(n + 1) PROVE FrameEnters(stack'[k], F)
    <3>1. k = n + 1 \/ k = n \/ (k \in 1..(n - 1) /\ k \in 1..n /\ k # n)
      BY <2>1
    <3> QED BY <1>4, <2>3, <2>7, <2>10, <2>11, <3>1
  <2>13. \A k \in 1..Len(stack') : FrameEnters(stack[k], F)'
    BY <2>3, <2>12 DEF FrameEnters, scenariosOf
  <2>14. \A j, k \in 1..Len(stack') : stack'[j].scenar = stack'[k].scenar => j = k
    <3>1. \A k \in 1..n : stack'[k].scenar = stack[k].scenar /\ stack[k].scenar \in E
      <4> TAKE k \in 1..n
      <4>1. k = n \/ k \in 1..(n - 1)
        BY <2>1
      <4> QED BY <2>1, <2>2, <2>3, <2>5, <4>1 DEF FrameEnters
    <3>2. \A j, k \in 1..n : stack'[j].scenar = stack'[k].scenar => j = k
      BY <3>1 DEF Entered
    <3>3. \A k \in 1..(n + 1) : k = n + 1 \/ k \in 1..n
      OBVIOUS
    <3>4. stack'[n + 1].scenar = p /\ p \notin E
      BY <1>1, <2>3, <2>7
    <3> QED BY <2>3, <3>1, <3>2, <3>3, <3>4
  <2>15. ASSUME NEW q \in AllScenarios \ F PROVE Ahead(q, F)'
    <3>1. Ahead(q, E) /\ q # p
      BY DEF Entered
    <3>2. CASE score.holder[q] # Base /\ score.holder[q][2] \notin E
      <4>1. CASE score.holder[q][2] = p
        <5>1. score.holder[q] \in f.left
          BY <1>1, <1>3, <3>2, <4>1, Holders
        <5>2. n + 1 \in 1..Len(stack')
          BY <2>3
        <5> QED BY <2>3, <5>1, <5>2 DEF Ahead
      <4>2. CASE score.holder[q][2] # p
        BY <3>2, <4>2 DEF Ahead
      <4> QED BY <4>1, <4>2
    <3>3. ASSUME NEW k \in 1..n, q \in stack[k].held \/ score.holder[q] \in stack[k].left
          PROVE  Ahead(q, F)'
      <4>1. k = n \/ k \in 1..(n - 1)
        BY <2>1
      <4>2. k \in 1..Len(stack')
        BY <2>3
      <4>3. q \in stack'[k].held \/ score.holder[q] \in stack'[k].left
        BY <2>1, <2>2, <2>3, <3>1, <3>3, <4>1
      <4> QED BY <4>2, <4>3 DEF Ahead
    <3> QED BY <2>4, <3>1, <3>2, <3>3 DEF Ahead
  <2>16. roots' \subseteq scenariosOf(Base) \ F
    <3>1. p \notin roots
      BY <1>3, <2>7, <2>8 DEF Entered
    <3> QED BY <2>4, <3>1 DEF Entered
  <2>17. F \subseteq AllScenarios /\ \A q \in F : score.holder[q] # Base => score.holder[q][2] \in F
    BY <2>7, <2>8, <2>9 DEF Entered
  <2>18. Entered(F)'
    BY <1>2, <2>13, <2>14, <2>15, <2>16, <2>17 DEF Entered
  <2> QED BY <1>6, <2>7, <2>18
<1> QED BY <1>5, <1>6

\* At the end of the statistics nothing is left.
LEMMA AllEntered ==
    ASSUME WalkTypeOK, NEW E, Entered(E), Done
    PROVE  /\ visitor = "statistics" => E = AllScenarios
           /\ \A p \in AllScenarios :
                 score.holder[p] # Base /\ score.holder[p][2] \in E => p \in E
<1>1. roots = {} /\ Len(stack) = 0
  BY DEF Done, Working
<1>2. \A p \in AllScenarios \ E :
         \/ score.holder[p] # Base /\ score.holder[p][2] \notin E
         \/ score.holder[p] = Base /\ visitor # "statistics"
  BY <1>1 DEF Entered, Ahead
<1>3. ASSUME visitor = "statistics", AllScenarios \ E # {} PROVE FALSE
  <2>1. AllScenarios \ E \in SUBSET {r \in DOMAIN score.kind : score.kind[r] = "scenario"}
    BY DEF AllScenarios
  <2> PICK U : U = AllScenarios \ E
    OBVIOUS
  <2>2. PICK p \in U : score.holder[p] = Base \/ score.holder[p][2] \notin U
    BY <1>3, <2>1, Known DEF ScoreOK
  <2>3. score.holder[p] # Base /\ score.holder[p][2] \notin E
    BY <1>2, <1>3
  <2>4. score.holder[p][2] \in AllScenarios
    BY <2>3, Holders DEF AllScenarios
  <2> QED BY <2>2, <2>3, <2>4
<1>4. E \subseteq AllScenarios
  BY DEF Entered
<1> QED BY <1>2, <1>3, <1>4

-----------------------------------------------------------------------------
(* The depth of an interval.                                               *)

\* The scenarios p is in, itself included: those of any set that has p and, with
\* a scenario, the one that holds it.
Outwards(S) == \A r \in S : score.holder[r] # Base => score.holder[r][2] \in S
In(p) == {q \in AllScenarios : \A S \in SUBSET AllScenarios : p \in S /\ Outwards(S) => q \in S}

\* The scenarios around a scenario, itself included.
LEMMA InIs ==
    ASSUME WalkTypeOK, NEW p \in AllScenarios
    PROVE  /\ p \in In(p) /\ Outwards(In(p)) /\ IsFiniteSet(In(p))
           /\ score.holder[p] = Base => In(p) = {p}
           /\ score.holder[p] # Base =>
                 /\ score.holder[p][2] \in AllScenarios
                 /\ In(p) = {p} \cup In(score.holder[p][2])
<1>1. \A r \in AllScenarios : score.holder[r] # Base => score.holder[r][2] \in AllScenarios
  BY Holders DEF AllScenarios
<1>2. ASSUME NEW r \in AllScenarios PROVE r \in In(r) /\ Outwards(In(r))
  <2>1. r \in In(r)
    BY DEF In
  <2>2. ASSUME NEW q \in In(r), score.holder[q] # Base PROVE score.holder[q][2] \in In(r)
    <3>1. score.holder[q][2] \in AllScenarios
      BY <1>1, <2>2 DEF In
    <3>2. ASSUME NEW S \in SUBSET AllScenarios, r \in S, Outwards(S)
          PROVE  score.holder[q][2] \in S
      BY <2>2, <3>2 DEF In, Outwards
    <3> QED BY <3>1, <3>2 DEF In
  <2> QED BY <2>1, <2>2 DEF Outwards
<1>3. IsFiniteSet(In(p))
  <2>1. IsFiniteSet(DOMAIN score.kind)
    BY Known DEF ScoreOK
  <2>2. In(p) \subseteq DOMAIN score.kind
    BY DEF In, AllScenarios
  <2> QED BY <2>1, <2>2, FS_Subset
<1>4. ASSUME score.holder[p] = Base PROVE In(p) = {p}
  <2>1. {p} \in SUBSET AllScenarios /\ Outwards({p})
    BY <1>4 DEF Outwards
  <2> QED BY <1>2, <2>1 DEF In
<1>5. ASSUME score.holder[p] # Base PROVE In(p) = {p} \cup In(score.holder[p][2])
  <2> PICK r \in AllScenarios : r = score.holder[p][2]
    BY <1>1, <1>5
  <2>1. {p} \cup In(r) \in SUBSET AllScenarios /\ Outwards({p} \cup In(r))
    BY <1>2 DEF In, Outwards
  <2>2. In(p) \subseteq {p} \cup In(r)
    BY <2>1 DEF In
  <2>3. In(r) \subseteq In(p)
    BY <1>5 DEF In, Outwards
  <2> QED BY <1>2, <2>2, <2>3
<1> QED BY <1>1, <1>2, <1>3, <1>4, <1>5

\* No scenario is in one that it holds.
LEMMA NotWithin ==
    ASSUME WalkTypeOK, NEW p \in AllScenarios, score.holder[p] # Base
    PROVE  p \notin In(score.holder[p][2])
<1> SUFFICES ASSUME p \in In(score.holder[p][2]) PROVE FALSE
  OBVIOUS
<1> PICK U : U = {r \in In(p) : p \in In(r)}
  OBVIOUS
<1>1. p \in U
  BY InIs
<1>2. ASSUME NEW r \in U PROVE score.holder[r] # Base /\ score.holder[r][2] \in U
  <2>1. r \in AllScenarios /\ r \in In(p) /\ p \in In(r)
    BY DEF In
  <2>2. score.holder[r] # Base /\ p \in In(score.holder[r][2])
    <3>1. CASE r = p
      BY <3>1
    <3>2. CASE r # p
      BY <2>1, <3>2, InIs
    <3> QED BY <3>1, <3>2
  <2>3. score.holder[r][2] \in In(p)
    BY <2>1, <2>2, InIs DEF Outwards
  <2> QED BY <2>2, <2>3
<1>3. U # {} /\ U \in SUBSET {r \in DOMAIN score.kind : score.kind[r] = "scenario"}
  BY <1>1 DEF In, AllScenarios
<1>4. ScoreOK(score)
  BY Known
<1>5. PICK r \in U : score.holder[r] = Base \/ score.holder[r][2] \notin U
  BY <1>3, <1>4 DEF ScoreOK
<1> QED BY <1>2, <1>5

\* There is one depth to each interval.
LEMMA DepthIs ==
    ASSUME WalkTypeOK
    PROVE  /\ Depth[Base] = 0
           /\ \A c \in score.objects : c[1] = "interval" =>
                 Depth[c] = 1 + Depth[score.holder[c[2]]]
<1> DEFINE D == {x \in score.objects : x[1] = "interval"} \cup {Base}
           IsDepth(h) == h = [c \in D |-> IF c = Base THEN 0 ELSE 1 + h[score.holder[c[2]]]]
           h0 == [c \in D |-> IF c = Base THEN 0 ELSE Cardinality(In(c[2]))]
<1>1. ASSUME NEW c \in D, c # Base
      PROVE  /\ c[2] \in AllScenarios /\ score.holder[c[2]] \in D
             /\ h0[c] = 1 + h0[score.holder[c[2]]]
  <2> PICK p : p = c[2]
    OBVIOUS
  <2>1. p \in AllScenarios
    BY <1>1, Holders
  <2>2. score.holder[p] \in D
    BY <2>1, Holders DEF AllScenarios, OfKind
  <2>3. h0[c] = Cardinality(In(p))
    BY <1>1
  <2>4. CASE score.holder[p] = Base
    <3>1. Cardinality(In(p)) = 1
      BY <2>1, <2>4, InIs, FS_Singleton
    <3> QED BY <2>1, <2>2, <2>3, <2>4, <3>1
  <2>5. CASE score.holder[p] # Base
    <3> PICK r : r = score.holder[p][2]
      OBVIOUS
    <3>1. r \in AllScenarios /\ In(p) = {p} \cup In(r) /\ p \notin In(r)
      BY <2>1, <2>5, InIs, NotWithin
    <3>2. IsFiniteSet(In(r))
      BY <3>1, InIs
    <3>3. Cardinality(In(p)) = Cardinality(In(r)) + 1 /\ Cardinality(In(r)) \in Nat
      BY <3>1, <3>2, FS_AddElement, FS_CardinalityType
    <3>4. h0[score.holder[p]] = Cardinality(In(r))
      BY <2>2, <2>5
    <3> QED BY <2>1, <2>2, <2>3, <3>3, <3>4
  <2> QED BY <2>4, <2>5
<1>2. IsDepth(h0)
  <2>1. ASSUME NEW c \in D
        PROVE  h0[c] = IF c = Base THEN 0 ELSE 1 + h0[score.holder[c[2]]]
    <3> HIDE DEF D
    <3>1. CASE c = Base
      BY <3>1
    <3>2. CASE c # Base
      BY <1>1, <3>2
    <3> QED BY <3>1, <3>2
  <2> HIDE DEF D
  <2>2. DOMAIN h0 = D /\ h0 = [c \in D |-> h0[c]]
    OBVIOUS
  <2> HIDE DEF h0
  <2> QED BY <2>1, <2>2
<1>3. Depth = CHOOSE h : IsDepth(h)
  BY DEF Depth
<1>4. IsDepth(Depth)
  <2>1. IsDepth(CHOOSE h : IsDepth(h))
    <3> HIDE DEF IsDepth, h0
    <3> QED BY <1>2
  <2> HIDE DEF D
  <2> QED BY <1>3, <2>1
<1>5. Base \in D /\ \A c \in score.objects : c[1] = "interval" => c \in D /\ c # Base
  BY Holders
<1> HIDE DEF D
<1> QED BY <1>4, <1>5

-----------------------------------------------------------------------------
(* What the statistics are about, in a set of scenarios.                   *)

Sums == {"intervals", "empty_intervals", "events", "nodes", "states",
         "conditions", "triggers", "processes"}

\* What each number of ScenarioStatistics counts, and the scenario it is in.
Thing(k, y) ==
    CASE k = "intervals" -> y \in score.objects /\ y[1] = "interval"
      [] k = "empty_intervals" ->
            /\ y \in score.objects /\ y[1] = "interval"
            /\ \A q \in DOMAIN score.kind : score.holder[q] # y
      [] k = "events" -> y \in score.objects /\ y[1] = "event"
      [] k = "nodes" -> y \in score.objects /\ y[1] = "timeSync"
      [] k = "states" -> y \in score.objects /\ y[1] = "state"
      [] k = "conditions" -> y \in score.conditioned
      [] k = "triggers" -> y \in score.triggered
      [] k = "processes" -> y \in DOMAIN score.kind /\ score.holder[y] # Base
Place(k, y) == IF k = "processes" THEN score.holder[y][2] ELSE y[2]
Things(k, E) == {y \in score.objects \cup DOMAIN score.kind : Thing(k, y) /\ Place(k, y) \in E}

\* They are finitely many, and those of one more scenario are others.
LEMMA ThingsGrow ==
    ASSUME WalkTypeOK, NEW k, NEW E, NEW p
    PROVE  /\ IsFiniteSet(Things(k, E))
           /\ p \notin E =>
                 Cardinality(Things(k, E \cup {p}))
                    = Cardinality(Things(k, E)) + Cardinality(Things(k, {p}))
<1>1. ScoreOK(score)
  BY Known
<1>2. IsFiniteSet(score.objects) /\ IsFiniteSet(DOMAIN score.kind)
  BY <1>1 DEF ScoreOK
<1>3. IsFiniteSet(score.objects \cup DOMAIN score.kind)
  BY <1>2, FS_Union
<1>4. ASSUME NEW F PROVE IsFiniteSet(Things(k, F)) /\ Cardinality(Things(k, F)) \in Nat
  <2>1. Things(k, F) \subseteq score.objects \cup DOMAIN score.kind
    BY DEF Things
  <2> QED BY <1>3, <2>1, FS_Subset, FS_CardinalityType
<1>5. ASSUME p \notin E
      PROVE  Cardinality(Things(k, E \cup {p}))
                = Cardinality(Things(k, E)) + Cardinality(Things(k, {p}))
  <2> PICK A, B, C : A = Things(k, E) /\ B = Things(k, {p}) /\ C = Things(k, E \cup {p})
    OBVIOUS
  <2>1. C = A \cup B /\ A \cap B = {}
    BY <1>5 DEF Things
  <2>2. IsFiniteSet(A) /\ IsFiniteSet(B) /\ Cardinality(A) \in Nat /\ Cardinality(B) \in Nat
    BY <1>4
  <2>3. Cardinality(A \cap B) = 0
    BY <2>1, FS_EmptySet
  <2>4. Cardinality(A \cup B) = Cardinality(A) + Cardinality(B) - Cardinality(A \cap B)
    BY <2>2, FS_Union
  <2>5. Cardinality(C) = Cardinality(A \cup B)
    BY <2>1
  <2> PICK a, b, c, d : /\ a = Cardinality(A) /\ b = Cardinality(B)
                        /\ c = Cardinality(C) /\ d = Cardinality(A \cap B)
    OBVIOUS
  <2>6. c = a + b
    BY <2>2, <2>3, <2>4, <2>5
  <2> QED BY <2>6
<1> QED BY <1>4, <1>5

\* A scenario is said to contain what it does.
LEMMA ScenarioTells ==
    ASSUME WalkTypeOK, NEW p \in AllScenarios, NEW k \in Sums
    PROVE  ScenarioStatistics(p)[k] = Cardinality(Things(k, {p}))
<1> PICK O : O = score.objects
  OBVIOUS
<1> PICK P : P = DOMAIN score.kind
  OBVIOUS
<1> PICK T : T = Things(k, {p})
  OBVIOUS
<1> PICK itvs : itvs = OfKind(score, "interval", p)
  OBVIOUS
<1> PICK procs : procs = {q \in P : score.holder[q] \in itvs}
  OBVIOUS
<1>1. ScoreOK(score)
  BY Known
<1>2. /\ \A c \in score.conditioned : c \in O /\ c[1] = "event"
      /\ \A c \in score.triggered : c \in O /\ c[1] = "timeSync"
  BY <1>1 DEF ScoreOK
<1>3. \A y : y \in T <=> y \in O \cup P /\ Thing(k, y) /\ Place(k, y) = p
  BY DEF Things
<1>4. \A c : c \in itvs <=> c \in O /\ c[1] = "interval" /\ c[2] = p
  BY DEF OfKind
<1>5. CASE k = "intervals"
  <2>1. T = itvs
    BY <1>3, <1>4, <1>5 DEF Thing, Place
  <2> QED BY <1>5, <2>1 DEF ScenarioStatistics
<1>6. CASE k = "empty_intervals"
  <2>1. \A y : y \in T <=> y \in itvs /\ \A q \in P : score.holder[q] # y
    BY <1>3, <1>4, <1>6 DEF Thing, Place
  <2>2. T = {c \in itvs : \A q \in procs : score.holder[q] # c}
    BY <2>1
  <2> QED BY <1>6, <2>2 DEF ScenarioStatistics
<1>7. CASE k = "events"
  <2>1. T = OfKind(score, "event", p)
    BY <1>3, <1>7 DEF Thing, Place, OfKind
  <2> QED BY <1>7, <2>1 DEF ScenarioStatistics
<1>8. CASE k = "nodes"
  <2>1. T = OfKind(score, "timeSync", p)
    BY <1>3, <1>8 DEF Thing, Place, OfKind
  <2> QED BY <1>8, <2>1 DEF ScenarioStatistics
<1>9. CASE k = "states"
  <2>1. T = OfKind(score, "state", p)
    BY <1>3, <1>9 DEF Thing, Place, OfKind
  <2> QED BY <1>9, <2>1 DEF ScenarioStatistics
<1>10. CASE k = "conditions"
  <2>1. T = OfKind(score, "event", p) \cap score.conditioned
    BY <1>2, <1>3, <1>10 DEF Thing, Place, OfKind
  <2> QED BY <1>10, <2>1 DEF ScenarioStatistics
<1>11. CASE k = "triggers"
  <2>1. T = OfKind(score, "timeSync", p) \cap score.triggered
    BY <1>2, <1>3, <1>11 DEF Thing, Place, OfKind
  <2> QED BY <1>11, <2>1 DEF ScenarioStatistics
<1>12. CASE k = "processes"
  <2>1. \A y : y \in T <=> y \in P /\ score.holder[y] # Base /\ score.holder[y][2] = p
    BY <1>3, <1>12 DEF Thing, Place
  <2>2. ASSUME NEW y \in P
        PROVE  score.holder[y] \in itvs <=> score.holder[y] # Base /\ score.holder[y][2] = p
    <3>1. \/ score.holder[y] = Base
          \/ score.holder[y] \in O /\ score.holder[y][1] = "interval"
      BY Holders DEF OfKind
    <3>2. Base \notin O
      BY Holders
    <3> QED BY <1>4, <3>1, <3>2
  <2>3. T = procs
    BY <2>1, <2>2
  <2> QED BY <1>12, <2>3 DEF ScenarioStatistics
<1> QED BY <1>5, <1>6, <1>7, <1>8, <1>9, <1>10, <1>11, <1>12 DEF Sums

\* The bag of the kinds of some processes.
OfProcessKind(k, procs) == {q \in procs : score.kind[q] = k}

\* Kinds counts each process of a finite set once.
LEMMA KindsAre ==
    ASSUME NEW procs, IsFiniteSet(procs), NEW k
    PROVE  /\ DOMAIN Kinds(procs) \subseteq {score.kind[q] : q \in procs}
           /\ Copies(k, Kinds(procs)) = Cardinality(OfProcessKind(k, procs))
<1> PICK n : n = Cardinality(procs)
  OBVIOUS
<1>1. n \in Nat /\ ExistsBijection(1..n, procs)
  BY FS_CardinalityType
<1>2. PICK b : b \in Bijection(1..n, procs)
  BY <1>1 DEF ExistsBijection
<1>3. b \in [1..n -> procs] /\ IsInjective(b)
  BY <1>2 DEF Bijection, Injection
<1> PICK f : f = SetToSeq(procs)
  OBVIOUS
<1>4. f \in [1..n -> procs] /\ IsInjective(f)
  BY <1>3 DEF SetToSeq
<1>5. f \in Injection(1..n, procs)
  BY <1>4 DEF Injection
<1>6. f \in Surjection(1..n, procs)
  <2>0. 1 \in Int /\ n \in Int
    BY <1>1
  <2>1. Cardinality(1..n) = n
    BY <1>1, <2>0, FS_Interval
  <2> QED BY <1>5, <2>1, FS_Injection
<1> PICK s : s = [i \in 1..n |-> score.kind[f[i]]]
  OBVIOUS
<1>7. s \in Seq({score.kind[q] : q \in procs}) /\ Len(s) = n
  BY <1>1, <1>4
<1>8. Kinds(procs) = ToBag(s)
  BY DEF Kinds
<1>9. DOMAIN ToBag(s) \subseteq {score.kind[q] : q \in procs}
  <2>1. DOMAIN ToBag(s) = Range(s) /\ DOMAIN s = 1..n
    BY DEF ToBag
  <2> QED BY <1>4, <2>1 DEF Range
<1> PICK I : I = {i \in 1..Len(s) : s[i] = k}
  OBVIOUS
<1>10. Copies(k, ToBag(s)) = Cardinality(I) /\ IsFiniteSet(I)
  <2> PICK S : S = {score.kind[q] : q \in procs}
    OBVIOUS
  <2>1. s \in Seq(S)
    BY <1>7
  <2>2. /\ Copies(k, ToBag(s)) = Cardinality({i \in 1..Len(s) : s[i] = k})
        /\ IsFiniteSet({i \in 1..Len(s) : s[i] = k})
    BY ONLY <2>1, CopiesAre
  <2> QED BY <2>2
<1> PICK K : K = OfProcessKind(k, procs)
  OBVIOUS
<1>11. /\ \A i : i \in I <=> i \in 1..n /\ score.kind[f[i]] = k
       /\ \A q : q \in K <=> q \in procs /\ score.kind[q] = k
  BY <1>7 DEF OfProcessKind
<1> PICK g : g = [i \in I |-> f[i]]
  OBVIOUS
<1>12. g \in [I -> K]
  BY <1>4, <1>11
<1>13. IsInjective(g)
  <2>1. DOMAIN g = I /\ \A i \in I : g[i] = f[i] /\ i \in DOMAIN f
    BY <1>4, <1>11
  <2> QED BY <1>4, <2>1 DEF IsInjective
<1>14. \A q \in K : \E i \in I : g[i] = q
  <2>1. \A i \in I : g[i] = f[i]
    OBVIOUS
  <2>2. \A q \in procs : \E i \in 1..n : f[i] = q
    BY <1>6 DEF Surjection
  <2> QED BY ONLY <1>11, <2>1, <2>2
<1>15. g \in Bijection(I, K)
  BY <1>12, <1>13, <1>14 DEF Bijection, Injection, Surjection
<1>16. Cardinality(K) = Cardinality(I)
  BY <1>10, <1>15, FS_Bijection DEF ExistsBijection
<1> QED BY <1>8, <1>9, <1>10, <1>16

\* GlobalStatistics has added up the scenarios of E.
StatsTell(E) ==
    /\ {"sums", "kinds", "curDepth", "maxDepth"} \subseteq DOMAIN stats
    /\ DOMAIN stats.sums = Sums
    /\ \A k \in Sums : stats.sums[k] = Cardinality(Things(k, E))

\* The processes of the base interval, and of the scenarios of E.
Processes(E) ==
    {q \in DOMAIN score.kind : score.holder[q] = Base \/ score.holder[q][2] \in E}
KindsTell(E) ==
    /\ DOMAIN stats.kinds \subseteq {score.kind[q] : q \in DOMAIN score.kind}
    /\ \A k : Copies(k, stats.kinds) = Cardinality(OfProcessKind(k, Processes(E)))

\* The intervals gone past are no deeper than maxDepth, and one is as deep; the
\* k-th scenario of the stack is in k - 1 intervals.
DepthsTell(E) ==
    /\ stats.maxDepth \in Nat
    /\ \A c \in score.objects :
          c[1] = "interval" /\ c[2] \in E =>
             \/ Depth[c] \in 0..stats.maxDepth
             \/ \E k \in 1..Len(stack) : c \in stack[k].left
    /\ stats.maxDepth # 0 =>
          \E c \in score.objects : c[1] = "interval" /\ Depth[c] = stats.maxDepth
    /\ \A k \in 1..Len(stack) : Depth[score.holder[stack[k].scenar]] = k - 1

-----------------------------------------------------------------------------
(* A scenario is entered, and what is in it is added.                      *)

\* The numbers of a scenario entered are added.
LEMMA EnterSums ==
    ASSUME WalkTypeOK, NEW E, StatsTell(E), NEW p \in AllScenarios \ E, StatisticsEnter(p)
    PROVE  StatsTell(E \cup {p})'
<1> PICK F : F = E \cup {p}
  OBVIOUS
<1> PICK sums : sums = [k \in Sums |-> stats.sums[k] + ScenarioStatistics(p)[k]]
  OBVIOUS
<1>1. /\ DOMAIN stats' = DOMAIN stats /\ stats'.sums = sums
      /\ UNCHANGED score
  BY DEF StatisticsEnter, StatsTell
<1>2. ASSUME NEW k \in Sums PROVE stats'.sums[k] = Cardinality(Things(k, F))
  <2>1. Cardinality(Things(k, F)) = Cardinality(Things(k, E)) + Cardinality(Things(k, {p}))
    BY ThingsGrow
  <2>2. ScenarioStatistics(p)[k] = Cardinality(Things(k, {p}))
    BY ScenarioTells
  <2>3. stats.sums[k] = Cardinality(Things(k, E))
    BY DEF StatsTell
  <2> QED BY <1>1, <2>1, <2>2, <2>3
<1>3. \A k : Things(k, F)' = Things(k, F)
  BY <1>1 DEF Things, Thing, Place
<1>4. DOMAIN stats'.sums = Sums
  BY <1>1
<1>5. {"sums", "kinds", "curDepth", "maxDepth"} \subseteq DOMAIN stats'
  BY <1>1 DEF StatsTell
<1>6. \A k \in Sums : stats'.sums[k] = Cardinality(Things(k, F)')
  BY <1>2, <1>3
<1>7. StatsTell(F)'
  BY <1>4, <1>5, <1>6 DEF StatsTell
<1> QED BY <1>7

\* The processes its intervals hold are counted.
LEMMA EnterKinds ==
    ASSUME WalkTypeOK, NEW E, StatsTell(E), KindsTell(E),
           NEW p \in AllScenarios \ E, StatisticsEnter(p)
    PROVE  KindsTell(E \cup {p})'
<1> PICK F : F = E \cup {p}
  OBVIOUS
<1> PICK procs :
       procs = {q \in DOMAIN score.kind : score.holder[q] \in OfKind(score, "interval", p)}
  OBVIOUS
<1>1. stats'.kinds = stats.kinds (+) Kinds(procs) /\ UNCHANGED score
  BY DEF StatisticsEnter, StatsTell, KindsWithin
<1>2. Processes(F) = Processes(E) \cup procs /\ Processes(E) \cap procs = {}
  <2>1. \A q \in DOMAIN score.kind :
           q \in procs <=> score.holder[q] # Base /\ score.holder[q][2] = p
    BY Holders DEF OfKind
  <2> QED BY <2>1 DEF Processes
<1>3. IsFiniteSet(DOMAIN score.kind)
  BY Known DEF ScoreOK
<1>4. \A T \in SUBSET DOMAIN score.kind : IsFiniteSet(T) /\ Cardinality(T) \in Nat
  BY <1>3, FS_Subset, FS_CardinalityType
<1>5. procs \in SUBSET DOMAIN score.kind /\ Processes(E) \in SUBSET DOMAIN score.kind
  BY DEF Processes
<1>6. ASSUME NEW k
      PROVE  Copies(k, stats'.kinds) = Cardinality(OfProcessKind(k, Processes(F)))
  <2> PICK A, B, C : /\ A = OfProcessKind(k, Processes(E)) /\ B = OfProcessKind(k, procs)
                     /\ C = OfProcessKind(k, Processes(F))
    OBVIOUS
  <2>1. C = A \cup B /\ A \cap B = {}
    BY <1>2 DEF OfProcessKind
  <2>2. A \in SUBSET DOMAIN score.kind /\ B \in SUBSET DOMAIN score.kind
    BY <1>5 DEF OfProcessKind
  <2> PICK a, b, c, d : /\ a = Cardinality(A) /\ b = Cardinality(B)
                        /\ c = Cardinality(A \cup B) /\ d = Cardinality(A \cap B)
    OBVIOUS
  <2>3. IsFiniteSet(A) /\ IsFiniteSet(B) /\ a \in Nat /\ b \in Nat
    BY <1>4, <2>2
  <2>4. c = a + b - d
    BY <2>3, FS_Union
  <2>5. d = 0
    BY <2>1, FS_EmptySet
  <2>6. c = a + b
    BY <2>3, <2>4, <2>5
  <2>7. Copies(k, Kinds(procs)) = b
    BY <1>4, <1>5, KindsAre
  <2>8. Copies(k, stats.kinds) = a
    BY DEF KindsTell
  <2>9. Copies(k, stats'.kinds) = a + b
    BY <1>1, <2>7, <2>8, CopiesOfBoth
  <2> QED BY <2>1, <2>6, <2>9
<1>7. DOMAIN stats'.kinds \subseteq {score.kind[q] : q \in DOMAIN score.kind}
  <2>1. DOMAIN stats'.kinds = DOMAIN stats.kinds \cup DOMAIN Kinds(procs)
    BY <1>1 DEF (+)
  <2>2. DOMAIN Kinds(procs) \subseteq {score.kind[q] : q \in procs}
    BY <1>4, <1>5, KindsAre
  <2> QED BY <1>5, <2>1, <2>2 DEF KindsTell
<1>8. Processes(F)' = Processes(F) /\ \A k, T : OfProcessKind(k, T)' = OfProcessKind(k, T)
  BY <1>1 DEF Processes, OfProcessKind
<1>9. \A k : OfProcessKind(k, Processes(F))' = OfProcessKind(k, Processes(F))
  BY <1>1 DEF Processes, OfProcessKind
<1>10. KindsTell(F)'
  BY <1>1, <1>6, <1>7, <1>9 DEF KindsTell
<1> QED BY <1>10

\* Anything else leaves the numbers and the bag as they are.
LEMMA NumbersStay ==
    ASSUME NEW E, StatsTell(E), KindsTell(E), UNCHANGED score, DOMAIN stats' = DOMAIN stats,
           stats'.sums = stats.sums, stats'.kinds = stats.kinds
    PROVE  StatsTell(E)' /\ KindsTell(E)'
<1>1. \A k : /\ Things(k, E)' = Things(k, E)
            /\ OfProcessKind(k, Processes(E))' = OfProcessKind(k, Processes(E))
  BY DEF Things, Thing, Place, OfProcessKind, Processes
<1>2. StatsTell(E)'
  <2>1. \A k \in Sums : stats'.sums[k] = Cardinality(Things(k, E)')
    BY <1>1 DEF StatsTell
  <2> QED BY <2>1 DEF StatsTell
<1>3. KindsTell(E)'
  <2>1. \A k : Copies(k, stats'.kinds) = Cardinality(OfProcessKind(k, Processes(E))')
    BY <1>1 DEF KindsTell
  <2> QED BY <2>1 DEF KindsTell
<1> QED BY <1>2, <1>3

-----------------------------------------------------------------------------
(* The depth of what has been gone past.                                   *)

\* The depth is that of the document.
LEMMA SameDepth == ASSUME UNCHANGED score PROVE Depth' = Depth
BY DEF Depth

\* The innermost scenario changes.
LEMMA TurnDepths ==
    ASSUME WalkTypeOK, FramesOK, Working, UNCHANGED score, NEW E, DepthsTell(E),
           NEW e \in Frames, ReplaceTop(e), e.scenar = top.scenar,
           stats'.maxDepth \in Nat, stats.maxDepth <= stats'.maxDepth,
           stats'.maxDepth # stats.maxDepth =>
              \E c \in score.objects : c[1] = "interval" /\ Depth[c] = stats'.maxDepth,
           \A c \in score.objects :
              c[1] = "interval" /\ c[2] \in E /\ c \in top.left =>
                 c \in e.left \/ Depth[c] \in 0..stats'.maxDepth
    PROVE  DepthsTell(E)'
<1> PICK D : D = Depth
  OBVIOUS
<1> PICK n : n = Len(stack)
  OBVIOUS
<1> PICK m, m2 : m = stats.maxDepth /\ m2 = stats'.maxDepth
  OBVIOUS
<1>1. stack \in Seq(Frames) /\ stack # <<>> /\ n \in Nat /\ n >= 1
  BY TopFrame DEF Working, WalkTypeOK
<1>2. /\ Len(stack') = n /\ stack'[n] = e
      /\ \A k \in 1..(n - 1) : stack'[k] = stack[k]
  BY <1>1, Replaced DEF ReplaceTop
<1>3. \A k \in 1..n : k = n \/ k \in 1..(n - 1)
  BY <1>1
<1>4. \A k \in 1..n : stack'[k].scenar = stack[k].scenar
  BY <1>2, <1>3 DEF top
<1>5. \A k \in 1..n : D[score.holder[stack'[k].scenar]] = k - 1
  BY <1>4 DEF DepthsTell
<1>6. ASSUME NEW c \in score.objects, c[1] = "interval", c[2] \in E
      PROVE  D[c] \in 0..m2 \/ \E k \in 1..n : c \in stack'[k].left
  <2>1. CASE \E k \in 1..n : c \in stack[k].left
    <3> PICK k \in 1..n : c \in stack[k].left
      BY <2>1
    <3>1. CASE k = n
      <4>1. c \in top.left
        BY <3>1 DEF top
      <4>2. c \in e.left \/ D[c] \in 0..m2
        BY <1>6, <4>1
      <4>3. n \in 1..n
        BY <1>1
      <4> QED BY <1>2, <4>2, <4>3
    <3>2. CASE k # n
      BY <1>2, <1>3, <3>2
    <3> QED BY <3>1, <3>2
  <2>2. CASE ~\E k \in 1..n : c \in stack[k].left
    <3>1. D[c] \in 0..m
      BY <1>6, <2>2 DEF DepthsTell
    <3>2. m \in Nat /\ m2 \in Nat /\ m <= m2
      BY DEF DepthsTell
    <3> QED BY <3>1, <3>2
  <2> QED BY <2>1, <2>2
<1>7. m2 # 0 => \E c \in score.objects : c[1] = "interval" /\ D[c] = m2
  BY DEF DepthsTell
<1>8. Depth' = D /\ stats'.maxDepth \in Nat
  BY SameDepth
<1> QED BY <1>2, <1>5, <1>6, <1>7, <1>8 DEF DepthsTell

\* The depth grows in an interval, and the greatest with it.
LEMMA VisitDepths ==
    ASSUME WalkTypeOK, FramesOK, DepthOK, NEW E, DepthsTell(E), NEW x, StatisticsVisit(x),
           "maxDepth" \in DOMAIN stats
    PROVE  DepthsTell(E)' /\ DOMAIN stats' = DOMAIN stats
           /\ stats'.sums = stats.sums /\ stats'.kinds = stats.kinds
<1> PICK t : t = top
  OBVIOUS
<1> PICK n : n = Len(stack)
  OBVIOUS
<1> PICK m : m = stats.maxDepth
  OBVIOUS
<1>1. /\ Working /\ n \in Nat /\ n >= 1 /\ t \in Frames /\ m \in Nat /\ t = stack[n]
      /\ FrameOK(t) /\ x \in t.left
  BY TopOK DEF StatisticsVisit, Visit, DepthsTell, top
<1>2. x[1] = "interval" /\ x \in score.objects /\ x[2] = t.scenar
  <2>1. Containers(visitor) = <<"interval">>
    BY DEF Containers, StatisticsVisit
  <2>2. t.loop \in 1..1 /\ x \in OfKind(score, Containers(visitor)[t.loop], t.scenar)
    BY <2>1, VisitedIs DEF Container, StatisticsVisit
  <2> QED BY <2>1, <2>2 DEF OfKind
<1>3. Depth[x] = n
  <2>1. Depth[score.holder[t.scenar]] = n - 1
    BY <1>1 DEF DepthsTell
  <2>2. Depth[x] = 1 + Depth[score.holder[t.scenar]]
    BY <1>2, DepthIs
  <2> QED BY <1>1, <2>1, <2>2
<1>4. stats.curDepth = n - 1 /\ "curDepth" \in DOMAIN stats
  BY <1>1 DEF DepthOK, StatisticsVisit, Visit, Working
<1> PICK m2 : m2 = IF n > m THEN n ELSE m
  OBVIOUS
<1>5. /\ stats'.maxDepth = m2 /\ DOMAIN stats' = DOMAIN stats
      /\ stats'.sums = stats.sums /\ stats'.kinds = stats.kinds
  <2>1. stats.curDepth + 1 = n
    BY <1>1, <1>4
  <2>2. stats' = [stats EXCEPT !.curDepth = n, !.maxDepth = IF n > @ THEN n ELSE @]
    BY <2>1 DEF StatisticsVisit
  <2> QED BY <2>2
<1>6. m2 \in Nat /\ m <= m2 /\ n \in 0..m2 /\ (m2 # m => m2 = n)
  BY <1>1
<1> PICK held : held = scenariosOf(x)
  OBVIOUS
<1> PICK e : e = [t EXCEPT !.left = @ \ {x}, !.at = x, !.held = held]
  OBVIOUS
<1>7. e \in Frames /\ e.scenar = t.scenar /\ e.left = t.left \ {x}
  BY <1>1, <1>2 DEF Frames, scenariosOf
<1>8. ReplaceTop(e) /\ UNCHANGED score
  BY <1>2 DEF StatisticsVisit, Visit
<1>9. m2 # m => \E c \in score.objects : c[1] = "interval" /\ Depth[c] = m2
  BY <1>2, <1>3, <1>6
<1>10. \A c \in score.objects :
          c[1] = "interval" /\ c[2] \in E /\ c \in t.left => c \in e.left \/ Depth[c] \in 0..m2
  BY <1>3, <1>6, <1>7
<1>11. DepthsTell(E)'
  BY <1>1, <1>5, <1>6, <1>7, <1>8, <1>9, <1>10, TurnDepths
<1> QED BY <1>5, <1>11

\* It is given back after the interval.
LEMMA LeaveIntervalDepths ==
    ASSUME WalkTypeOK, FramesOK, NEW E, DepthsTell(E), StatisticsLeaveInterval
    PROVE  DepthsTell(E)' /\ DOMAIN stats' = DOMAIN stats
           /\ stats'.sums = stats.sums /\ stats'.kinds = stats.kinds
<1> PICK t : t = top
  OBVIOUS
<1>1. Working /\ t \in Frames
  BY TopOK DEF StatisticsLeaveInterval, LeaveInterval
<1> PICK e : e = [t EXCEPT !.at = Base]
  OBVIOUS
<1>2. e \in Frames /\ e.scenar = t.scenar /\ e.left = t.left
  BY <1>1 DEF Frames
<1>3. ReplaceTop(e) /\ UNCHANGED score
  BY DEF StatisticsLeaveInterval, LeaveInterval
<1>4. /\ stats'.maxDepth = stats.maxDepth /\ DOMAIN stats' = DOMAIN stats
      /\ stats'.sums = stats.sums /\ stats'.kinds = stats.kinds
  BY DEF StatisticsLeaveInterval
<1>5. stats'.maxDepth \in Nat /\ stats.maxDepth <= stats'.maxDepth
  BY <1>4 DEF DepthsTell
<1>6. DepthsTell(E)'
  BY <1>1, <1>2, <1>3, <1>4, <1>5, TurnDepths
<1> QED BY <1>4, <1>6

\* A scenario is left at the depth it was entered at.
LEMMA LeaveScenarioDepths ==
    ASSUME WalkTypeOK, FramesOK, NEW E, DepthsTell(E), StatisticsLeave
    PROVE  DepthsTell(E)'
<1> PICK D : D = Depth
  OBVIOUS
<1> PICK n : n = Len(stack)
  OBVIOUS
<1>1. stack \in Seq(Frames) /\ stack # <<>> /\ n \in Nat /\ n >= 1
  BY TopOK DEF StatisticsLeave, LeaveScenario, LoopOver, Working
<1>2. Len(stack') = n - 1 /\ \A k \in 1..(n - 1) : stack'[k] = stack[k]
  BY <1>1, Popped DEF StatisticsLeave, LeaveScenario
<1>3. stack[n].left = {} /\ UNCHANGED <<score, stats>>
  BY DEF StatisticsLeave, LeaveScenario, LoopOver, top
<1>4. \A k \in 1..n : k = n \/ k \in 1..(n - 1)
  BY <1>1
<1>5. \A k \in 1..(n - 1) : k \in 1..n
  BY <1>1
<1>6. \A c : (\E k \in 1..n : c \in stack[k].left) => \E k \in 1..(n - 1) : c \in stack'[k].left
  BY <1>2, <1>3, <1>4
<1>7. \A k \in 1..(n - 1) : D[score.holder[stack'[k].scenar]] = k - 1
  BY <1>2, <1>5 DEF DepthsTell
<1>8. Depth' = D
  BY <1>3, SameDepth
<1> QED BY <1>2, <1>3, <1>6, <1>7, <1>8 DEF DepthsTell

\* A scenario that is entered is where the walk is, and all its intervals are left.
LEMMA EnterDepths ==
    ASSUME WalkTypeOK, FramesOK, NEW E, Entered(E), StatsTell(E), DepthsTell(E),
           NEW p \in AllScenarios \ E, StatisticsEnter(p),
           score.holder[p] = IF Working THEN top.at ELSE Base
    PROVE  DepthsTell(E \cup {p})'
<1> PICK D : D = Depth
  OBVIOUS
<1> PICK F : F = E \cup {p}
  OBVIOUS
<1> PICK f : f = Frame(p)
  OBVIOUS
<1> PICK n : n = Len(stack)
  OBVIOUS
<1>1. f \in Frames /\ f.scenar = p /\ f.left = OfKind(score, "interval", p)
  <2>1. Containers(visitor)[1] = "interval"
    BY DEF StatisticsEnter, Containers
  <2>2. p \in DOMAIN score.kind
    BY DEF AllScenarios
  <2> QED BY <2>1, <2>2, EnteredOK DEF Frame
<1>2. UNCHANGED score /\ stats'.maxDepth = stats.maxDepth /\ Depth' = D
  BY SameDepth DEF StatisticsEnter
<1>3. stack \in Seq(Frames) /\ n \in Nat
  BY DEF WalkTypeOK
<1>4. /\ Len(stack') = n + 1 /\ stack'[n + 1] = f
      /\ \A k \in 1..n : stack'[k].scenar = stack[k].scenar /\ stack'[k].left = stack[k].left
  <2>1. CASE ~Working
    <3>1. stack' = <<f>> /\ n = 0
      BY <2>1 DEF StatisticsEnter, Enter, Working
    <3> QED BY <3>1
  <2>2. CASE Working
    <3> PICK t : t = top
      OBVIOUS
    <3>1. stack # <<>> /\ n >= 1 /\ t \in Frames /\ t = stack[n]
      BY <2>2, TopOK DEF Working, top
    <3> PICK e : e = [t EXCEPT !.held = @ \ {p}]
      OBVIOUS
    <3>2. e \in Frames /\ e.scenar = t.scenar /\ e.left = t.left
      BY <3>1 DEF Frames
    <3> PICK r : r = [stack EXCEPT ![Len(stack)] = e]
      OBVIOUS
    <3>3. r = [stack EXCEPT ![Len(stack)] = e] /\ r = [stack EXCEPT ![Len(stack)].held = @ \ {p}]
      BY <3>1
    <3>4. stack' = Append(r, f)
      BY <2>2, <3>3 DEF StatisticsEnter, Enter
    <3>5. /\ r \in Seq(Frames) /\ Len(r) = Len(stack) /\ r[Len(stack)] = e
          /\ \A k \in 1..(Len(stack) - 1) : r[k] = stack[k]
      BY ONLY <1>3, <3>1, <3>2, <3>3, Replaced
    <3>6. /\ Len(stack') = Len(r) + 1 /\ stack'[Len(r) + 1] = f
          /\ \A k \in 1..Len(r) : stack'[k] = r[k]
      BY ONLY <1>1, <3>4, <3>5, Pushed
    <3>7. \A k \in 1..n : k = n \/ k \in 1..(n - 1)
      BY <1>3
    <3> QED BY ONLY n = Len(stack), <3>1, <3>2, <3>5, <3>6, <3>7
  <2> QED BY <2>1, <2>2
<1>5. D[score.holder[p]] = n
  <2>1. CASE ~Working
    <3>1. stack = <<>>
      BY <2>1 DEF Working
    <3> QED BY <2>1, <3>1, DepthIs
  <2>2. CASE Working
    <3> PICK t : t = top
      OBVIOUS
    <3>1. n >= 1 /\ FrameOK(t) /\ t = stack[n] /\ p \in t.held
      BY <2>2, TopOK DEF top, StatisticsEnter, Enter
    <3>2. FrameEnters(t, E)
      BY <1>3, <3>1 DEF Entered
    <3>3. t.at # Base /\ t.at \in OfKind(score, "interval", t.scenar)
      BY <3>1, <3>2 DEF FrameOK, FrameEnters
    <3>4. t.at \in score.objects /\ t.at[1] = "interval" /\ t.at[2] = t.scenar
      BY <3>3 DEF OfKind
    <3>5. D[t.at] = 1 + D[score.holder[t.scenar]]
      BY <3>4, DepthIs
    <3>6. D[score.holder[t.scenar]] = n - 1
      BY <1>3, <3>1 DEF DepthsTell
    <3> QED BY <1>3, <2>2, <3>5, <3>6
  <2> QED BY <2>1, <2>2
<1>6. \A k \in 1..(n + 1) : k = n + 1 \/ k \in 1..n
  BY <1>3
<1>7. \A k \in 1..(n + 1) : D[score.holder[stack'[k].scenar]] = k - 1
  <2>1. \A k \in 1..n : D[score.holder[stack'[k].scenar]] = k - 1
    BY <1>4 DEF DepthsTell
  <2>2. D[score.holder[stack'[n + 1].scenar]] = n /\ (n + 1) - 1 = n
    BY <1>1, <1>3, <1>4, <1>5
  <2> QED BY <1>6, <2>1, <2>2
<1>8. ASSUME NEW c \in score.objects, c[1] = "interval", c[2] \in F
      PROVE  D[c] \in 0..stats.maxDepth \/ \E k \in 1..(n + 1) : c \in stack'[k].left
  <2>0. n + 1 \in 1..(n + 1) /\ \A k \in 1..n : k \in 1..(n + 1)
    BY <1>3
  <2>1. CASE c[2] = p
    BY <1>1, <1>4, <1>8, <2>0, <2>1 DEF OfKind
  <2>2. CASE c[2] # p
    <3>1. D[c] \in 0..stats.maxDepth \/ \E k \in 1..n : c \in stack[k].left
      BY <1>8, <2>2 DEF DepthsTell
    <3> QED BY <1>4, <2>0, <3>1
  <2> QED BY <2>1, <2>2
<1>9. /\ stats.maxDepth \in Nat
      /\ stats.maxDepth # 0 =>
            \E c \in score.objects : c[1] = "interval" /\ D[c] = stats.maxDepth
  BY DEF DepthsTell
<1>10. DepthsTell(F)'
  BY <1>2, <1>4, <1>7, <1>8, <1>9 DEF DepthsTell
<1> QED BY <1>10

-----------------------------------------------------------------------------
\* The cardinality of a bag is the sum of its copies.
LEMMA BagCardinalityIs ==
    ASSUME NEW B, IsFiniteSet(DOMAIN B), \A x \in DOMAIN B : B[x] \in Nat
    PROVE  BagCardinality(B) = SumOver(B, DOMAIN B)
<1> DEFINE M == DOMAIN B
           Fold(h) == h = [T \in SUBSET M |->
                              IF T = {} THEN 0
                              ELSE B[CHOOSE m \in T : TRUE] + h[T \ {CHOOSE m \in T : TRUE}]]
           h0 == [T \in SUBSET M |-> SumOver(B, T)]
<1>3. ASSUME NEW T \in SUBSET M, T # {}
      PROVE  SumOver(B, T) = B[CHOOSE m \in T : TRUE] + SumOver(B, T \ {CHOOSE m \in T : TRUE})
  <2>1. PICK m : m = CHOOSE x \in T : TRUE
    OBVIOUS
  <2>2. m \in T /\ m \in M
    BY <1>3, <2>1
  <2>3. IsFiniteSet(T) /\ \A x \in T : B[x] \in Nat
    BY FS_Subset
  <2>4. SumOver(B, T) = B[m] + SumOver(B, T \ {m})
    BY <2>2, <2>3, SumStep
  <2> QED BY <2>1, <2>2, <2>4
<1>4. Fold(h0)
  <2>1. ASSUME NEW T \in SUBSET M
        PROVE  h0[T] = IF T = {} THEN 0
                       ELSE B[CHOOSE m \in T : TRUE] + h0[T \ {CHOOSE m \in T : TRUE}]
    <3> HIDE DEF M
    <3> QED BY <1>3, SumOfNone
  <2> HIDE DEF M
  <2>2. DOMAIN h0 = SUBSET M /\ h0 = [T \in SUBSET M |-> h0[T]]
    OBVIOUS
  <2> HIDE DEF h0
  <2> QED BY <2>1, <2>2
<1>5. BagCardinality(B) = (CHOOSE h : Fold(h))[M]
  BY DEF BagCardinality
<1>6. Fold(CHOOSE h : Fold(h))
  <2> HIDE DEF Fold, h0
  <2> QED BY <1>4
<1> DEFINE h1 == CHOOSE h : Fold(h)
<1>7. h1 = [T \in SUBSET M |->
               IF T = {} THEN 0 ELSE B[CHOOSE m \in T : TRUE] + h1[T \ {CHOOSE m \in T : TRUE}]]
  BY <1>6
<1> HIDE DEF h1
<1>8. h1[{}] = 0
  BY <1>7
<1>9. ASSUME NEW T \in SUBSET M, T # {} PROVE \E m \in T : h1[T] = B[m] + h1[T \ {m}]
  <2>1. PICK m : m = CHOOSE x \in T : TRUE
    OBVIOUS
  <2>2. m \in T
    BY <1>9, <2>1
  <2> HIDE DEF M
  <2>3. h1[T] = B[m] + h1[T \ {m}]
    BY <1>7, <1>9, <2>1
  <2> QED BY <2>2, <2>3
<1>10. h1[M] = SumOver(B, M)
  <2> HIDE DEF M
  <2>1. IsFiniteSet(M) /\ \A x \in M : B[x] \in Nat
    BY DEF M
  <2> QED BY <1>8, <1>9, <2>1, SumIs
<1> QED BY <1>5, <1>10 DEF h1


-----------------------------------------------------------------------------
(* At the end of the statistics.                                           *)

\* The processes of all kinds are all processes.
LEMMA KindsAddUp ==
    ASSUME WalkTypeOK, KindsTell(AllScenarios)
    PROVE  BagCardinality(stats.kinds) = Cardinality(DOMAIN score.kind)
<1> PICK P : P = DOMAIN score.kind
  OBVIOUS
<1> PICK B : B = stats.kinds
  OBVIOUS
<1>1. IsFiniteSet(P) /\ IsFiniteSet(DOMAIN B)
  <2>1. IsFiniteSet(P)
    BY Known DEF ScoreOK
  <2> PICK V : V = {score.kind[q] : q \in P}
    OBVIOUS
  <2> PICK g : g = [q \in P |-> score.kind[q]]
    OBVIOUS
  <2>2. g \in Surjection(P, V)
    BY DEF Surjection
  <2>3. IsFiniteSet(V)
    BY <2>1, <2>2, FS_Surjection
  <2>4. DOMAIN B \subseteq V
    BY DEF KindsTell
  <2> QED BY <2>1, <2>3, <2>4, FS_Subset
<1>2. Processes(AllScenarios) = P
  BY Holders DEF Processes
<1> PICK A : A = [k \in DOMAIN B |-> OfProcessKind(k, P)]
  OBVIOUS
<1>3. ASSUME NEW k \in DOMAIN B
      PROVE  IsFiniteSet(A[k]) /\ B[k] = Cardinality(A[k]) /\ B[k] \in Nat
  <2>1. A[k] = OfProcessKind(k, P) /\ A[k] \subseteq P
    BY DEF OfProcessKind
  <2>2. Copies(k, B) = B[k]
    BY DEF Copies, BagIn, BagToSet
  <2>3. Copies(k, B) = Cardinality(OfProcessKind(k, P))
    BY <1>2 DEF KindsTell
  <2>4. IsFiniteSet(A[k])
    BY <1>1, <2>1, FS_Subset
  <2> QED BY <2>1, <2>2, <2>3, <2>4, FS_CardinalityType
<1>4. \A x, y \in DOMAIN B : x # y => A[x] \cap A[y] = {}
  BY DEF OfProcessKind
<1>5. ASSUME NEW q \in P PROVE score.kind[q] \in DOMAIN B
  <2> SUFFICES ASSUME score.kind[q] \notin DOMAIN B PROVE FALSE
    OBVIOUS
  <2> PICK k : k = score.kind[q]
    OBVIOUS
  <2> PICK K : K = OfProcessKind(k, P)
    OBVIOUS
  <2>1. Copies(k, B) = 0
    BY DEF Copies, BagIn, BagToSet
  <2>2. Cardinality(K) = 0
    BY <1>2, <2>1 DEF KindsTell
  <2>3. q \in K /\ K \subseteq P
    BY DEF OfProcessKind
  <2>4. IsFiniteSet(K)
    BY <1>1, <2>3, FS_Subset
  <2> QED BY <2>2, <2>3, <2>4, FS_EmptySet
<1>6. \A q : q \in P <=> \E k \in DOMAIN B : q \in A[k]
  BY <1>5 DEF OfProcessKind
<1>7. SumOver(B, DOMAIN B) = Cardinality(P)
  BY ONLY <1>1, <1>3, <1>4, <1>6, SumOfParts
<1>8. BagCardinality(B) = SumOver(B, DOMAIN B)
  BY <1>1, <1>3, BagCardinalityIs
<1> QED BY <1>7, <1>8

\* Four sets that have nothing in common.
LEMMA SizeOfFour ==
    ASSUME NEW A, NEW B, NEW C, NEW D,
           IsFiniteSet(A), IsFiniteSet(B), IsFiniteSet(C), IsFiniteSet(D),
           A \cap B = {}, (A \cup B) \cap C = {}, (A \cup B \cup C) \cap D = {}
    PROVE  Cardinality(A) + Cardinality(B) + Cardinality(C) + Cardinality(D)
              = Cardinality(A \cup B \cup C \cup D)
<1>1. ASSUME NEW S, NEW T, IsFiniteSet(S), IsFiniteSet(T), S \cap T = {}
      PROVE  /\ IsFiniteSet(S \cup T)
             /\ Cardinality(S \cup T) = Cardinality(S) + Cardinality(T)
  <2> PICK s, t, st, ss : /\ s = Cardinality(S) /\ t = Cardinality(T)
                          /\ st = Cardinality(S \cup T) /\ ss = Cardinality(S \cap T)
    OBVIOUS
  <2>1. s \in Nat /\ t \in Nat
    BY <1>1, FS_CardinalityType
  <2>2. st = s + t - ss /\ IsFiniteSet(S \cup T)
    BY <1>1, FS_Union
  <2>3. ss = 0
    BY <1>1, FS_EmptySet
  <2>4. st = s + t
    BY <2>1, <2>2, <2>3
  <2> QED BY <2>2, <2>4
<1> PICK S : S = A \cup B
  OBVIOUS
<1>2. IsFiniteSet(S) /\ Cardinality(S) = Cardinality(A) + Cardinality(B)
  BY <1>1
<1> PICK T : T = S \cup C
  OBVIOUS
<1>3. IsFiniteSet(T) /\ Cardinality(T) = Cardinality(S) + Cardinality(C)
  BY <1>1, <1>2
<1>4. Cardinality(T \cup D) = Cardinality(T) + Cardinality(D)
  BY <1>1, <1>3
<1> QED BY <1>2, <1>3, <1>4

\* The numbers of all scenarios are those of the document.
LEMMA ThingsAddUp ==
    ASSUME WalkTypeOK, StatsTell(AllScenarios)
    PROVE  LET itvs == {x \in score.objects : x[1] = "interval"}
               used == {score.holder[q] : q \in DOMAIN score.holder}
           IN  /\ stats.sums["intervals"] = Cardinality(itvs)
               /\ stats.sums["empty_intervals"] = Cardinality(itvs \ used)
               /\ stats.sums["intervals"] + stats.sums["events"] + stats.sums["nodes"]
                     + stats.sums["states"] = Cardinality(score.objects)
               /\ stats.sums["conditions"] = Cardinality(score.conditioned)
               /\ stats.sums["triggers"] = Cardinality(score.triggered)
               /\ stats.sums["processes"] =
                     Cardinality({q \in DOMAIN score.kind : score.holder[q] # Base})
<1> PICK O, P, E : O = score.objects /\ P = DOMAIN score.kind /\ E = AllScenarios
  OBVIOUS
<1>1. ScoreOK(score)
  BY Known
<1>2. /\ \A c \in score.conditioned : c \in O
      /\ \A c \in score.triggered : c \in O
      /\ DOMAIN score.holder = P
      /\ \A x \in O : x[1] \in {"interval", "event", "timeSync", "state"}
  BY <1>1 DEF ScoreOK
<1>3. \A x \in O : x[2] \in E
  BY Holders
<1>4. \A k \in Sums : stats.sums[k] = Cardinality(Things(k, E)) /\ IsFiniteSet(Things(k, E))
  BY ThingsGrow DEF StatsTell
<1>5. \A k, y : y \in Things(k, E) <=> y \in O \cup P /\ Thing(k, y) /\ Place(k, y) \in E
  BY DEF Things
<1>6. /\ Things("intervals", E) = {x \in O : x[1] = "interval"}
      /\ Things("events", E) = {x \in O : x[1] = "event"}
      /\ Things("nodes", E) = {x \in O : x[1] = "timeSync"}
      /\ Things("states", E) = {x \in O : x[1] = "state"}
  <2> PICK A, B, C, D : /\ A = Things("intervals", E) /\ B = Things("events", E)
                        /\ C = Things("nodes", E) /\ D = Things("states", E)
    OBVIOUS
  <2>1. \A y : y \in A <=> y \in O /\ y[1] = "interval" /\ y[2] \in E
    BY <1>5 DEF Thing, Place
  <2>2. \A y : y \in B <=> y \in O /\ y[1] = "event" /\ y[2] \in E
    BY <1>5 DEF Thing, Place
  <2>3. \A y : y \in C <=> y \in O /\ y[1] = "timeSync" /\ y[2] \in E
    BY <1>5 DEF Thing, Place
  <2>4. \A y : y \in D <=> y \in O /\ y[1] = "state" /\ y[2] \in E
    BY <1>5 DEF Thing, Place
  <2>5. /\ A = {x \in O : x[1] = "interval"} /\ B = {x \in O : x[1] = "event"}
        /\ C = {x \in O : x[1] = "timeSync"} /\ D = {x \in O : x[1] = "state"}
    BY <1>3, <2>1, <2>2, <2>3, <2>4
  <2> QED BY <2>5
<1>7. stats.sums["empty_intervals"]
         = Cardinality({x \in O : x[1] = "interval"}
                          \ {score.holder[q] : q \in DOMAIN score.holder})
  <2> PICK T : T = Things("empty_intervals", E)
    OBVIOUS
  <2>0. \A y : y \in T <=> /\ y \in O /\ y[1] = "interval" /\ y[2] \in E
                           /\ \A q \in P : score.holder[q] # y
    BY <1>5 DEF Thing, Place
  <2>1. T = {x \in O : x[1] = "interval"} \ {score.holder[q] : q \in DOMAIN score.holder}
    BY <1>2, <1>3, <2>0
  <2> QED BY <1>4, <2>1 DEF Sums
<1>8. stats.sums["intervals"] + stats.sums["events"] + stats.sums["nodes"]
         + stats.sums["states"] = Cardinality(O)
  <2> PICK A, B, C, D : /\ A = Things("intervals", E) /\ B = Things("events", E)
                        /\ C = Things("nodes", E) /\ D = Things("states", E)
    OBVIOUS
  <2>1. /\ A \cap B = {} /\ (A \cup B) \cap C = {} /\ (A \cup B \cup C) \cap D = {}
        /\ A \cup B \cup C \cup D = O
    BY <1>2, <1>6
  <2>2. IsFiniteSet(A) /\ IsFiniteSet(B) /\ IsFiniteSet(C) /\ IsFiniteSet(D)
    BY <1>4 DEF Sums
  <2>3. Cardinality(A) + Cardinality(B) + Cardinality(C) + Cardinality(D) = Cardinality(O)
    BY <2>1, <2>2, SizeOfFour
  <2> QED BY <1>4, <2>3 DEF Sums
<1>9. stats.sums["conditions"] = Cardinality(score.conditioned)
  <2> PICK T : T = Things("conditions", E)
    OBVIOUS
  <2>0. \A y : y \in T <=> y \in O \cup P /\ y \in score.conditioned /\ y[2] \in E
    BY <1>5 DEF Thing, Place
  <2>1. T = score.conditioned
    BY <1>2, <1>3, <2>0
  <2> QED BY <1>4, <2>1 DEF Sums
<1>10. stats.sums["triggers"] = Cardinality(score.triggered)
  <2> PICK T : T = Things("triggers", E)
    OBVIOUS
  <2>0. \A y : y \in T <=> y \in O \cup P /\ y \in score.triggered /\ y[2] \in E
    BY <1>5 DEF Thing, Place
  <2>1. T = score.triggered
    BY <1>2, <1>3, <2>0
  <2> QED BY <1>4, <2>1 DEF Sums
<1>11. stats.sums["processes"] = Cardinality({q \in P : score.holder[q] # Base})
  <2> PICK T : T = Things("processes", E)
    OBVIOUS
  <2>0. \A y : y \in T <=> y \in P /\ score.holder[y] # Base /\ score.holder[y][2] \in E
    BY <1>5 DEF Thing, Place
  <2>1. T = {q \in P : score.holder[q] # Base}
    BY <2>0, Holders
  <2> QED BY <1>4, <2>1 DEF Sums
<1>12. stats.sums["intervals"] = Cardinality({x \in O : x[1] = "interval"})
  BY <1>4, <1>6 DEF Sums
<1> QED BY <1>7, <1>8, <1>9, <1>10, <1>11, <1>12

-----------------------------------------------------------------------------
\* Of the scenarios entered so far, all is added up.
StatisticsTell ==
    visitor = "statistics" =>
        \E E \in SUBSET AllScenarios :
            Entered(E) /\ StatsTell(E) /\ KindsTell(E) /\ DepthsTell(E)
StatisticsInv == WalkInv /\ StatisticsTell

\* Nothing is entered yet.
LEMMA StatisticsBegin == Init => StatisticsTell
<1> SUFFICES ASSUME Init, visitor = "statistics" PROVE StatisticsTell
  BY DEF StatisticsTell
<1>1. WalkTypeOK
  <2>1. roots \subseteq DOMAIN score.kind
    BY DEF Init, scenariosOf
  <2>2. stack = <<>> /\ stack \in Seq(Frames)
    BY DEF Init
  <2> QED BY <2>1, <2>2 DEF Init, WalkTypeOK
<1>2. stack = <<>> /\ Len(stack) = 0 /\ roots = scenariosOf(Base)
  BY DEF Init
<1> PICK base : base = {q \in DOMAIN score.kind : score.holder[q] = Base}
  OBVIOUS
<1>3. stats = [NoStatistics EXCEPT !.kinds = Kinds(base)]
  BY DEF Init
<1> PICK none : none = [k \in Sums |-> 0]
  OBVIOUS
<1>4. /\ {"sums", "kinds", "curDepth", "maxDepth"} \subseteq DOMAIN stats
      /\ stats.sums = none /\ stats.kinds = Kinds(base) /\ stats.maxDepth = 0
  <2>1. NoStatistics = [sums |-> none, kinds |-> EmptyBag, curDepth |-> 0, maxDepth |-> 0]
    BY DEF NoStatistics, Sums
  <2> QED BY <1>3, <2>1
<1>5. Entered({})
  <2>1. ASSUME NEW p \in AllScenarios PROVE Ahead(p, {})
    BY <1>2 DEF Ahead, AllScenarios, scenariosOf
  <2> QED BY <1>2, <2>1 DEF Entered
<1>6. StatsTell({})
  <2>1. ASSUME NEW k \in Sums PROVE stats.sums[k] = Cardinality(Things(k, {}))
    <3>1. Things(k, {}) = {}
      BY DEF Things
    <3> QED BY <1>4, <3>1, FS_EmptySet
  <2>2. DOMAIN stats.sums = Sums
    BY <1>4
  <2> QED BY <1>4, <2>1, <2>2 DEF StatsTell
<1>7. KindsTell({})
  <2>1. Processes({}) = base
    BY DEF Processes
  <2>2. IsFiniteSet(base)
    <3>1. IsFiniteSet(DOMAIN score.kind)
      BY <1>1, Known DEF ScoreOK
    <3> QED BY <3>1, FS_Subset
  <2>3. /\ DOMAIN Kinds(base) \subseteq {score.kind[q] : q \in base}
        /\ \A k : Copies(k, Kinds(base)) = Cardinality(OfProcessKind(k, base))
    BY <2>2, KindsAre
  <2> QED BY <1>4, <2>1, <2>3 DEF KindsTell
<1>8. DepthsTell({})
  BY <1>2, <1>4 DEF DepthsTell
<1> QED BY <1>5, <1>6, <1>7, <1>8 DEF StatisticsTell

\* What each step of the statistics enters is added up.
LEMMA StatisticsGoOn ==
    ASSUME WalkTypeOK, FramesOK, DepthOK, StatisticsTell, [Next]_vars
    PROVE  StatisticsTell'
<1>1. visitor' = visitor /\ score' = score
  BY DEF Next, vars, MetricsVisit, MLVisit, CPPVisit, StatisticsVisit, MetricsEnter,
         StatisticsEnter, NextContainer, MetricsLeaveInterval, MetricsLeave,
         StatisticsLeaveInterval, StatisticsLeave, ExportWalks
<1> SUFFICES ASSUME visitor = "statistics" PROVE StatisticsTell'
  BY <1>1 DEF StatisticsTell
<1> PICK E \in SUBSET AllScenarios :
       Entered(E) /\ StatsTell(E) /\ KindsTell(E) /\ DepthsTell(E)
  BY DEF StatisticsTell
<1>2. AllScenarios' = AllScenarios
  BY <1>1 DEF AllScenarios
<1>3. ASSUME NEW F \in SUBSET AllScenarios,
             Entered(F)', StatsTell(F)', KindsTell(F)', DepthsTell(F)'
      PROVE  StatisticsTell'
  BY <1>2, <1>3 DEF StatisticsTell
<1>4. ASSUME NEW x \in score.objects, StatisticsVisit(x) PROVE StatisticsTell'
  <2>1. Entered(E)'
    BY <1>1, <1>4, VisitEnters DEF StatisticsVisit
  <2>2. DepthsTell(E)' /\ DOMAIN stats' = DOMAIN stats
           /\ stats'.sums = stats.sums /\ stats'.kinds = stats.kinds
    BY <1>4, VisitDepths DEF StatsTell
  <2>3. StatsTell(E)' /\ KindsTell(E)'
    BY <1>1, <2>2, NumbersStay
  <2> QED BY <1>3, <2>1, <2>2, <2>3
<1>5. ASSUME NEW p \in DOMAIN score.kind, StatisticsEnter(p) PROVE StatisticsTell'
  <2>1. /\ p \in AllScenarios \ E /\ Entered(E \cup {p})'
        /\ score.holder[p] = IF Working THEN top.at ELSE Base
    BY <1>1, <1>5, EnterEnters DEF StatisticsEnter
  <2>2. StatsTell(E \cup {p})' /\ KindsTell(E \cup {p})'
    BY <1>5, <2>1, EnterSums, EnterKinds
  <2>3. DepthsTell(E \cup {p})'
    BY <1>5, <2>1, EnterDepths
  <2>4. E \cup {p} \in SUBSET AllScenarios
    BY <2>1
  <2> QED BY <1>3, <2>1, <2>2, <2>3, <2>4
<1>6. CASE StatisticsLeaveInterval
  <2>1. Entered(E)'
    BY <1>1, <1>6, LeaveIntervalEnters DEF StatisticsLeaveInterval
  <2>2. DepthsTell(E)' /\ DOMAIN stats' = DOMAIN stats
           /\ stats'.sums = stats.sums /\ stats'.kinds = stats.kinds
    BY <1>6, LeaveIntervalDepths
  <2>3. StatsTell(E)' /\ KindsTell(E)'
    BY <1>1, <2>2, NumbersStay
  <2> QED BY <1>3, <2>1, <2>2, <2>3
<1>7. CASE StatisticsLeave
  <2>1. Entered(E)'
    BY <1>1, <1>7, LeaveScenarioEnters DEF StatisticsLeave
  <2>2. DepthsTell(E)' /\ stats' = stats
    BY <1>7, LeaveScenarioDepths DEF StatisticsLeave
  <2>3. StatsTell(E)' /\ KindsTell(E)'
    BY <1>1, <2>2, NumbersStay
  <2> QED BY <1>3, <2>1, <2>2, <2>3
<1>8. ~NextContainer
  <2> SUFFICES ASSUME NextContainer PROVE FALSE
    OBVIOUS
  <2>1. top.loop < Len(Containers(visitor)) /\ top \in Frames
    BY TopOK DEF NextContainer, LoopOver
  <2>2. Len(Containers(visitor)) = 1
    BY DEF Containers
  <2> PICK l, n : l = top.loop /\ n = Len(Containers(visitor))
    OBVIOUS
  <2>3. l \in 1..4
    BY <2>1 DEF Frames
  <2>4. l < 1
    BY <2>1, <2>2
  <2> QED BY ONLY <2>3, <2>4
<1>9. CASE UNCHANGED vars
  <2>1. /\ UNCHANGED <<score, visitor, roots, stack, stats>>
        /\ \A p : Ahead(p, E)' <=> Ahead(p, E)
        /\ \A f : FrameEnters(f, E)' <=> FrameEnters(f, E)
    BY <1>9 DEF vars, Ahead, FrameEnters, scenariosOf
  <2>2. Entered(E)'
    BY <2>1 DEF Entered, AllScenarios, scenariosOf, Ahead, FrameEnters
  <2>3. StatsTell(E)' /\ KindsTell(E)'
    BY <2>1, NumbersStay
  <2>4. DepthsTell(E)'
    BY <2>1, SameDepth DEF DepthsTell
  <2> QED BY <1>3, <2>2, <2>3, <2>4
<1> QED BY <1>4, <1>5, <1>6, <1>7, <1>8, <1>9
        DEF Next, MetricsVisit, MLVisit, CPPVisit, MetricsEnter, MetricsLeaveInterval,
            MetricsLeave, ExportWalks

\* Whatever the document, the statistics count each object, each process and each
\* condition of it once, and the depth is that of the intervals held most deeply.
THEOREM StatisticsAlwaysAddUp == Spec => []StatisticsAddUp
<1>1. Init => StatisticsTell
  BY StatisticsBegin
<1>2. StatisticsTell /\ WalkInv /\ [Next]_vars => StatisticsTell'
  BY StatisticsGoOn DEF WalkInv
<1>3. ASSUME StatisticsTell, WalkInv, DepthReturns PROVE StatisticsAddUp
  <2> SUFFICES ASSUME visitor = "statistics", Done PROVE StatisticsAddUp
    BY <1>3 DEF StatisticsAddUp
  <2>1. WalkTypeOK
    BY <1>3 DEF WalkInv
  <2>2. PICK E \in SUBSET AllScenarios :
           Entered(E) /\ StatsTell(E) /\ KindsTell(E) /\ DepthsTell(E)
    BY <1>3 DEF StatisticsTell
  <2>3. E = AllScenarios
    BY <2>1, <2>2, AllEntered
  <2>4. BagCardinality(stats.kinds) = Cardinality(DOMAIN score.kind)
    BY <2>1, <2>2, <2>3, KindsAddUp
  <2>5. Len(stack) = 0 /\ stats.maxDepth \in Nat
    BY <2>2 DEF Done, Working, DepthsTell
  <2>6. \A c \in {x \in score.objects : x[1] = "interval"} : Depth[c] <= stats.maxDepth
    <3> TAKE c \in {x \in score.objects : x[1] = "interval"}
    <3>1. c \in score.objects /\ c[1] = "interval" /\ c[2] \in E
      BY <2>1, <2>3, Holders
    <3>2. Depth[c] \in 0..stats.maxDepth
      BY <2>2, <2>5, <3>1 DEF DepthsTell
    <3> QED BY <2>5, <3>2
  <2>7. stats.maxDepth # 0 =>
           \E c \in {x \in score.objects : x[1] = "interval"} : Depth[c] = stats.maxDepth
    BY <2>2 DEF DepthsTell
  <2>8. StatsTell(AllScenarios)
    BY <2>2, <2>3
  <2> QED BY <1>3, <2>1, <2>4, <2>6, <2>7, <2>8, ThingsAddUp DEF StatisticsAddUp
<1> QED BY <1>1, <1>2, <1>3, WalkInvariance, DepthAlwaysReturns, PTL DEF Spec

-----------------------------------------------------------------------------
(* Sums over the first n terms, and what FoldLeft adds up.                 *)

\* One term more.
LEMMA NextTerm ==
    ASSUME NEW n \in Nat, NEW f, \A k \in 1..(n + 1) : f[k] \in Nat
    PROVE  /\ SumOver(f, 1..(n + 1)) = SumOver(f, 1..n) + f[n + 1]
           /\ SumOver(f, 1..n) \in Nat
<1> PICK S, T : S = 1..(n + 1) /\ T = 1..n
  OBVIOUS
<1>1. 1 \in Int /\ n \in Int /\ n + 1 \in Int
  OBVIOUS
<1>2. IsFiniteSet(S) /\ IsFiniteSet(T)
  BY <1>1, FS_Interval
<1>3. n + 1 \in S /\ S \ {n + 1} = T /\ T \subseteq S
  OBVIOUS
<1>4. SumOver(f, S) = f[n + 1] + SumOver(f, S \ {n + 1})
  BY <1>2, <1>3, SumStep
<1>5. SumOver(f, T) \in Nat
  BY <1>2, <1>3, ItemsFinite
<1>6. f[n + 1] \in Nat
  BY <1>3
<1>7. SumOver(f, S) = f[n + 1] + SumOver(f, T)
  BY <1>3, <1>4
<1> PICK a, b : a = SumOver(f, T) /\ b = f[n + 1]
  OBVIOUS
<1>8. b + a = a + b
  BY <1>5, <1>6
<1>9. SumOver(f, S) = SumOver(f, T) + f[n + 1]
  BY <1>7, <1>8
<1> QED BY <1>5, <1>9

\* The greatest of finitely many of the first numbers is one of them.
LEMMA MaxIs ==
    ASSUME NEW n \in Nat, NEW T \in SUBSET (1..n), T # {}
    PROVE  Max(T) \in T
<1> DEFINE U == {n - k : k \in T}
<1>1. U \subseteq Nat /\ U # {}
  <2>1. \A k \in T : k \in 1..n /\ n - k \in Nat
    OBVIOUS
  <2>2. PICK k \in T : TRUE
    OBVIOUS
  <2>3. n - k \in U
    OBVIOUS
  <2> QED BY <2>1, <2>3
<1>2. PICK u \in U : \A v \in U : u <= v
  BY <1>1, LeastNat
<1>3. PICK m \in T : u = n - m
  OBVIOUS
<1>4. ASSUME NEW k \in T PROVE m >= k
  <2>1. n - m <= n - k
    BY <1>2, <1>3
  <2>2. m \in Nat /\ k \in Nat
    OBVIOUS
  <2> QED BY <2>1, <2>2
<1> QED BY <1>4 DEF Max

\* The copies of a name in some maps.
LEMMA CopiesFolded ==
    ASSUME NEW B, NEW n \in Nat, DOMAIN B = 1..n, NEW name, NEW g,
           \A k \in 1..n : g[k] = Copies(name, B[k]) /\ g[k] \in Nat
    PROVE  FoldLeft(LAMBDA i, m : i + Copies(name, m), 0, B) = SumOver(g, 1..n)
<1> DEFINE M == DOMAIN B
           Fold(h) == h = [T \in SUBSET M |->
                              IF T = {} THEN 0 ELSE h[T \ {Max(T)}] + Copies(name, B[Max(T)])]
           h0 == [T \in SUBSET M |-> SumOver(g, T)]
<1>1. IsFiniteSet(M)
  <2>1. 1 \in Int /\ n \in Int
    OBVIOUS
  <2>2. IsFiniteSet(1..n)
    BY <2>1, FS_Interval
  <2> QED BY <2>2
<1>2. \A T \in SUBSET M : T # {} => Max(T) \in T
  BY MaxIs
<1>3. ASSUME NEW T \in SUBSET M, T # {}
      PROVE  SumOver(g, T) = SumOver(g, T \ {Max(T)}) + Copies(name, B[Max(T)])
  <2> PICK m : m = Max(T)
    OBVIOUS
  <2>1. m \in T /\ m \in 1..n
    BY <1>2, <1>3
  <2>2. IsFiniteSet(T) /\ IsFiniteSet(T \ {m}) /\ \A x \in T : g[x] \in Nat
    BY <1>1, FS_Subset
  <2>3. SumOver(g, T) = g[m] + SumOver(g, T \ {m})
    BY <2>1, <2>2, SumStep
  <2>4. SumOver(g, T \ {m}) \in Nat
    BY <2>2, ItemsFinite
  <2>5. g[m] = Copies(name, B[m]) /\ g[m] \in Nat
    BY <2>1
  <2>6. SumOver(g, T) = SumOver(g, T \ {m}) + g[m]
    BY <2>3, <2>4, <2>5
  <2> QED BY <2>5, <2>6
<1>4. Fold(h0)
  <2>1. ASSUME NEW T \in SUBSET M
        PROVE  h0[T] = IF T = {} THEN 0 ELSE h0[T \ {Max(T)}] + Copies(name, B[Max(T)])
    <3> HIDE DEF M
    <3> QED BY <1>3, SumOfNone
  <2> HIDE DEF M
  <2>2. DOMAIN h0 = SUBSET M /\ h0 = [T \in SUBSET M |-> h0[T]]
    OBVIOUS
  <2> HIDE DEF h0
  <2> QED BY <2>1, <2>2
<1>5. FoldLeft(LAMBDA i, m : i + Copies(name, m), 0, B) = (CHOOSE h : Fold(h))[M]
  BY DEF FoldLeft, MapThenFoldSet
<1>6. Fold(CHOOSE h : Fold(h))
  <2> HIDE DEF Fold, h0
  <2> QED BY <1>4
<1> DEFINE h1 == CHOOSE h : Fold(h)
<1>7. h1 = [T \in SUBSET M |-> IF T = {} THEN 0 ELSE h1[T \ {Max(T)}] + Copies(name, B[Max(T)])]
  BY <1>6
<1> HIDE DEF h1
<1>8. h1[{}] = 0
  BY <1>7
<1>9. ASSUME NEW T \in SUBSET M
      PROVE  h1[T] = IF T = {} THEN 0 ELSE h1[T \ {Max(T)}] + Copies(name, B[Max(T)])
  <2> HIDE DEF M
  <2> QED BY <1>7
<1> DEFINE Bad == {T \in SUBSET M : h1[T] # SumOver(g, T)}
<1>10. ASSUME Bad # {} PROVE FALSE
  <2>1. \A T \in Bad : IsFiniteSet(T)
    BY <1>1, FS_Subset
  <2>2. PICK T \in Bad : \A V \in Bad : Cardinality(T) <= Cardinality(V)
    BY <1>10, <2>1, SmallestSet
  <2>3. T # {}
    BY <1>8, SumOfNone
  <2> PICK m : m = Max(T)
    OBVIOUS
  <2>4. m \in T /\ T \in SUBSET M
    BY <1>2, <2>3
  <2> PICK V : V = T \ {m}
    OBVIOUS
  <2>5. Cardinality(V) = Cardinality(T) - 1 /\ Cardinality(T) \in Nat
    BY <2>1, <2>4, FS_RemoveElement, FS_CardinalityType
  <2>6. V \notin Bad
    BY <2>2, <2>5
  <2>7. h1[V] = SumOver(g, V)
    BY <2>4, <2>6
  <2>8. h1[T] = h1[V] + Copies(name, B[m])
    BY <1>9, <2>3, <2>4
  <2>9. SumOver(g, T) = SumOver(g, V) + Copies(name, B[m])
    BY <1>3, <2>3, <2>4
  <2> QED BY <2>7, <2>8, <2>9
<1>11. h1[M] = SumOver(g, M)
  BY <1>10
<1> QED BY <1>5, <1>11 DEF h1

\* The objects they name.
LEMMA SizesFolded ==
    ASSUME NEW B, NEW n \in Nat, DOMAIN B = 1..n, NEW g,
           \A k \in 1..n : g[k] = Cardinality(ObjectNames(B[k])) /\ g[k] \in Nat
    PROVE  FoldLeft(LAMBDA i, m : i + Cardinality(ObjectNames(m)), 0, B) = SumOver(g, 1..n)
<1> DEFINE M == DOMAIN B
           Fold(h) == h = [T \in SUBSET M |->
                              IF T = {} THEN 0
                               ELSE h[T \ {Max(T)}] + Cardinality(ObjectNames(B[Max(T)]))]
           h0 == [T \in SUBSET M |-> SumOver(g, T)]
<1>1. IsFiniteSet(M)
  <2>1. 1 \in Int /\ n \in Int
    OBVIOUS
  <2>2. IsFiniteSet(1..n)
    BY <2>1, FS_Interval
  <2> QED BY <2>2
<1>2. \A T \in SUBSET M : T # {} => Max(T) \in T
  BY MaxIs
<1>3. ASSUME NEW T \in SUBSET M, T # {}
      PROVE  SumOver(g, T) = SumOver(g, T \ {Max(T)}) + Cardinality(ObjectNames(B[Max(T)]))
  <2> PICK m : m = Max(T)
    OBVIOUS
  <2>1. m \in T /\ m \in 1..n
    BY <1>2, <1>3
  <2>2. IsFiniteSet(T) /\ IsFiniteSet(T \ {m}) /\ \A x \in T : g[x] \in Nat
    BY <1>1, FS_Subset
  <2>3. SumOver(g, T) = g[m] + SumOver(g, T \ {m})
    BY <2>1, <2>2, SumStep
  <2>4. SumOver(g, T \ {m}) \in Nat
    BY <2>2, ItemsFinite
  <2>5. g[m] = Cardinality(ObjectNames(B[m])) /\ g[m] \in Nat
    BY <2>1
  <2>6. SumOver(g, T) = SumOver(g, T \ {m}) + g[m]
    BY <2>3, <2>4, <2>5
  <2> QED BY <2>5, <2>6
<1>4. Fold(h0)
  <2>1. ASSUME NEW T \in SUBSET M
        PROVE  h0[T] = IF T = {} THEN 0 ELSE h0[T \ {Max(T)}] + Cardinality(ObjectNames(B[Max(T)]))
    <3> HIDE DEF M
    <3> QED BY <1>3, SumOfNone
  <2> HIDE DEF M
  <2>2. DOMAIN h0 = SUBSET M /\ h0 = [T \in SUBSET M |-> h0[T]]
    OBVIOUS
  <2> HIDE DEF h0
  <2> QED BY <2>1, <2>2
<1>5. FoldLeft(LAMBDA i, m : i + Cardinality(ObjectNames(m)), 0, B) = (CHOOSE h : Fold(h))[M]
  BY DEF FoldLeft, MapThenFoldSet
<1>6. Fold(CHOOSE h : Fold(h))
  <2> HIDE DEF Fold, h0
  <2> QED BY <1>4
<1> DEFINE h1 == CHOOSE h : Fold(h)
<1>7. h1 = [T \in SUBSET M |->
              IF T = {} THEN 0 ELSE h1[T \ {Max(T)}] + Cardinality(ObjectNames(B[Max(T)]))]
  BY <1>6
<1> HIDE DEF h1
<1>8. h1[{}] = 0
  BY <1>7
<1>9. ASSUME NEW T \in SUBSET M
      PROVE  h1[T] = IF T = {} THEN 0 ELSE h1[T \ {Max(T)}] + Cardinality(ObjectNames(B[Max(T)]))
  <2> HIDE DEF M
  <2> QED BY <1>7
<1> DEFINE Bad == {T \in SUBSET M : h1[T] # SumOver(g, T)}
<1>10. ASSUME Bad # {} PROVE FALSE
  <2>1. \A T \in Bad : IsFiniteSet(T)
    BY <1>1, FS_Subset
  <2>2. PICK T \in Bad : \A V \in Bad : Cardinality(T) <= Cardinality(V)
    BY <1>10, <2>1, SmallestSet
  <2>3. T # {}
    BY <1>8, SumOfNone
  <2> PICK m : m = Max(T)
    OBVIOUS
  <2>4. m \in T /\ T \in SUBSET M
    BY <1>2, <2>3
  <2> PICK V : V = T \ {m}
    OBVIOUS
  <2>5. Cardinality(V) = Cardinality(T) - 1 /\ Cardinality(T) \in Nat
    BY <2>1, <2>4, FS_RemoveElement, FS_CardinalityType
  <2>6. V \notin Bad
    BY <2>2, <2>5
  <2>7. h1[V] = SumOver(g, V)
    BY <2>4, <2>6
  <2>8. h1[T] = h1[V] + Cardinality(ObjectNames(B[m]))
    BY <1>9, <2>3, <2>4
  <2>9. SumOver(g, T) = SumOver(g, V) + Cardinality(ObjectNames(B[m]))
    BY <1>3, <2>3, <2>4
  <2> QED BY <2>7, <2>8, <2>9
<1>11. h1[M] = SumOver(g, M)
  BY <1>10
<1> QED BY <1>5, <1>11 DEF h1

-----------------------------------------------------------------------------
(* The names HalsteadVisitor counts are those LanguageVisitor writes.      *)

\* The names of objects and processes, and those of the objects of a scenario.
AllNames == {Name(x) : x \in score.objects} \cup {ProcessName(p) : p \in DOMAIN score.kind}
NamesIn(p) == {Name(x) : x \in {y \in score.objects : y[2] = p}}

\* What variables and subprocesses_variables hold.
NameBags == UNION {[D -> Nat] : D \in SUBSET AllNames}

\* A bag of names counts some of the names.
LEMMA NameBagIs ==
    ASSUME NEW B
    PROVE  B \in NameBags <=> B \in [DOMAIN B -> Nat] /\ DOMAIN B \subseteq AllNames
<1> PICK A : A = AllNames
  OBVIOUS
<1>1. B \in NameBags <=> \E D \in SUBSET A : B \in [D -> Nat]
  BY DEF NameBags
<1>2. ASSUME NEW D \in SUBSET A, B \in [D -> Nat] PROVE DOMAIN B = D
  BY <1>2
<1> QED BY <1>1, <1>2

\* What is counted once more.
LEMMA BagGrows ==
    ASSUME NEW B, B \in NameBags, NEW s \in Seq(AllNames)
    PROVE  /\ B (+) ToBag(s) \in NameBags
           /\ DOMAIN (B (+) ToBag(s)) = DOMAIN B \cup Range(s)
           /\ s = <<>> => B (+) ToBag(s) = B
           /\ \A w : Copies(w, B (+) ToBag(s)) = Copies(w, B) + Copies(w, ToBag(s))
           /\ \A w : Copies(w, B) \in Nat /\ Copies(w, ToBag(s)) \in Nat
<1> PICK C : C = B (+) ToBag(s)
  OBVIOUS
<1> PICK T : T = ToBag(s)
  OBVIOUS
<1> PICK R : R = Range(s)
  OBVIOUS
<1>1. B \in [DOMAIN B -> Nat] /\ DOMAIN B \subseteq AllNames
  BY NameBagIs
<1>2. DOMAIN T = R /\ R \subseteq AllNames
  BY DEF ToBag, Range
<1>3. ASSUME NEW w PROVE Copies(w, T) \in Nat /\ (w \in R => Copies(w, T) = T[w])
  <2>1. Copies(w, T) \in Nat
    BY CopiesAre
  <2> QED BY <1>2, <2>1 DEF Copies, BagIn, BagToSet
<1>4. T \in [R -> Nat]
  <2>1. \A w \in R : T[w] \in Nat
    BY <1>3
  <2>2. T = [w \in R |-> T[w]]
    BY DEF ToBag
  <2> QED BY <2>1, <2>2
<1>5. C = [w \in DOMAIN B \cup R |->
             (IF w \in DOMAIN B THEN B[w] ELSE 0) + (IF w \in R THEN T[w] ELSE 0)]
  BY <1>2 DEF (+)
<1>6. DOMAIN C = DOMAIN B \cup R
  BY <1>5
<1>7. C \in [DOMAIN C -> Nat]
  <2>1. \A w \in DOMAIN B \cup R :
           (IF w \in DOMAIN B THEN B[w] ELSE 0) + (IF w \in R THEN T[w] ELSE 0) \in Nat
    BY <1>1, <1>4
  <2> QED BY <1>5, <2>1
<1>8. C \in NameBags
  BY <1>1, <1>2, <1>6, <1>7, NameBagIs
<1>9. ASSUME s = <<>> PROVE C = B
  <2>1. R = {}
    BY <1>9 DEF Range
  <2>2. \A w \in DOMAIN B : C[w] = B[w]
    BY <1>1, <1>5, <2>1
  <2> QED BY <1>1, <1>6, <1>7, <2>1, <2>2
<1>10. \A w : Copies(w, C) = Copies(w, B) + Copies(w, ToBag(s))
  BY CopiesOfBoth
<1>11. \A w : Copies(w, B) \in Nat
  BY <1>1 DEF Copies, BagIn, BagToSet
<1> QED BY <1>3, <1>6, <1>8, <1>9, <1>10, <1>11

-----------------------------------------------------------------------------
\* Four words, and four more.
LEMMA FourAndFour ==
    ASSUME NEW a, NEW b, NEW c, NEW d, NEW e, NEW f, NEW g, NEW h
    PROVE  <<a, b, c, d>> \o <<e, f, g, h>> = <<a, b, c, d, e, f, g, h>>
<1> PICK head, tail, all : /\ head = <<a, b, c, d>> /\ tail = <<e, f, g, h>>
                           /\ all = <<a, b, c, d, e, f, g, h>>
  OBVIOUS
<1>1. head = <<a, b, c, d>> /\ tail = <<e, f, g, h>> /\ all = <<a, b, c, d, e, f, g, h>>
  OBVIOUS
<1> PICK W : W = {a, b, c, d, e, f, g, h}
  OBVIOUS
<1>2. a \in W /\ b \in W /\ c \in W /\ d \in W /\ e \in W /\ f \in W /\ g \in W /\ h \in W
  OBVIOUS
<1>3. /\ head \in Seq(W) /\ tail \in Seq(W) /\ all \in Seq(W)
      /\ Len(head) = 4 /\ Len(tail) = 4 /\ Len(all) = 8
  BY ONLY <1>1, <1>2
<1>4. (\A k \in 1..4 : all[k] = head[k]) /\ (\A k \in 1..4 : all[4 + k] = tail[k])
  BY ONLY <1>1
<1>5. head \o tail = all
  BY ONLY <1>3, <1>4, Joined44
<1> QED BY <1>1, <1>5

\* The line of an object other than an interval, word by word.
LEMMA LineIs ==
    ASSUME NEW x \in score.objects, NEW name, name = Name(x), NEW line, line = Line(x),
           NEW of, of = <<"of">>, NEW after, after = <<"after">>,
           NEW expression, expression = <<"expression">>, NEW text, text = <<"text">>,
           NEW word, word = <<x[1]>>
    PROVE  /\ x[1] = "event" /\ x \in score.conditioned =>
                 line = <<word, name, of, Name(parentTimeSync(x)), expression, text, of, name>>
           /\ x[1] = "event" /\ x \notin score.conditioned =>
                 line = <<word, name, of, Name(parentTimeSync(x))>>
           /\ x[1] = "timeSync" /\ x \in score.triggered =>
                 line = <<word, name, expression, text, of, name>>
           /\ x[1] = "timeSync" /\ x \notin score.triggered => line = <<word, name>>
           /\ x[1] = "state" /\ hasPrevious(x) =>
                 line = <<word, name, after, Name(previousInterval(x)), word, name, of,
                          Name(parentEvent(x))>>
           /\ x[1] = "state" /\ ~hasPrevious(x) =>
                 line = <<word, name, of, Name(parentEvent(x))>>
<1>1. /\ name = Name(x) /\ line = Line(x) /\ of = <<"of">> /\ after = <<"after">>
      /\ expression = <<"expression">> /\ text = <<"text">> /\ word = <<x[1]>>
  OBVIOUS
<1>3. ASSUME NEW exists, NEW tail, tail = Expression(x, exists)
      PROVE  /\ exists => tail = <<expression, text, of, name>>
             /\ ~exists => tail = <<>>
  BY <1>1, <1>3 DEF Expression
<1>4. ASSUME x[1] = "event"
      PROVE  /\ x \in score.conditioned =>
                   line = <<word, name, of, Name(parentTimeSync(x)), expression, text, of, name>>
             /\ x \notin score.conditioned => line = <<word, name, of, Name(parentTimeSync(x))>>
  <2> PICK sync, head, tail :
         /\ sync = Name(parentTimeSync(x)) /\ head = <<word, name, of, sync>>
         /\ tail = Expression(x, x \in score.conditioned)
    OBVIOUS
  <2>1. head = <<word, name, of, sync>>
    OBVIOUS
  <2>2. line = head \o tail
    BY <1>1, <1>4 DEF Line
  <2>3. CASE x \in score.conditioned
    <3>1. tail = <<expression, text, of, name>>
      BY <1>3, <2>3
    <3>2. <<word, name, of, sync>> \o <<expression, text, of, name>> =
             <<word, name, of, sync, expression, text, of, name>>
      BY FourAndFour
    <3>3. line = <<word, name, of, sync, expression, text, of, name>>
      BY ONLY <2>1, <2>2, <3>1, <3>2
    <3> QED BY <2>3, <3>3
  <2>4. CASE x \notin score.conditioned
    <3>1. tail = <<>>
      BY <1>3, <2>4
    <3>2. head \in Seq({word, name, of, sync})
      BY ONLY <2>1
    <3>3. line = head
      BY ONLY <2>2, <3>1, <3>2, JoinedNone
    <3> QED BY <2>1, <2>4, <3>3
  <2> QED BY <2>3, <2>4
<1>5. ASSUME x[1] = "timeSync"
      PROVE  /\ x \in score.triggered => line = <<word, name, expression, text, of, name>>
             /\ x \notin score.triggered => line = <<word, name>>
  <2> PICK head, tail : head = <<word, name>> /\ tail = Expression(x, x \in score.triggered)
    OBVIOUS
  <2>1. head = <<word, name>>
    OBVIOUS
  <2>2. line = head \o tail
    BY <1>1, <1>5 DEF Line
  <2>3. CASE x \in score.triggered
    <3>1. tail = <<expression, text, of, name>>
      BY <1>3, <2>3
    <3>2. line = <<word, name, expression, text, of, name>>
      BY ONLY <2>1, <2>2, <3>1, Joined24
    <3> QED BY <2>3, <3>2
  <2>4. CASE x \notin score.triggered
    <3>1. tail = <<>>
      BY <1>3, <2>4
    <3>2. head \in Seq({word, name})
      BY ONLY <2>1
    <3>3. line = head
      BY ONLY <2>2, <3>1, <3>2, JoinedNone
    <3> QED BY <2>1, <2>4, <3>3
  <2> QED BY <2>3, <2>4
<1>6. ASSUME x[1] = "state"
      PROVE  /\ hasPrevious(x) =>
                   line = <<word, name, after, Name(previousInterval(x)), word, name, of,
                            Name(parentEvent(x))>>
             /\ ~hasPrevious(x) => line = <<word, name, of, Name(parentEvent(x))>>
  <2> PICK previous, event, head, tail :
         /\ previous = Name(previousInterval(x)) /\ event = Name(parentEvent(x))
         /\ tail = <<word, name, of, event>>
         /\ head = IF hasPrevious(x) THEN <<word, name, after, previous>> ELSE <<>>
    OBVIOUS
  <2>1. tail = <<word, name, of, event>>
    OBVIOUS
  <2>2. line = head \o tail
    BY <1>1, <1>6 DEF Line
  <2>3. CASE hasPrevious(x)
    <3>1. head = <<word, name, after, previous>>
      BY <2>3
    <3>2. <<word, name, after, previous>> \o <<word, name, of, event>> =
             <<word, name, after, previous, word, name, of, event>>
      BY FourAndFour
    <3>3. line = <<word, name, after, previous, word, name, of, event>>
      BY ONLY <2>1, <2>2, <3>1, <3>2
    <3> QED BY <2>3, <3>3
  <2>4. CASE ~hasPrevious(x)
    <3>1. head = <<>>
      BY <2>4
    <3>2. tail \in Seq({word, name, of, event})
      BY ONLY <2>1
    <3>3. line = tail
      BY ONLY <2>2, <3>1, <3>2, JoinedNone
    <3> QED BY <2>1, <2>4, <3>3
  <2> QED BY <2>3, <2>4
<1> QED BY <1>4, <1>5, <1>6

-----------------------------------------------------------------------------
\* What an object refers to is an object of its scenario.
LEMMA References ==
    ASSUME ScoreOK(score), NEW x \in score.objects
    PROVE  /\ x[1] = "interval" =>
                 score.startState[x] \in score.objects /\ score.startState[x][2] = x[2]
           /\ x[1] = "event" =>
                 parentTimeSync(x) \in score.objects /\ parentTimeSync(x)[2] = x[2]
           /\ x[1] = "state" => parentEvent(x) \in score.objects /\ parentEvent(x)[2] = x[2]
           /\ hasPrevious(x) =>
                 previousInterval(x) \in score.objects /\ previousInterval(x)[2] = x[2]
<1>1. /\ \A c \in DOMAIN score.startState : score.startState[c][2] = c[2]
      /\ \A c \in DOMAIN score.endState : score.endState[c][2] = c[2]
      /\ \A c \in DOMAIN score.eventOf : score.eventOf[c][2] = c[2]
      /\ \A c \in DOMAIN score.syncOf : score.syncOf[c][2] = c[2]
  BY DEF ScoreOK
<1> PICK all : all = [kind \in {"interval", "event", "timeSync", "state"} |->
                        {y \in score.objects : y[1] = kind}]
  OBVIOUS
<1>2. /\ score.startState \in [all["interval"] -> all["state"]]
      /\ score.endState \in [all["interval"] -> all["state"]]
      /\ score.eventOf \in [all["state"] -> all["event"]]
      /\ score.syncOf \in [all["event"] -> all["timeSync"]]
  BY DEF ScoreOK
<1>3. \A kind \in {"interval", "event", "timeSync", "state"} : \A y :
         y \in all[kind] <=> y \in score.objects /\ y[1] = kind
  OBVIOUS
<1>4. ASSUME x[1] = "interval"
      PROVE  score.startState[x] \in score.objects /\ score.startState[x][2] = x[2]
  BY <1>1, <1>2, <1>3, <1>4
<1>5. ASSUME x[1] = "event"
      PROVE  parentTimeSync(x) \in score.objects /\ parentTimeSync(x)[2] = x[2]
  BY <1>1, <1>2, <1>3, <1>5 DEF parentTimeSync
<1>6. ASSUME x[1] = "state"
      PROVE  parentEvent(x) \in score.objects /\ parentEvent(x)[2] = x[2]
  BY <1>1, <1>2, <1>3, <1>6 DEF parentEvent
<1>7. ASSUME hasPrevious(x)
      PROVE  previousInterval(x) \in score.objects /\ previousInterval(x)[2] = x[2]
  <2>1. previousInterval(x) \in DOMAIN score.endState /\ score.endState[previousInterval(x)] = x
    BY <1>7 DEF hasPrevious, previousInterval
  <2> QED BY <1>1, <1>2, <1>3, <2>1
<1> QED BY <1>4, <1>5, <1>6, <1>7

\* The names counted for an object are those in its line, and names of objects of
\* its scenario, its own among them.
LEMMA LineNames ==
    ASSUME ScoreOK(score), NEW x \in score.objects, NEW vs, vs = Counts(x).variables,
           NEW names, names = [k \in DOMAIN vs |-> Name(vs[k])],
           NEW line, line = Line(x)
    PROVE  /\ names \in Seq(NamesIn(x[2])) /\ Name(x) \in Range(names)
           /\ \A w \in AllNames : Copies(w, ToBag(names)) = Copies(w, ToBag(line))
<1> PICK name, of, after, expression, text, word, duration, time :
       /\ name = Name(x) /\ of = <<"of">> /\ after = <<"after">>
       /\ expression = <<"expression">> /\ text = <<"text">> /\ word = <<x[1]>>
       /\ duration = <<"duration">> /\ time = <<"time">>
  OBVIOUS
<1>1. x[1] \in {"interval", "event", "timeSync", "state"}
  BY DEF ScoreOK
<1>2. ASSUME NEW w \in AllNames
      PROVE  /\ w # of /\ w # after /\ w # expression /\ w # text /\ w # word
             /\ w # duration /\ w # time
  <2>1. \E a, b : w = <<a, b>>
    BY DEF AllNames, Name, ProcessName
  <2> QED BY <2>1
<1> PICK S : S = NamesIn(x[2])
  OBVIOUS
<1>3. \A y \in score.objects : y[2] = x[2] => Name(y) \in S
  BY DEF NamesIn
<1>4. name \in S
  BY <1>3
<1>5. DOMAIN names = DOMAIN vs /\ \A k \in DOMAIN vs : names[k] = Name(vs[k])
  OBVIOUS
<1>6. /\ x[1] = "event" /\ x \in score.conditioned =>
            line = <<word, name, of, Name(parentTimeSync(x)), expression, text, of, name>>
      /\ x[1] = "event" /\ x \notin score.conditioned =>
            line = <<word, name, of, Name(parentTimeSync(x))>>
      /\ x[1] = "timeSync" /\ x \in score.triggered =>
            line = <<word, name, expression, text, of, name>>
      /\ x[1] = "timeSync" /\ x \notin score.triggered => line = <<word, name>>
      /\ x[1] = "state" /\ hasPrevious(x) =>
            line = <<word, name, after, Name(previousInterval(x)), word, name, of,
                     Name(parentEvent(x))>>
      /\ x[1] = "state" /\ ~hasPrevious(x) =>
            line = <<word, name, of, Name(parentEvent(x))>>
  BY LineIs
<1>7. CASE x[1] = "interval"
  <2> PICK start : start = Name(score.startState[x])
    OBVIOUS
  <2>1. score.startState[x] \in score.objects /\ score.startState[x][2] = x[2]
    BY <1>7, References
  <2> PICK short : short = <<word, name, after, start, duration, time, of, name>>
    OBVIOUS
  <2>2. short = <<word, name, after, start, duration, time, of, name>>
    OBVIOUS
  <2>3. vs = <<x, score.startState[x], x>>
    BY <1>7 DEF Counts
  <2>4. DOMAIN vs = 1..3 /\ vs[1] = x /\ vs[2] = score.startState[x] /\ vs[3] = x
    BY ONLY <2>3
  <2>5. DOMAIN names = 1..3 /\ names[1] = name /\ names[2] = start /\ names[3] = name
    BY <1>5, <2>4
  <2>6. name \in S /\ start \in S
    BY <1>3, <1>4, <2>1
  <2>7. names \in Seq(S) /\ Len(names) = 3 /\ name \in Range(names)
    <3>1. names = [k \in 1..3 |-> names[k]]
      BY <1>5, <2>4
    <3>2. \A k \in 1..3 : names[k] \in S
      BY ONLY <2>5, <2>6
    <3>3. names \in Seq(S) /\ Len(names) = 3
      BY ONLY <3>1, <3>2
    <3> QED BY <2>5, <3>3 DEF Range
  <2>8. ASSUME NEW w \in AllNames PROVE Copies(w, ToBag(names)) = Copies(w, ToBag(line))
    <3> PICK W : W = {word, name, after, start, duration, time, of}
      OBVIOUS
    <3>1. word \in W /\ name \in W /\ after \in W /\ start \in W /\ duration \in W
          /\ time \in W /\ of \in W
      OBVIOUS
    <3>2. short \in Seq(W) /\ Len(short) = 8
      BY ONLY <3>1, <2>2
    <3> PICK g : g = <<2, 4, 8>>
      OBVIOUS
    <3>3. g[1] = 2 /\ g[2] = 4 /\ g[3] = 8
      OBVIOUS
    <3>4. /\ short[1] = word /\ short[2] = name /\ short[3] = after /\ short[4] = start
          /\ short[5] = duration /\ short[6] = time /\ short[7] = of /\ short[8] = name
      BY ONLY <2>2
    <3>5. \A k \in 1..Len(names) : g[k] \in 1..Len(short) /\ short[g[k]] = names[k]
      BY ONLY <2>5, <2>7, <3>2, <3>3, <3>4
    <3>6. \A j, k \in 1..Len(names) : g[j] = g[k] => j = k
      BY ONLY <2>7, <3>3
    <3>7. \A i \in 1..Len(short) : short[i] = w => \E k \in 1..Len(names) : g[k] = i
      BY ONLY <1>2, w \in AllNames, <2>7, <3>2, <3>3, <3>4
    <3>8. names \in Seq(S) /\ short \in Seq(W)
      BY <2>7, <3>2
    <3>9. Places(names, short, g, w)
      BY <3>5, <3>6, <3>7 DEF Places
    <3>10. Copies(w, ToBag(names)) = Copies(w, ToBag(short))
      BY ONLY <3>8, <3>9, SameCopies
    <3>11. w # <<"[;]">> /\ w # <<"time">>
      <4>1. \E a, b : w = <<a, b>>
        BY DEF AllNames, Name, ProcessName
      <4> QED BY ONLY <4>1
    <3>12. Copies(w, ToBag(line)) = Copies(w, ToBag(short))
      <4>1. word = <<"interval">>
        BY <1>7
      <4>2. short = << <<"interval">>, Name(x), <<"after">>, Name(score.startState[x]),
                       <<"duration">>, <<"time">>, <<"of">>, Name(x)>>
        BY <2>2, <4>1
      <4>3. Copies(w, ToBag(Line(x))) = Copies(w, ToBag(short))
        BY ONLY <1>7, <3>11, <4>2, IntervalLine
      <4> QED BY <4>3
    <3> QED BY <3>10, <3>12
  <2> QED BY <2>7, <2>8
<1>8. CASE x[1] = "event" /\ x \in score.conditioned
  <2> PICK sync : sync = Name(parentTimeSync(x))
    OBVIOUS
  <2>1. parentTimeSync(x) \in score.objects /\ parentTimeSync(x)[2] = x[2]
    BY <1>8, References
  <2>2. line = <<word, name, of, sync, expression, text, of, name>>
    BY <1>8, <1>6
  <2>3. vs = <<x, parentTimeSync(x), x>>
    BY <1>8 DEF Counts
  <2>4. DOMAIN vs = 1..3 /\ vs[1] = x /\ vs[2] = parentTimeSync(x) /\ vs[3] = x
    BY ONLY <2>3
  <2>5. DOMAIN names = 1..3 /\ names[1] = name /\ names[2] = sync /\ names[3] = name
    BY <1>5, <2>4
  <2>6. name \in S /\ sync \in S
    BY <1>3, <1>4, <2>1
  <2>7. names \in Seq(S) /\ Len(names) = 3 /\ name \in Range(names)
    <3>1. names = [k \in 1..3 |-> names[k]]
      BY <1>5, <2>4
    <3>2. \A k \in 1..3 : names[k] \in S
      BY ONLY <2>5, <2>6
    <3>3. names \in Seq(S) /\ Len(names) = 3
      BY ONLY <3>1, <3>2
    <3> QED BY <2>5, <3>3 DEF Range
  <2>8. ASSUME NEW w \in AllNames PROVE Copies(w, ToBag(names)) = Copies(w, ToBag(line))
    <3> PICK W : W = {word, name, of, sync, expression, text}
      OBVIOUS
    <3>1. word \in W /\ name \in W /\ of \in W /\ sync \in W /\ expression \in W /\ text \in W
      OBVIOUS
    <3>2. line \in Seq(W) /\ Len(line) = 8
      BY ONLY <3>1, <2>2
    <3> PICK g : g = <<2, 4, 8>>
      OBVIOUS
    <3>3. g[1] = 2 /\ g[2] = 4 /\ g[3] = 8
      OBVIOUS
    <3>4. /\ line[1] = word /\ line[2] = name /\ line[3] = of /\ line[4] = sync
          /\ line[5] = expression /\ line[6] = text /\ line[7] = of /\ line[8] = name
      BY ONLY <2>2
    <3>5. \A k \in 1..Len(names) : g[k] \in 1..Len(line) /\ line[g[k]] = names[k]
      BY ONLY <2>5, <2>7, <3>2, <3>3, <3>4
    <3>6. \A j, k \in 1..Len(names) : g[j] = g[k] => j = k
      BY ONLY <2>7, <3>3
    <3>7. \A i \in 1..Len(line) : line[i] = w => \E k \in 1..Len(names) : g[k] = i
      BY ONLY <1>2, w \in AllNames, <2>7, <3>2, <3>3, <3>4
    <3>8. names \in Seq(S) /\ line \in Seq(W)
      BY <2>7, <3>2
    <3>9. Places(names, line, g, w)
      BY <3>5, <3>6, <3>7 DEF Places
    <3> QED BY <3>8, <3>9, SameCopies
  <2> QED BY <2>7, <2>8
<1>9. CASE x[1] = "event" /\ x \notin score.conditioned
  <2> PICK sync : sync = Name(parentTimeSync(x))
    OBVIOUS
  <2>1. parentTimeSync(x) \in score.objects /\ parentTimeSync(x)[2] = x[2]
    BY <1>9, References
  <2>2. line = <<word, name, of, sync>>
    BY <1>9, <1>6
  <2>3. vs = <<x, parentTimeSync(x)>>
    BY <1>9 DEF Counts
  <2>4. DOMAIN vs = 1..2 /\ vs[1] = x /\ vs[2] = parentTimeSync(x)
    BY ONLY <2>3
  <2>5. DOMAIN names = 1..2 /\ names[1] = name /\ names[2] = sync
    BY <1>5, <2>4
  <2>6. name \in S /\ sync \in S
    BY <1>3, <1>4, <2>1
  <2>7. names \in Seq(S) /\ Len(names) = 2 /\ name \in Range(names)
    <3>1. names = [k \in 1..2 |-> names[k]]
      BY <1>5, <2>4
    <3>2. \A k \in 1..2 : names[k] \in S
      BY ONLY <2>5, <2>6
    <3>3. names \in Seq(S) /\ Len(names) = 2
      BY ONLY <3>1, <3>2
    <3> QED BY <2>5, <3>3 DEF Range
  <2>8. ASSUME NEW w \in AllNames PROVE Copies(w, ToBag(names)) = Copies(w, ToBag(line))
    <3> PICK W : W = {word, name, of, sync}
      OBVIOUS
    <3>1. word \in W /\ name \in W /\ of \in W /\ sync \in W
      OBVIOUS
    <3>2. line \in Seq(W) /\ Len(line) = 4
      BY ONLY <3>1, <2>2
    <3> PICK g : g = <<2, 4>>
      OBVIOUS
    <3>3. g[1] = 2 /\ g[2] = 4
      OBVIOUS
    <3>4. /\ line[1] = word /\ line[2] = name /\ line[3] = of /\ line[4] = sync
      BY ONLY <2>2
    <3>5. \A k \in 1..Len(names) : g[k] \in 1..Len(line) /\ line[g[k]] = names[k]
      BY ONLY <2>5, <2>7, <3>2, <3>3, <3>4
    <3>6. \A j, k \in 1..Len(names) : g[j] = g[k] => j = k
      BY ONLY <2>7, <3>3
    <3>7. \A i \in 1..Len(line) : line[i] = w => \E k \in 1..Len(names) : g[k] = i
      BY ONLY <1>2, w \in AllNames, <2>7, <3>2, <3>3, <3>4
    <3>8. names \in Seq(S) /\ line \in Seq(W)
      BY <2>7, <3>2
    <3>9. Places(names, line, g, w)
      BY <3>5, <3>6, <3>7 DEF Places
    <3> QED BY <3>8, <3>9, SameCopies
  <2> QED BY <2>7, <2>8
<1>10. CASE x[1] = "timeSync" /\ x \in score.triggered
  <2>1. line = <<word, name, expression, text, of, name>>
    BY <1>10, <1>6
  <2>2. vs = <<x, x>>
    BY <1>10 DEF Counts
  <2>3. DOMAIN vs = 1..2 /\ vs[1] = x /\ vs[2] = x
    BY ONLY <2>2
  <2>4. DOMAIN names = 1..2 /\ names[1] = name /\ names[2] = name
    BY <1>5, <2>3
  <2>5. name \in S
    BY <1>3, <1>4
  <2>6. names \in Seq(S) /\ Len(names) = 2 /\ name \in Range(names)
    <3>1. names = [k \in 1..2 |-> names[k]]
      BY <1>5, <2>3
    <3>2. \A k \in 1..2 : names[k] \in S
      BY ONLY <2>4, <2>5
    <3>3. names \in Seq(S) /\ Len(names) = 2
      BY ONLY <3>1, <3>2
    <3> QED BY <2>4, <3>3 DEF Range
  <2>7. ASSUME NEW w \in AllNames PROVE Copies(w, ToBag(names)) = Copies(w, ToBag(line))
    <3> PICK W : W = {word, name, expression, text, of}
      OBVIOUS
    <3>1. word \in W /\ name \in W /\ expression \in W /\ text \in W /\ of \in W
      OBVIOUS
    <3>2. line \in Seq(W) /\ Len(line) = 6
      BY ONLY <3>1, <2>1
    <3> PICK g : g = <<2, 6>>
      OBVIOUS
    <3>3. g[1] = 2 /\ g[2] = 6
      OBVIOUS
    <3>4. /\ line[1] = word /\ line[2] = name /\ line[3] = expression /\ line[4] = text
          /\ line[5] = of /\ line[6] = name
      BY ONLY <2>1
    <3>5. \A k \in 1..Len(names) : g[k] \in 1..Len(line) /\ line[g[k]] = names[k]
      BY ONLY <2>4, <2>6, <3>2, <3>3, <3>4
    <3>6. \A j, k \in 1..Len(names) : g[j] = g[k] => j = k
      BY ONLY <2>6, <3>3
    <3>7. \A i \in 1..Len(line) : line[i] = w => \E k \in 1..Len(names) : g[k] = i
      BY ONLY <1>2, w \in AllNames, <2>6, <3>2, <3>3, <3>4
    <3>8. names \in Seq(S) /\ line \in Seq(W)
      BY <2>6, <3>2
    <3>9. Places(names, line, g, w)
      BY <3>5, <3>6, <3>7 DEF Places
    <3> QED BY <3>8, <3>9, SameCopies
  <2> QED BY <2>6, <2>7
<1>11. CASE x[1] = "timeSync" /\ x \notin score.triggered
  <2>1. line = <<word, name>>
    BY <1>11, <1>6
  <2>2. vs = <<x>>
    BY <1>11 DEF Counts
  <2>3. DOMAIN vs = 1..1 /\ vs[1] = x
    BY ONLY <2>2
  <2>4. DOMAIN names = 1..1 /\ names[1] = name
    BY <1>5, <2>3
  <2>5. name \in S
    BY <1>3, <1>4
  <2>6. names \in Seq(S) /\ Len(names) = 1 /\ name \in Range(names)
    <3>1. names = [k \in 1..1 |-> names[k]]
      BY <1>5, <2>3
    <3>2. \A k \in 1..1 : names[k] \in S
      BY ONLY <2>4, <2>5
    <3>3. names \in Seq(S) /\ Len(names) = 1
      BY ONLY <3>1, <3>2
    <3> QED BY <2>4, <3>3 DEF Range
  <2>7. ASSUME NEW w \in AllNames PROVE Copies(w, ToBag(names)) = Copies(w, ToBag(line))
    <3> PICK W : W = {word, name}
      OBVIOUS
    <3>1. word \in W /\ name \in W
      OBVIOUS
    <3>2. line \in Seq(W) /\ Len(line) = 2
      BY ONLY <3>1, <2>1
    <3> PICK g : g = <<2>>
      OBVIOUS
    <3>3. g[1] = 2
      OBVIOUS
    <3>4. /\ line[1] = word /\ line[2] = name
      BY ONLY <2>1
    <3>5. \A k \in 1..Len(names) : g[k] \in 1..Len(line) /\ line[g[k]] = names[k]
      BY ONLY <2>4, <2>6, <3>2, <3>3, <3>4
    <3>6. \A j, k \in 1..Len(names) : g[j] = g[k] => j = k
      BY ONLY <2>6, <3>3
    <3>7. \A i \in 1..Len(line) : line[i] = w => \E k \in 1..Len(names) : g[k] = i
      BY ONLY <1>2, w \in AllNames, <2>6, <3>2, <3>3, <3>4
    <3>8. names \in Seq(S) /\ line \in Seq(W)
      BY <2>6, <3>2
    <3>9. Places(names, line, g, w)
      BY <3>5, <3>6, <3>7 DEF Places
    <3> QED BY <3>8, <3>9, SameCopies
  <2> QED BY <2>6, <2>7
<1>12. CASE x[1] = "state" /\ hasPrevious(x)
  <2> PICK previous, event : previous = Name(previousInterval(x)) /\ event = Name(parentEvent(x))
    OBVIOUS
  <2>1. previousInterval(x) \in score.objects /\ previousInterval(x)[2] = x[2]
    BY <1>12, References
  <2>2. parentEvent(x) \in score.objects /\ parentEvent(x)[2] = x[2]
    BY <1>12, References
  <2>3. line = <<word, name, after, previous, word, name, of, event>>
    BY <1>12, <1>6
  <2>4. vs = <<x, previousInterval(x), x, parentEvent(x)>>
    BY <1>12 DEF Counts
  <2>5. DOMAIN vs = 1..4 /\ vs[1] = x /\ vs[2] = previousInterval(x) /\ vs[3] = x
        /\ vs[4] = parentEvent(x)
    BY ONLY <2>4
  <2>6. DOMAIN names = 1..4 /\ names[1] = name /\ names[2] = previous /\ names[3] = name
        /\ names[4] = event
    BY <1>5, <2>5
  <2>7. name \in S /\ previous \in S /\ event \in S
    BY <1>3, <1>4, <2>1, <2>2
  <2>8. names \in Seq(S) /\ Len(names) = 4 /\ name \in Range(names)
    <3>1. names = [k \in 1..4 |-> names[k]]
      BY <1>5, <2>5
    <3>2. \A k \in 1..4 : names[k] \in S
      BY ONLY <2>6, <2>7
    <3>3. names \in Seq(S) /\ Len(names) = 4
      BY ONLY <3>1, <3>2
    <3> QED BY <2>6, <3>3 DEF Range
  <2>9. ASSUME NEW w \in AllNames PROVE Copies(w, ToBag(names)) = Copies(w, ToBag(line))
    <3> PICK W : W = {word, name, after, previous, of, event}
      OBVIOUS
    <3>1. word \in W /\ name \in W /\ after \in W /\ previous \in W /\ of \in W /\ event \in W
      OBVIOUS
    <3>2. line \in Seq(W) /\ Len(line) = 8
      BY ONLY <3>1, <2>3
    <3> PICK g : g = <<2, 4, 6, 8>>
      OBVIOUS
    <3>3. g[1] = 2 /\ g[2] = 4 /\ g[3] = 6 /\ g[4] = 8
      OBVIOUS
    <3>4. /\ line[1] = word /\ line[2] = name /\ line[3] = after /\ line[4] = previous
          /\ line[5] = word /\ line[6] = name /\ line[7] = of /\ line[8] = event
      BY ONLY <2>3
    <3>5. \A k \in 1..Len(names) : g[k] \in 1..Len(line) /\ line[g[k]] = names[k]
      BY ONLY <2>6, <2>8, <3>2, <3>3, <3>4
    <3>6. \A j, k \in 1..Len(names) : g[j] = g[k] => j = k
      BY ONLY <2>8, <3>3
    <3>7. \A i \in 1..Len(line) : line[i] = w => \E k \in 1..Len(names) : g[k] = i
      BY ONLY <1>2, w \in AllNames, <2>8, <3>2, <3>3, <3>4
    <3>8. names \in Seq(S) /\ line \in Seq(W)
      BY <2>8, <3>2
    <3>9. Places(names, line, g, w)
      BY <3>5, <3>6, <3>7 DEF Places
    <3> QED BY <3>8, <3>9, SameCopies
  <2> QED BY <2>8, <2>9
<1>13. CASE x[1] = "state" /\ ~hasPrevious(x)
  <2> PICK event : event = Name(parentEvent(x))
    OBVIOUS
  <2>1. parentEvent(x) \in score.objects /\ parentEvent(x)[2] = x[2]
    BY <1>13, References
  <2>2. line = <<word, name, of, event>>
    BY <1>13, <1>6
  <2>3. vs = <<x, parentEvent(x)>>
    BY <1>13 DEF Counts
  <2>4. DOMAIN vs = 1..2 /\ vs[1] = x /\ vs[2] = parentEvent(x)
    BY ONLY <2>3
  <2>5. DOMAIN names = 1..2 /\ names[1] = name /\ names[2] = event
    BY <1>5, <2>4
  <2>6. name \in S /\ event \in S
    BY <1>3, <1>4, <2>1
  <2>7. names \in Seq(S) /\ Len(names) = 2 /\ name \in Range(names)
    <3>1. names = [k \in 1..2 |-> names[k]]
      BY <1>5, <2>4
    <3>2. \A k \in 1..2 : names[k] \in S
      BY ONLY <2>5, <2>6
    <3>3. names \in Seq(S) /\ Len(names) = 2
      BY ONLY <3>1, <3>2
    <3> QED BY <2>5, <3>3 DEF Range
  <2>8. ASSUME NEW w \in AllNames PROVE Copies(w, ToBag(names)) = Copies(w, ToBag(line))
    <3> PICK W : W = {word, name, of, event}
      OBVIOUS
    <3>1. word \in W /\ name \in W /\ of \in W /\ event \in W
      OBVIOUS
    <3>2. line \in Seq(W) /\ Len(line) = 4
      BY ONLY <3>1, <2>2
    <3> PICK g : g = <<2, 4>>
      OBVIOUS
    <3>3. g[1] = 2 /\ g[2] = 4
      OBVIOUS
    <3>4. /\ line[1] = word /\ line[2] = name /\ line[3] = of /\ line[4] = event
      BY ONLY <2>2
    <3>5. \A k \in 1..Len(names) : g[k] \in 1..Len(line) /\ line[g[k]] = names[k]
      BY ONLY <2>5, <2>7, <3>2, <3>3, <3>4
    <3>6. \A j, k \in 1..Len(names) : g[j] = g[k] => j = k
      BY ONLY <2>7, <3>3
    <3>7. \A i \in 1..Len(line) : line[i] = w => \E k \in 1..Len(names) : g[k] = i
      BY ONLY <1>2, w \in AllNames, <2>7, <3>2, <3>3, <3>4
    <3>8. names \in Seq(S) /\ line \in Seq(W)
      BY <2>7, <3>2
    <3>9. Places(names, line, g, w)
      BY <3>5, <3>6, <3>7 DEF Places
    <3> QED BY <3>8, <3>9, SameCopies
  <2> QED BY <2>7, <2>8
<1> QED BY <1>1, <1>7, <1>8, <1>9, <1>10, <1>11, <1>12, <1>13

-----------------------------------------------------------------------------
(* The maps of names of all scenarios visited, in the order they were      *)
(* entered: operator+= puts one behind the other, and loses none.          *)

\* Of these, f has its own, a, and those of scenarios within, up to b.
FactorIs(f, maps, a, b) ==
    /\ "variables" \in DOMAIN f /\ "subprocesses_variables" \in DOMAIN f
    /\ f.variables = maps[a]
    /\ f.subprocesses_variables \in Seq(NameBags)
    /\ Len(f.subprocesses_variables) = b - a
    /\ \A j \in 1..(b - a) : f.subprocesses_variables[j] = maps[a + j]

\* Those of the k-th scenario being visited start at from[k].
Laid(fs, maps, from) ==
    /\ fs \in Seq(Range(fs)) /\ maps \in Seq(NameBags)
    /\ from \in [1..(Len(fs) + 1) -> Nat]
    /\ from[1] = 1 /\ from[Len(fs) + 1] = Len(maps) + 1
    /\ \A j, k \in 1..(Len(fs) + 1) : j < k => from[j] < from[k]
    /\ \A k \in 1..Len(fs) : FactorIs(fs[k], maps, from[k], from[k + 1] - 1)

\* A sequence is one of its own elements.
LEMMA OwnRange == ASSUME NEW S, NEW s \in Seq(S) PROVE s \in Seq(Range(s))
<1>1. s = [k \in 1..Len(s) |-> s[k]] /\ Len(s) \in Nat
  OBVIOUS
<1>2. \A k \in 1..Len(s) : s[k] \in Range(s)
  BY DEF Range
<1> QED BY ONLY <1>1, <1>2

\* Where the maps of a scenario are.
LEMMA Where ==
    ASSUME NEW fs, NEW maps, NEW from, Laid(fs, maps, from), NEW k \in 1..Len(fs)
    PROVE  /\ Len(fs) \in Nat /\ Len(maps) \in Nat
           /\ k + 1 \in 1..(Len(fs) + 1) /\ k \in 1..(Len(fs) + 1)
           /\ from[k] \in Nat /\ from[k + 1] \in Nat
           /\ 1 <= from[k] /\ from[k] < from[k + 1] /\ from[k + 1] <= Len(maps) + 1
           /\ from[k] \in 1..Len(maps)
           /\ \A j \in 1..Len(fs) : j < k => from[j + 1] <= from[k]
<1>1. /\ fs \in Seq(Range(fs)) /\ maps \in Seq(NameBags)
      /\ from \in [1..(Len(fs) + 1) -> Nat]
      /\ from[1] = 1 /\ from[Len(fs) + 1] = Len(maps) + 1
      /\ \A i, j \in 1..(Len(fs) + 1) : i < j => from[i] < from[j]
  BY DEF Laid
<1>2. Len(fs) \in Nat /\ Len(maps) \in Nat
  BY <1>1
<1> PICK n : n = Len(fs)
  OBVIOUS
<1>3. n \in Nat /\ k \in Nat /\ 1 <= k /\ k <= n
  BY <1>2
<1>4. /\ k + 1 \in 1..(n + 1) /\ k \in 1..(n + 1) /\ 1 \in 1..(n + 1) /\ n + 1 \in 1..(n + 1)
      /\ k < k + 1 /\ (k = 1 \/ 1 < k) /\ (k = n \/ k + 1 < n + 1)
  BY ONLY <1>3
<1>5. from[k] \in Nat /\ from[k + 1] \in Nat /\ from[k] < from[k + 1]
  BY ONLY <1>1, <1>4, n = Len(fs)
<1>6. k = 1 \/ from[1] < from[k]
  BY ONLY <1>1, <1>4, n = Len(fs)
<1>7. k = n \/ from[k + 1] < from[n + 1]
  BY ONLY <1>1, <1>4, n = Len(fs)
<1>8. 1 <= from[k] /\ from[k + 1] <= Len(maps) + 1
  BY ONLY <1>1, <1>2, <1>5, <1>6, <1>7, n = Len(fs)
<1>9. from[k] \in 1..Len(maps)
  BY ONLY <1>2, <1>5, <1>8
<1>10. ASSUME NEW j \in 1..Len(fs), j < k PROVE from[j + 1] <= from[k]
  <2>1. j + 1 \in 1..(n + 1) /\ (j + 1 = k \/ j + 1 < k)
    BY <1>3, <1>10
  <2>2. from[j + 1] \in Nat /\ (j + 1 = k \/ from[j + 1] < from[k])
    BY ONLY <1>1, <1>4, <2>1, n = Len(fs)
  <2> QED BY ONLY <1>5, <2>2
<1> QED BY ONLY n = Len(fs), <1>2, <1>4, <1>5, <1>8, <1>9, <1>10

\* The innermost scenario counts names.
LEMMA LaidChanged ==
    ASSUME NEW fs, NEW maps, NEW from, Laid(fs, maps, from), Len(fs) >= 1,
           NEW f, "variables" \in DOMAIN f, "subprocesses_variables" \in DOMAIN f,
           f.variables \in NameBags,
           f.subprocesses_variables = fs[Len(fs)].subprocesses_variables,
           NEW gs, gs \in Seq(Range(gs)), Len(gs) = Len(fs), gs[Len(fs)] = f,
           \A k \in 1..(Len(fs) - 1) : gs[k] = fs[k],
           NEW new, new = [maps EXCEPT ![from[Len(fs)]] = f.variables]
    PROVE  Laid(gs, new, from)
<1> PICK n : n = Len(fs)
  OBVIOUS
<1> PICK a, B : a = from[n] /\ B = f.variables
  OBVIOUS
<1>1. n \in Nat /\ n >= 1 /\ n \in 1..n /\ a \in 1..Len(maps) /\ Len(maps) \in Nat
  <2>1. n \in Nat /\ n \in 1..Len(fs)
    BY DEF Laid
  <2> QED BY <2>1, Where
<1>2. /\ maps \in Seq(NameBags) /\ from \in [1..(n + 1) -> Nat]
      /\ from[1] = 1 /\ from[n + 1] = Len(maps) + 1
      /\ \A j, k \in 1..(n + 1) : j < k => from[j] < from[k]
      /\ \A k \in 1..n : FactorIs(fs[k], maps, from[k], from[k + 1] - 1)
  BY DEF Laid
<1>3. /\ new \in Seq(NameBags) /\ Len(new) = Len(maps) /\ new[a] = B
      /\ \A i \in 1..Len(maps) : i # a => new[i] = maps[i]
  BY ONLY <1>1, <1>2, new = [maps EXCEPT ![from[Len(fs)]] = f.variables], n = Len(fs),
          a = from[n], B = f.variables, f.variables \in NameBags
<1>4. ASSUME NEW k \in 1..n PROVE FactorIs(gs[k], new, from[k], from[k + 1] - 1)
  <2>1. FactorIs(fs[k], maps, from[k], from[k + 1] - 1)
    BY <1>2
  <2>2. /\ from[k] \in Nat /\ from[k + 1] \in Nat /\ from[k + 1] <= Len(maps) + 1
        /\ from[k] < from[k + 1] /\ 1 <= from[k]
    BY Where
  <2> PICK b, c : b = from[k] /\ c = from[k + 1] - 1
    OBVIOUS
  <2>3. b \in Nat /\ c \in Nat /\ b <= c /\ c <= Len(maps) /\ 1 <= b
    BY ONLY <1>1, <2>2, b = from[k], c = from[k + 1] - 1
  <2>4. \A j \in 1..(c - b) : b + j \in 1..Len(maps)
    BY ONLY <1>1, <2>3
  <2>5. CASE k = n
    <3>1. \A j \in 1..(c - b) : new[b + j] = maps[b + j]
      <4>1. \A j \in 1..(c - b) : b + j # a
        BY ONLY <2>3, <2>5, a = from[n], b = from[k]
      <4> QED BY <1>3, <2>4, <4>1
    <3>2. gs[k] = f /\ fs[k].subprocesses_variables = f.subprocesses_variables /\ b = a
      BY <2>5
    <3>3. FactorIs(fs[k], maps, b, c)
      BY <2>1
    <3>4. FactorIs(f, new, b, c)
      BY <1>3, <3>1, <3>2, <3>3 DEF FactorIs
    <3> QED BY <3>2, <3>4
  <2>6. CASE k # n
    <3>1. k < n /\ k \in 1..(n - 1)
      BY <1>1, <2>6
    <3>2. from[k + 1] <= a
      BY <1>1, <3>1, Where
    <3>3. c < a
      BY ONLY <1>1, <2>2, <2>3, <3>2, c = from[k + 1] - 1
    <3>4. \A j \in 1..(c - b) : b + j # a
      BY ONLY <1>1, <2>3, <3>3
    <3>5. (\A j \in 1..(c - b) : new[b + j] = maps[b + j]) /\ new[b] = maps[b]
      BY <1>1, <1>3, <2>3, <2>4, <3>3, <3>4
    <3>6. gs[k] = fs[k]
      BY <3>1
    <3>7. FactorIs(fs[k], maps, b, c)
      BY <2>1
    <3>8. FactorIs(fs[k], new, b, c)
      BY <3>5, <3>7 DEF FactorIs
    <3> QED BY <3>6, <3>8
  <2> QED BY <2>5, <2>6
<1> QED BY <1>2, <1>3, <1>4 DEF Laid

\* A scenario is entered.
LEMMA LaidPushed ==
    ASSUME NEW fs, NEW maps, NEW from, Laid(fs, maps, from),
           NEW f, "variables" \in DOMAIN f, "subprocesses_variables" \in DOMAIN f,
           f.variables \in NameBags, f.subprocesses_variables = <<>>,
           NEW gs, gs = Append(fs, f), NEW new, new = Append(maps, f.variables),
           NEW then, then = [k \in 1..(Len(fs) + 2) |->
                                IF k = Len(fs) + 2 THEN Len(maps) + 2 ELSE from[k]]
    PROVE  Laid(gs, new, then)
<1> PICK n, m, B : n = Len(fs) /\ m = Len(maps) /\ B = f.variables
  OBVIOUS
<1>1. /\ fs \in Seq(Range(fs)) /\ maps \in Seq(NameBags) /\ n \in Nat /\ m \in Nat
      /\ from \in [1..(n + 1) -> Nat] /\ from[1] = 1 /\ from[n + 1] = m + 1
      /\ \A j, k \in 1..(n + 1) : j < k => from[j] < from[k]
      /\ \A k \in 1..n : FactorIs(fs[k], maps, from[k], from[k + 1] - 1)
  BY DEF Laid
<1>2. then = [k \in 1..(n + 2) |-> IF k = n + 2 THEN m + 2 ELSE from[k]]
  OBVIOUS
<1>3. /\ \A k \in 1..(n + 1) : then[k] = from[k] /\ k # n + 2
      /\ then[n + 2] = m + 2 /\ DOMAIN then = 1..(n + 2)
  BY ONLY <1>1, <1>2
<1>4. /\ new \in Seq(NameBags) /\ Len(new) = m + 1 /\ new[m + 1] = B
      /\ \A i \in 1..m : new[i] = maps[i]
  BY <1>1
<1>5. gs \in Seq(Range(gs)) /\ Len(gs) = n + 1 /\ gs[n + 1] = f /\ \A k \in 1..n : gs[k] = fs[k]
  <2>1. Len(gs) = n + 1 /\ gs[n + 1] = f /\ \A k \in 1..n : gs[k] = fs[k]
    BY <1>1
  <2> PICK S : S = Range(fs) \cup {f}
    OBVIOUS
  <2>2. \A k \in 1..n : fs[k] \in S
    BY <1>1 DEF Range
  <2>3. fs \in Seq(S) /\ f \in S
    BY <1>1, <2>2
  <2>4. gs \in Seq(S)
    BY <2>3
  <2>5. gs \in Seq(Range(gs))
    BY <2>4, OwnRange
  <2> QED BY <2>1, <2>5
<1>6. then \in [1..(Len(gs) + 1) -> Nat]
  <2>1. \A k \in 1..(n + 2) : (IF k = n + 2 THEN m + 2 ELSE from[k]) \in Nat
    BY ONLY <1>1
  <2>2. Len(gs) + 1 = n + 2
    BY ONLY <1>1, <1>5
  <2> QED BY ONLY <1>2, <2>1, <2>2
<1>7. ASSUME NEW j \in 1..(n + 2), NEW k \in 1..(n + 2), j < k PROVE then[j] < then[k]
  <2>1. j \in 1..(n + 1) /\ (k = n + 2 \/ k \in 1..(n + 1))
    BY <1>1, <1>7
  <2>2. CASE k = n + 2
    <3>1. n + 1 \in 1..(n + 1) /\ (j = n + 1 \/ j < n + 1)
      BY <1>1, <2>1
    <3>2. from[j] <= m + 1 /\ from[j] \in Nat
      BY ONLY <1>1, <2>1, <3>1
    <3> QED BY ONLY <1>1, <1>3, <2>1, <2>2, <3>2
  <2>3. CASE k \in 1..(n + 1)
    BY <1>1, <1>3, <1>7, <2>1, <2>3
  <2> QED BY <2>1, <2>2, <2>3
<1>8. ASSUME NEW k \in 1..(n + 1) PROVE FactorIs(gs[k], new, then[k], then[k + 1] - 1)
  <2>1. CASE k = n + 1
    <3>1. then[k] = m + 1 /\ then[k + 1] - 1 = m + 1
      <4>1. k \in 1..(n + 1) /\ k + 1 = n + 2
        BY ONLY <1>1, <2>1
      <4> QED BY ONLY <1>1, <1>3, <2>1, <4>1
    <3>2. f.subprocesses_variables \in Seq(NameBags) /\ Len(f.subprocesses_variables) = 0
      OBVIOUS
    <3>3. FactorIs(f, new, m + 1, m + 1)
      <4>1. (m + 1) - (m + 1) = 0 /\ 1..0 = {}
        BY ONLY <1>1
      <4> QED BY <1>4, <3>2, <4>1 DEF FactorIs
    <3> QED BY ONLY <1>5, <2>1, <3>1, <3>3
  <2>2. CASE k \in 1..n
    <3>1. FactorIs(fs[k], maps, from[k], from[k + 1] - 1)
      BY <1>1, <2>2
    <3>2. /\ from[k] \in Nat /\ from[k + 1] \in Nat /\ from[k + 1] <= m + 1
          /\ from[k] < from[k + 1] /\ 1 <= from[k] /\ k + 1 \in 1..(n + 1)
      BY <2>2, Where
    <3> PICK b, c : b = from[k] /\ c = from[k + 1] - 1
      OBVIOUS
    <3>3. b \in Nat /\ c \in Nat /\ b <= c /\ c <= m /\ 1 <= b
      BY ONLY <1>1, <3>2, b = from[k], c = from[k + 1] - 1
    <3>4. (\A j \in 1..(c - b) : b + j \in 1..m) /\ b \in 1..m
      BY ONLY <1>1, <3>3
    <3>5. (\A j \in 1..(c - b) : new[b + j] = maps[b + j]) /\ new[b] = maps[b]
      BY ONLY <1>4, <3>4
    <3>6. FactorIs(fs[k], maps, b, c)
      BY <3>1
    <3>7. FactorIs(fs[k], new, b, c)
      BY <3>5, <3>6 DEF FactorIs
    <3>8. gs[k] = fs[k] /\ then[k] = b /\ then[k + 1] - 1 = c
      BY <1>3, <1>5, <2>2, <3>2
    <3> QED BY <3>7, <3>8
  <2>3. k = n + 1 \/ k \in 1..n
    BY <1>1
  <2> QED BY <2>1, <2>2, <2>3
<1>9. then[1] = 1 /\ then[Len(gs) + 1] = Len(new) + 1
  <2>1. 1 \in 1..(n + 1) /\ Len(gs) + 1 = n + 2
    BY ONLY <1>1, <1>5
  <2> QED BY ONLY <1>1, <1>3, <1>4, <2>1
<1>10. \A j, k \in 1..(Len(gs) + 1) : j < k => then[j] < then[k]
  <2>1. Len(gs) + 1 = n + 2
    BY ONLY <1>1, <1>5
  <2> QED BY <1>7, <2>1
<1> QED BY <1>4, <1>5, <1>6, <1>8, <1>9, <1>10 DEF Laid

\* A sequence after another; and one sequence, one element, another sequence.
LEMMA After ==
    ASSUME NEW S, NEW s \in Seq(S), NEW t \in Seq(S)
    PROVE  /\ s \o t \in Seq(S) /\ Len(s \o t) = Len(s) + Len(t)
           /\ \A k \in 1..Len(s) : (s \o t)[k] = s[k]
           /\ \A k \in 1..Len(t) : (s \o t)[Len(s) + k] = t[k]
<1> PICK u : u = s \o t
  OBVIOUS
<1>1. u \in Seq(S) /\ Len(u) = Len(s) + Len(t) /\ Len(s) \in Nat /\ Len(t) \in Nat
  OBVIOUS
<1>2. ASSUME NEW k \in 1..Len(s) PROVE u[k] = s[k]
  BY <1>1
<1>3. ASSUME NEW k \in 1..Len(t) PROVE u[Len(s) + k] = t[k]
  <2> PICK j : j = Len(s) + k
    OBVIOUS
  <2>1. j \in 1..Len(u) /\ j > Len(s) /\ j - Len(s) = k
    BY <1>1
  <2>2. u[j] = t[j - Len(s)]
    BY <1>1, <2>1
  <2> QED BY <2>1, <2>2
<1> QED BY <1>1, <1>2, <1>3

\* A sequence, one element, and another sequence.
LEMMA BetweenIs ==
    ASSUME NEW S, NEW s \in Seq(S), NEW t \in Seq(S), NEW v \in S
    PROVE  /\ Append(s, v) \o t \in Seq(S) /\ Len(Append(s, v) \o t) = Len(s) + 1 + Len(t)
           /\ \A k \in 1..Len(s) : (Append(s, v) \o t)[k] = s[k]
           /\ (Append(s, v) \o t)[Len(s) + 1] = v
           /\ \A k \in 1..Len(t) : (Append(s, v) \o t)[Len(s) + 1 + k] = t[k]
<1> PICK r : r = Append(s, v)
  OBVIOUS
<1>1. r \in Seq(S) /\ Len(r) = Len(s) + 1 /\ Len(s) \in Nat /\ Len(t) \in Nat
      /\ r[Len(s) + 1] = v /\ \A k \in 1..Len(s) : r[k] = s[k]
  OBVIOUS
<1> PICK u : u = r \o t
  OBVIOUS
<1>2. /\ u \in Seq(S) /\ Len(u) = Len(r) + Len(t)
      /\ \A k \in 1..Len(r) : u[k] = r[k]
      /\ \A k \in 1..Len(t) : u[Len(r) + k] = t[k]
  BY <1>1, After
<1>3. (\A k \in 1..Len(s) : k \in 1..Len(r)) /\ Len(s) + 1 \in 1..Len(r)
  BY ONLY <1>1
<1>4. u[Len(s) + 1] = v /\ \A k \in 1..Len(s) : u[k] = s[k]
  BY ONLY <1>1, <1>2, <1>3
<1>5. \A k \in 1..Len(t) : u[Len(s) + 1 + k] = t[k]
  BY ONLY <1>1, <1>2
<1>6. u \in Seq(S) /\ Len(u) = Len(s) + 1 + Len(t)
  BY ONLY <1>1, <1>2
<1>7. u = Append(s, v) \o t
  OBVIOUS
<1> QED BY ONLY <1>4, <1>5, <1>6, <1>7

\* The last of fs is added to the one before it.
Merged(fs, gs) ==
    /\ gs \in Seq(Range(gs)) /\ Len(gs) = Len(fs) - 1
    /\ gs[Len(fs) - 1] = Plus(fs[Len(fs) - 1], fs[Len(fs)])
    /\ \A k \in 1..(Len(fs) - 2) : gs[k] = fs[k]

\* A scenario is over, and its maps follow those of the one around it.
LEMMA LaidMerged ==
    ASSUME NEW fs, NEW maps, NEW from, Laid(fs, maps, from), Len(fs) >= 2,
           NEW gs, Merged(fs, gs),
           NEW then, then = [k \in 1..Len(fs) |->
                                IF k = Len(fs) THEN Len(maps) + 1 ELSE from[k]]
    PROVE  Laid(gs, maps, then)
<1> PICK outer, done : outer = fs[Len(fs) - 1] /\ done = fs[Len(fs)]
  OBVIOUS
<1> PICK g : g = Plus(outer, done)
  OBVIOUS
<1> /\ "variables" \in DOMAIN g /\ "subprocesses_variables" \in DOMAIN g
    /\ g.variables = outer.variables
    /\ g.subprocesses_variables =
          Append(outer.subprocesses_variables, done.variables) \o done.subprocesses_variables
  BY ONLY g = Plus(outer, done) DEF Plus
<1> /\ gs \in Seq(Range(gs)) /\ Len(gs) = Len(fs) - 1 /\ gs[Len(fs) - 1] = g
    /\ \A k \in 1..(Len(fs) - 2) : gs[k] = fs[k]
  BY DEF Merged
<1> PICK n, m : n = Len(fs) /\ m = Len(maps)
  OBVIOUS
<1>1. /\ fs \in Seq(Range(fs)) /\ maps \in Seq(NameBags) /\ n \in Nat /\ m \in Nat /\ n >= 2
      /\ from \in [1..(n + 1) -> Nat] /\ from[1] = 1 /\ from[n + 1] = m + 1
      /\ \A j, k \in 1..(n + 1) : j < k => from[j] < from[k]
      /\ \A k \in 1..n : FactorIs(fs[k], maps, from[k], from[k + 1] - 1)
  BY DEF Laid
<1>2. then = [k \in 1..n |-> IF k = n THEN m + 1 ELSE from[k]]
  OBVIOUS
<1>3. /\ then[n] = m + 1 /\ DOMAIN then = 1..n
      /\ \A k \in 1..(n - 1) : then[k] = from[k]
  BY ONLY <1>1, <1>2
<1>4. then \in [1..(Len(gs) + 1) -> Nat] /\ Len(gs) + 1 = n /\ Len(gs) = n - 1
  <2>1. \A k \in 1..n : (IF k = n THEN m + 1 ELSE from[k]) \in Nat
    BY ONLY <1>1
  <2>2. Len(gs) + 1 = n /\ Len(gs) = n - 1
    BY <1>1
  <2> QED BY ONLY <1>2, <2>1, <2>2
<1>5. ASSUME NEW j \in 1..n, NEW k \in 1..n, j < k PROVE then[j] < then[k]
  <2>1. j \in 1..(n - 1) /\ j \in 1..(n + 1) /\ j < n + 1 /\ (k = n \/ k \in 1..(n - 1))
        /\ n + 1 \in 1..(n + 1)
    BY ONLY <1>1, <1>5
  <2>2. from[j] < m + 1
    BY ONLY <1>1, <2>1
  <2>3. k \in 1..(n - 1) => from[j] < from[k]
    BY ONLY <1>1, <1>5, <2>1
  <2> QED BY ONLY <1>3, <2>1, <2>2, <2>3
<1> PICK a, b : a = from[n - 1] /\ b = from[n]
  OBVIOUS
<1>6. /\ a \in Nat /\ b \in Nat /\ a < b /\ b <= m /\ 1 <= a /\ n - 1 \in 1..n /\ n \in 1..n
      /\ FactorIs(outer, maps, a, b - 1) /\ FactorIs(done, maps, b, m)
  <2>1. n - 1 \in 1..n /\ n \in 1..n /\ n - 1 \in 1..(n + 1) /\ n \in 1..(n + 1) /\ n - 1 < n
        /\ (n - 1) + 1 = n
    BY ONLY <1>1
  <2>2. a \in Nat /\ b \in Nat /\ a < b
    BY ONLY <1>1, <2>1, a = from[n - 1], b = from[n]
  <2>3. 1 <= a /\ b <= m
    <3>1. 1 <= from[n - 1]
      BY <2>1, Where
    <3>2. from[n] \in 1..Len(maps)
      BY <2>1, Where
    <3> QED BY <3>1, <3>2
  <2>4. FactorIs(outer, maps, a, b - 1)
    BY <1>1, <2>1
  <2>5. FactorIs(done, maps, b, m)
    <3>1. from[n + 1] - 1 = m
      BY ONLY <1>1
    <3>2. FactorIs(fs[n], maps, from[n], from[n + 1] - 1)
      BY ONLY <1>1, <2>1
    <3>3. fs[n] = done
      OBVIOUS
    <3> QED BY ONLY <3>1, <3>2, <3>3, b = from[n]
  <2> QED BY <2>1, <2>2, <2>3, <2>4, <2>5
<1>7. FactorIs(g, maps, a, m)
  <2> PICK s, t, u, v : /\ s = outer.subprocesses_variables /\ t = done.subprocesses_variables
                        /\ u = g.subprocesses_variables /\ v = done.variables
    OBVIOUS
  <2>1. /\ s \in Seq(NameBags) /\ Len(s) = (b - 1) - a
        /\ \A j \in 1..((b - 1) - a) : s[j] = maps[a + j]
    BY <1>6 DEF FactorIs
  <2>2. /\ t \in Seq(NameBags) /\ Len(t) = m - b /\ v = maps[b]
        /\ \A j \in 1..(m - b) : t[j] = maps[b + j]
    BY <1>6 DEF FactorIs
  <2>3. v \in NameBags
    <3>1. b \in 1..Len(maps)
      BY <1>1, <1>6
    <3> QED BY <1>1, <2>2, <3>1
  <2>4. u = Append(s, v) \o t
    OBVIOUS
  <2>5. /\ u \in Seq(NameBags) /\ Len(u) = Len(s) + 1 + Len(t)
        /\ \A k \in 1..Len(s) : u[k] = s[k]
        /\ u[Len(s) + 1] = v
        /\ \A k \in 1..Len(t) : u[Len(s) + 1 + k] = t[k]
    <3> PICK S : S = NameBags
      OBVIOUS
    <3>1. s \in Seq(S) /\ t \in Seq(S) /\ v \in S
      BY <2>1, <2>2, <2>3
    <3>2. /\ Append(s, v) \o t \in Seq(S) /\ Len(Append(s, v) \o t) = Len(s) + 1 + Len(t)
          /\ \A k \in 1..Len(s) : (Append(s, v) \o t)[k] = s[k]
          /\ (Append(s, v) \o t)[Len(s) + 1] = v
          /\ \A k \in 1..Len(t) : (Append(s, v) \o t)[Len(s) + 1 + k] = t[k]
      BY ONLY <3>1, BetweenIs
    <3> QED BY ONLY S = NameBags, <2>4, <3>2
  <2> PICK c, d : c = Len(s) /\ d = Len(t)
    OBVIOUS
  <2>6. c = (b - 1) - a /\ d = m - b /\ c \in Nat /\ d \in Nat /\ c + 1 = b - a
        /\ Len(u) = m - a
    BY ONLY <1>1, <1>6, <2>1, <2>2, <2>5, c = Len(s), d = Len(t)
  <2>7. ASSUME NEW j \in 1..(m - a) PROVE u[j] = maps[a + j]
    <3>1. CASE j \in 1..c
      <4>1. u[j] = s[j] /\ s[j] = maps[a + j]
        BY ONLY <2>1, <2>5, <2>6, <3>1, c = Len(s)
      <4> QED BY <4>1
    <3>2. CASE j = c + 1
      <4>1. a + j = b
        BY ONLY <1>6, <2>6, <3>2
      <4>2. u[j] = v
        BY ONLY <2>5, <3>2, c = Len(s)
      <4> QED BY <2>2, <4>1, <4>2
    <3>3. CASE j > c + 1
      <4> PICK i : i = j - (c + 1)
        OBVIOUS
      <4>1. i \in 1..d /\ c + 1 + i = j /\ b + i = a + j
        BY ONLY <1>1, <1>6, <2>6, <3>3, j \in 1..(m - a), i = j - (c + 1)
      <4>2. u[c + 1 + i] = t[i]
        BY ONLY <2>5, <4>1, c = Len(s), d = Len(t)
      <4>3. t[i] = maps[b + i]
        BY ONLY <2>2, <2>6, <4>1
      <4> QED BY <4>1, <4>2, <4>3
    <3>4. j \in 1..c \/ j = c + 1 \/ j > c + 1
      BY ONLY <2>6, j \in 1..(m - a), <1>1, <1>6
    <3> QED BY <3>1, <3>2, <3>3, <3>4
  <2>8. g.variables = maps[a]
    BY <1>6 DEF FactorIs
  <2> QED BY <2>5, <2>6, <2>7, <2>8 DEF FactorIs
<1>8. ASSUME NEW k \in 1..Len(gs) PROVE FactorIs(gs[k], maps, then[k], then[k + 1] - 1)
  <2>1. k = n - 1 \/ k \in 1..(n - 2)
    BY ONLY <1>1, <1>4, k \in 1..Len(gs)
  <2>2. CASE k = n - 1
    <3>1. then[k] = a /\ then[k + 1] - 1 = m
      <4>1. k \in 1..(n - 1) /\ k + 1 = n
        BY ONLY <1>1, <2>2
      <4>2. then[k] = from[n - 1] /\ then[k + 1] = m + 1
        BY ONLY <1>3, <2>2, <4>1
      <4> QED BY ONLY <1>1, <4>2, a = from[n - 1]
    <3>2. gs[k] = g
      BY <2>2
    <3> QED BY ONLY <1>7, <3>1, <3>2
  <2>3. CASE k \in 1..(n - 2)
    <3>1. k \in 1..(n - 1) /\ k + 1 \in 1..(n - 1) /\ k \in 1..n
      BY ONLY <1>1, <2>3
    <3>2. then[k] = from[k] /\ then[k + 1] = from[k + 1]
      BY ONLY <1>3, <3>1
    <3>3. gs[k] = fs[k]
      BY <2>3
    <3>4. FactorIs(fs[k], maps, from[k], from[k + 1] - 1)
      BY ONLY <1>1, <3>1
    <3> QED BY ONLY <3>2, <3>3, <3>4
  <2> QED BY <2>1, <2>2, <2>3
<1>9. then[1] = 1 /\ then[Len(gs) + 1] = Len(maps) + 1
  <2>1. 1 \in 1..(n - 1)
    BY ONLY <1>1
  <2> QED BY ONLY <1>1, <1>3, <1>4, <2>1, m = Len(maps)
<1>10. \A j, k \in 1..(Len(gs) + 1) : j < k => then[j] < then[k]
  BY <1>4, <1>5
<1>11. maps \in Seq(NameBags)
  BY <1>1
<1> QED BY <1>4, <1>8, <1>9, <1>10, <1>11 DEF Laid

\* No scenario yet.
LEMMA LaidNone ==
    ASSUME NEW maps, maps = <<>>, NEW from, from = [k \in 1..1 |-> 1],
           NEW fs, fs = <<>>
    PROVE  Laid(fs, maps, from)
<1>1. Len(fs) = 0 /\ Len(maps) = 0 /\ fs \in Seq(Range(fs)) /\ maps \in Seq(NameBags)
  OBVIOUS
<1>2. 1..(0 + 1) = 1..1 /\ 1..0 = {} /\ \A k \in 1..1 : k = 1
  OBVIOUS
<1>3. from \in [1..1 -> Nat] /\ from[1] = 1
  BY <1>2
<1> QED BY <1>1, <1>2, <1>3 DEF Laid

-----------------------------------------------------------------------------
\* The copies of a name in all maps.
CopiesOver(maps, w) == SumOver([i \in 1..Len(maps) |-> Copies(w, maps[i])], 1..Len(maps))

\* Its copies in one of them.
LEMMA CopiesNat == ASSUME NEW B, B \in NameBags, NEW w PROVE Copies(w, B) \in Nat
<1>1. B \in [DOMAIN B -> Nat]
  BY NameBagIs
<1> QED BY <1>1 DEF Copies, BagIn, BagToSet

\* Its copies in all of them.
LEMMA CopiesOverNat ==
    ASSUME NEW maps, maps \in Seq(NameBags), NEW w PROVE CopiesOver(maps, w) \in Nat
<1> PICK n : n = Len(maps)
  OBVIOUS
<1> PICK f : f = [i \in 1..Len(maps) |-> Copies(w, maps[i])]
  OBVIOUS
<1>1. n \in Nat /\ \A i \in 1..n : maps[i] \in NameBags
  OBVIOUS
<1>2. \A i \in 1..n : f[i] \in Nat
  BY <1>1, CopiesNat
<1>3. 1 \in Int /\ n \in Int
  BY <1>1
<1>4. IsFiniteSet(1..n)
  BY <1>3, FS_Interval
<1>5. SumOver(f, 1..n) \in Nat
  BY <1>2, <1>4, ItemsFinite
<1> QED BY <1>5 DEF CopiesOver

\* There is no map yet.
LEMMA CopiesOverNone == ASSUME NEW w, NEW maps, maps = <<>> PROVE CopiesOver(maps, w) = 0
<1>1. 1..Len(maps) = {}
  OBVIOUS
<1> QED BY <1>1, SumOfNone DEF CopiesOver

\* One of them is changed.
OnlyAt(i, maps, new) ==
    Len(new) = Len(maps) /\ \A k \in 1..Len(maps) : k # i => new[k] = maps[k]

\* The number changes as that of the one map.
LEMMA CopiesChanged ==
    ASSUME NEW maps \in Seq(NameBags), NEW new \in Seq(NameBags), NEW i \in 1..Len(maps),
           OnlyAt(i, maps, new), NEW w
    PROVE  /\ CopiesOver(new, w) + Copies(w, maps[i]) = CopiesOver(maps, w) + Copies(w, new[i])
           /\ CopiesOver(new, w) \in Nat /\ CopiesOver(maps, w) \in Nat /\ Copies(w, maps[i]) \in Nat
<1> PICK n : n = Len(maps)
  OBVIOUS
<1> PICK S : S = 1..n
  OBVIOUS
<1> PICK R : R = S \ {i}
  OBVIOUS
<1> PICK f : f = [k \in 1..Len(maps) |-> Copies(w, maps[k])]
  OBVIOUS
<1> PICK g : g = [k \in 1..Len(new) |-> Copies(w, new[k])]
  OBVIOUS
<1>1. n \in Nat /\ Len(new) = n /\ (\A k \in R : new[k] = maps[k]) /\ i \in S
  BY DEF OnlyAt
<1>2. IsFiniteSet(S) /\ IsFiniteSet(R)
  <2>1. 1 \in Int /\ n \in Int
    BY <1>1
  <2>2. IsFiniteSet(S)
    BY <2>1, FS_Interval
  <2> QED BY <2>2, FS_Subset
<1>3. \A k \in S : f[k] = Copies(w, maps[k]) /\ f[k] \in Nat
  <2>1. \A k \in S : maps[k] \in NameBags
    OBVIOUS
  <2> QED BY <2>1, CopiesNat
<1>4. \A k \in S : g[k] = Copies(w, new[k]) /\ g[k] \in Nat
  <2>1. \A k \in S : new[k] \in NameBags
    BY <1>1
  <2> QED BY <1>1, <2>1, CopiesNat
<1>5. \A k \in R : g[k] = f[k]
  BY <1>1, <1>3, <1>4
<1>6. SumOver(f, S) = f[i] + SumOver(f, R)
  <2>1. i \in S /\ \A k \in S : f[k] \in Nat
    BY <1>1, <1>3
  <2>2. SumOver(f, S) = f[i] + SumOver(f, S \ {i})
    BY ONLY <1>2, <2>1, SumStep
  <2> QED BY ONLY <2>2, R = S \ {i}
<1>7. SumOver(g, S) = g[i] + SumOver(g, R)
  <2>1. i \in S /\ \A k \in S : g[k] \in Nat
    BY <1>1, <1>4
  <2>2. SumOver(g, S) = g[i] + SumOver(g, S \ {i})
    BY ONLY <1>2, <2>1, SumStep
  <2> QED BY ONLY <2>2, R = S \ {i}
<1>8. SumOver(g, R) = SumOver(f, R)
  BY ONLY <1>5, SumSame
<1>9. SumOver(f, R) \in Nat /\ SumOver(f, S) \in Nat /\ SumOver(g, S) \in Nat
  BY <1>2, <1>3, <1>4, ItemsFinite
<1> PICK a, b, c : a = f[i] /\ b = SumOver(f, R) /\ c = g[i]
  OBVIOUS
<1>10. SumOver(f, S) = a + b /\ SumOver(g, S) = c + b
  BY <1>6, <1>7, <1>8
<1>11. a \in Nat /\ b \in Nat /\ c \in Nat
  BY <1>1, <1>3, <1>4, <1>9
<1>12. (c + b) + a = (a + b) + c
  BY ONLY <1>11
<1>13. CopiesOver(maps, w) = SumOver(f, S) /\ CopiesOver(new, w) = SumOver(g, S)
  BY <1>1 DEF CopiesOver
<1>14. a = Copies(w, maps[i]) /\ c = Copies(w, new[i])
  BY <1>1, <1>3, <1>4
<1> QED BY <1>9, <1>10, <1>11, <1>12, <1>13, <1>14

\* A map is added in which nothing is counted yet.
LEMMA CopiesPushed ==
    ASSUME NEW maps \in Seq(NameBags), NEW w, NEW B, B \in NameBags, Copies(w, B) = 0,
           NEW new, new = Append(maps, B)
    PROVE  CopiesOver(new, w) = CopiesOver(maps, w)
<1> PICK n : n = Len(maps)
  OBVIOUS
<1> PICK f : f = [k \in 1..Len(maps) |-> Copies(w, maps[k])]
  OBVIOUS
<1> PICK g : g = [k \in 1..Len(new) |-> Copies(w, new[k])]
  OBVIOUS
<1>1. /\ n \in Nat /\ Len(new) = n + 1 /\ new[n + 1] = B
      /\ \A k \in 1..n : new[k] = maps[k] /\ maps[k] \in NameBags
  OBVIOUS
<1>2. (\A k \in 1..n : f[k] \in Nat /\ g[k] = f[k]) /\ g[n + 1] = 0
  BY <1>1, CopiesNat
<1>3. \A k \in 1..(n + 1) : g[k] \in Nat
  <2>1. \A k \in 1..(n + 1) : k = n + 1 \/ k \in 1..n
    BY ONLY <1>1
  <2> QED BY ONLY <1>2, <2>1
<1>4. SumOver(g, 1..(n + 1)) = SumOver(g, 1..n) + g[n + 1] /\ SumOver(g, 1..n) \in Nat
  BY <1>1, <1>3, NextTerm
<1>5. SumOver(g, 1..n) = SumOver(f, 1..n)
  BY <1>2, SumSame
<1> PICK a, b : a = SumOver(g, 1..n) /\ b = SumOver(g, 1..(n + 1))
  OBVIOUS
<1>6. b = a + g[n + 1] /\ a \in Nat /\ g[n + 1] = 0
  BY <1>2, <1>4
<1>8. b = a
  BY ONLY <1>6
<1>7. CopiesOver(maps, w) = SumOver(f, 1..n) /\ CopiesOver(new, w) = SumOver(g, 1..(n + 1))
  BY <1>1 DEF CopiesOver
<1> QED BY <1>5, <1>7, <1>8

\* What HalsteadVisitor does to the names of its factors.
LEMMA CountedNames ==
    ASSUME NEW f, "variables" \in DOMAIN f, "subprocesses_variables" \in DOMAIN f,
           f.variables \in NameBags, NEW ops, NEW names \in Seq(AllNames), NEW expressions,
           NEW g, g = Counted(f, ops, names, expressions)
    PROVE  /\ "variables" \in DOMAIN g /\ "subprocesses_variables" \in DOMAIN g
           /\ g.subprocesses_variables = f.subprocesses_variables
           /\ g.variables = f.variables (+) ToBag(names)
           /\ g.variables \in NameBags
           /\ DOMAIN g.variables = DOMAIN f.variables \cup Range(names)
           /\ names = <<>> => g.variables = f.variables
           /\ \A w : /\ Copies(w, g.variables) = Copies(w, f.variables) + Copies(w, ToBag(names))
                     /\ Copies(w, ToBag(names)) \in Nat
<1>1. /\ DOMAIN g = DOMAIN f /\ g.variables = f.variables (+) ToBag(names)
      /\ g.subprocesses_variables = f.subprocesses_variables
  BY DEF Counted
<1> PICK B, C : B = f.variables /\ C = g.variables
  OBVIOUS
<1>2. C = B (+) ToBag(names) /\ B \in NameBags
  BY <1>1
<1>3. /\ C \in NameBags /\ DOMAIN C = DOMAIN B \cup Range(names)
      /\ names = <<>> => C = B
      /\ \A w : Copies(w, C) = Copies(w, B) + Copies(w, ToBag(names))
      /\ \A w : Copies(w, B) \in Nat /\ Copies(w, ToBag(names)) \in Nat
  <2>1. /\ B (+) ToBag(names) \in NameBags
        /\ DOMAIN (B (+) ToBag(names)) = DOMAIN B \cup Range(names)
        /\ names = <<>> => B (+) ToBag(names) = B
        /\ \A w : Copies(w, B (+) ToBag(names)) = Copies(w, B) + Copies(w, ToBag(names))
        /\ \A w : Copies(w, B) \in Nat /\ Copies(w, ToBag(names)) \in Nat
    BY ONLY <1>2, names \in Seq(AllNames), BagGrows
  <2> QED BY <1>2, <2>1
<1> QED BY <1>1, <1>3

-----------------------------------------------------------------------------
(* The maps of all scenarios that have been entered, in the order of their *)
(* entering, and what has been named in them.                              *)

\* What f has gone past has been named.
NamesPast(f, m) == \A l \in 1..f.loop : \A x \in Past(f, l) : Name(x) \in DOMAIN m

\* In the map of who[i] are names of its objects only, and all of them when the
\* scenario is no longer being visited.
Named(st, maps, from, who) ==
    /\ Len(who) = Len(maps)
    /\ \A i \in 1..Len(maps) : ObjectNames(maps[i]) \subseteq NamesIn(who[i])
    /\ \A i \in 1..Len(maps) :
          (\A k \in 1..Len(st) : i # from[k]) => NamesIn(who[i]) \subseteq DOMAIN maps[i]
    /\ \A k \in 1..Len(st) :
          who[from[k]] = st[k].scenar /\ NamesPast(st[k], maps[from[k]])

\* The maps together have a name as often as the text.
Tallied(maps, text) == \A w \in AllNames : Copies(w, text) = CopiesOver(maps, w)

Told(fs, st, text, maps, from, who) ==
    Laid(fs, maps, from) /\ Named(st, maps, from, who) /\ Tallied(maps, text)

\* The innermost scenario counts more names, which are of its objects.
LEMMA NamedChanged ==
    ASSUME NEW fs, NEW maps, NEW from, Laid(fs, maps, from), Len(fs) >= 1,
           NEW st, Len(st) = Len(fs), NEW who, Named(st, maps, from, who),
           NEW B, DOMAIN maps[from[Len(fs)]] \subseteq DOMAIN B,
           ObjectNames(B) \subseteq NamesIn(who[from[Len(fs)]])
    PROVE  Named(st, [maps EXCEPT ![from[Len(fs)]] = B], from, who)
<1> PICK n, a : n = Len(fs) /\ a = from[n]
  OBVIOUS
<1> PICK new : new = [maps EXCEPT ![a] = B]
  OBVIOUS
<1>1. n \in 1..Len(fs)
  BY DEF Laid
<1>2. a \in 1..Len(maps) /\ Len(maps) \in Nat
  BY <1>1, Where
<1>3. maps \in Seq(NameBags)
  BY DEF Laid
<1>4. /\ Len(new) = Len(maps) /\ new[a] = B
      /\ \A i \in 1..Len(maps) : i # a => new[i] = maps[i]
  BY <1>2, <1>3
<1>5. \A i \in 1..Len(maps) : DOMAIN maps[i] \subseteq DOMAIN new[i]
  BY <1>4
<1>6. Len(who) = Len(new)
  BY <1>4 DEF Named
<1>7. \A i \in 1..Len(new) : ObjectNames(new[i]) \subseteq NamesIn(who[i])
  <2> TAKE i \in 1..Len(new)
  <2>1. CASE i = a
    BY <1>4, <2>1
  <2>2. CASE i # a
    BY <1>4, <2>2 DEF Named
  <2> QED BY <2>1, <2>2
<1>8. ASSUME NEW i \in 1..Len(new), \A k \in 1..Len(st) : i # from[k]
      PROVE  NamesIn(who[i]) \subseteq DOMAIN new[i]
  <2>1. NamesIn(who[i]) \subseteq DOMAIN maps[i]
    BY <1>4, <1>8 DEF Named
  <2> QED BY <1>4, <1>5, <2>1
<1>9. ASSUME NEW k \in 1..Len(st)
      PROVE  who[from[k]] = st[k].scenar /\ NamesPast(st[k], new[from[k]])
  <2>1. who[from[k]] = st[k].scenar /\ NamesPast(st[k], maps[from[k]])
    BY DEF Named
  <2>2. from[k] \in 1..Len(maps)
    BY Where
  <2>3. DOMAIN maps[from[k]] \subseteq DOMAIN new[from[k]]
    BY <1>5, <2>2
  <2> QED BY <2>1, <2>3 DEF NamesPast
<1>10. Named(st, new, from, who)
  BY <1>6, <1>7, <1>8, <1>9 DEF Named
<1> QED BY <1>10

\* The innermost scenario is visited further.
LEMMA NamedTurned ==
    ASSUME NEW maps, NEW from, NEW who, NEW st, Named(st, maps, from, who),
           NEW n, n = Len(st), NEW rt, Len(rt) = n,
           \A k \in 1..n : k # n => rt[k] = st[k],
           rt[n].scenar = st[n].scenar, NamesPast(rt[n], maps[from[n]])
    PROVE  Named(rt, maps, from, who)
<1>1. ASSUME NEW k \in 1..Len(rt)
      PROVE  who[from[k]] = rt[k].scenar /\ NamesPast(rt[k], maps[from[k]])
  <2>1. who[from[k]] = st[k].scenar /\ NamesPast(st[k], maps[from[k]])
    BY DEF Named
  <2>2. CASE k = n
    BY <2>1, <2>2
  <2>3. CASE k # n
    BY <2>1, <2>3
  <2> QED BY <2>2, <2>3
<1> QED BY <1>1 DEF Named

\* A scenario is entered.
LEMMA NamedPushed ==
    ASSUME NEW fs, NEW maps, NEW from, Laid(fs, maps, from),
           NEW S, NEW st \in Seq(S), Len(st) = Len(fs), NEW who \in Seq(AllScenarios),
           Named(st, maps, from, who), NEW B, B \in NameBags, ObjectNames(B) = {},
           NEW e \in S, \A l \in 1..e.loop : Past(e, l) = {}, e.scenar \in AllScenarios,
           NEW then, then = [k \in 1..(Len(fs) + 2) |->
                                IF k = Len(fs) + 2 THEN Len(maps) + 2 ELSE from[k]]
    PROVE  Named(Append(st, e), Append(maps, B), then, Append(who, e.scenar))
<1> PICK n, m, p : n = Len(fs) /\ m = Len(maps) /\ p = e.scenar
  OBVIOUS
<1> PICK rt, new, whom : rt = Append(st, e) /\ new = Append(maps, B) /\ whom = Append(who, p)
  OBVIOUS
<1>1. n \in Nat /\ m \in Nat /\ maps \in Seq(NameBags) /\ from[n + 1] = m + 1
  BY DEF Laid
<1>2. Len(who) = m
  BY DEF Named
<1>3. /\ Len(new) = m + 1 /\ new[m + 1] = B
      /\ \A i \in 1..m : new[i] = maps[i]
  BY <1>1
<1>4. /\ Len(whom) = m + 1 /\ whom[m + 1] = p
      /\ \A i \in 1..m : whom[i] = who[i]
  BY <1>2
<1>5. /\ Len(rt) = n + 1 /\ rt[n + 1] = e
      /\ \A k \in 1..n : rt[k] = st[k]
  BY <1>1
<1>6. /\ then[n + 1] = m + 1
      /\ \A k \in 1..n : then[k] = from[k]
  <2>1. n + 1 \in 1..(n + 2) /\ n + 1 # n + 2 /\ \A k \in 1..n : k \in 1..(n + 2) /\ k # n + 2
    BY <1>1
  <2> QED BY <1>1, <2>1
<1>7. /\ \A i \in 1..(m + 1) : i = m + 1 \/ i \in 1..m
      /\ \A i \in 1..m : i # m + 1
  BY <1>1
<1>8. /\ \A k \in 1..(n + 1) : k = n + 1 \/ k \in 1..n
      /\ n + 1 \in 1..(n + 1) /\ \A k \in 1..n : k \in 1..(n + 1)
  <2>1. n \in Nat
    BY <1>1
  <2>2. \A k \in 1..(n + 1) : k = n + 1 \/ k \in 1..n
    BY ONLY <2>1
  <2>3. n + 1 \in 1..(n + 1)
    BY ONLY <2>1
  <2>4. \A k \in 1..n : k \in 1..(n + 1)
    BY ONLY <2>1
  <2> QED BY ONLY <2>2, <2>3, <2>4
<1>9. \A i \in 1..Len(new) : ObjectNames(new[i]) \subseteq NamesIn(whom[i])
  BY <1>3, <1>4, <1>7 DEF Named
<1>10. ASSUME NEW i \in 1..Len(new), \A k \in 1..Len(rt) : i # then[k]
       PROVE  NamesIn(whom[i]) \subseteq DOMAIN new[i]
  <2>1. i # m + 1 /\ \A k \in 1..n : i # from[k]
    BY <1>5, <1>6, <1>8, <1>10
  <2>2. i \in 1..m
    BY <1>3, <1>7, <2>1
  <2>3. NamesIn(who[i]) \subseteq DOMAIN maps[i]
    BY <2>1, <2>2 DEF Named
  <2> QED BY <1>3, <1>4, <2>2, <2>3
<1>11. ASSUME NEW k \in 1..Len(rt)
       PROVE  whom[then[k]] = rt[k].scenar /\ NamesPast(rt[k], new[then[k]])
  <2>1. CASE k = n + 1
    BY <1>4, <1>5, <1>6, <2>1 DEF NamesPast
  <2>2. CASE k \in 1..n
    <3>1. who[from[k]] = st[k].scenar /\ NamesPast(st[k], maps[from[k]])
      BY <2>2 DEF Named
    <3>2. from[k] \in 1..m
      BY <2>2, Where
    <3> QED BY <1>3, <1>4, <1>5, <1>6, <2>2, <3>1, <3>2
  <2> QED BY <1>5, <1>8, <2>1, <2>2
<1>12. Named(rt, new, then, whom)
  BY <1>3, <1>4, <1>9, <1>10, <1>11 DEF Named
<1> QED BY <1>12

\* A scenario is over, and all of its objects have been named.
LEMMA NamedPopped ==
    ASSUME NEW fs, NEW maps, NEW from, Laid(fs, maps, from), Len(fs) >= 1,
           NEW st, Len(st) = Len(fs), NEW who, Named(st, maps, from, who),
           NamesIn(st[Len(st)].scenar) \subseteq DOMAIN maps[from[Len(fs)]],
           NEW rt, Len(rt) = Len(st) - 1, \A k \in 1..(Len(st) - 1) : rt[k] = st[k],
           NEW then, \A k \in 1..(Len(st) - 1) : then[k] = from[k]
    PROVE  Named(rt, maps, then, who)
<1> PICK n : n = Len(st)
  OBVIOUS
<1>1. n \in Nat /\ n >= 1
  BY DEF Laid
<1>2. /\ \A k \in 1..n : k = n \/ k \in 1..(n - 1)
      /\ n \in 1..n /\ \A k \in 1..(n - 1) : k \in 1..n
  BY <1>1
<1>3. ASSUME NEW i \in 1..Len(maps), \A k \in 1..Len(rt) : i # then[k]
      PROVE  NamesIn(who[i]) \subseteq DOMAIN maps[i]
  <2>1. CASE i = from[n]
    <3>1. who[i] = st[n].scenar
      BY <1>2, <2>1 DEF Named
    <3> QED BY <2>1, <3>1
  <2>2. CASE i # from[n]
    <3>1. \A k \in 1..n : i # from[k]
      BY <1>2, <1>3, <2>2
    <3> QED BY <3>1 DEF Named
  <2> QED BY <2>1, <2>2
<1>4. ASSUME NEW k \in 1..Len(rt)
      PROVE  who[then[k]] = rt[k].scenar /\ NamesPast(rt[k], maps[then[k]])
  <2>1. k \in 1..Len(st) /\ rt[k] = st[k] /\ then[k] = from[k]
    BY <1>2
  <2> QED BY <2>1 DEF Named
<1> QED BY <1>3, <1>4 DEF Named

\* Names are counted for an object, and written as often.
Wrote(text, more, names) ==
    \A w \in AllNames : Copies(w, more) = Copies(w, text) + Copies(w, ToBag(names))

\* A name is in the text a number of times.
LEMMA TextNat ==
    ASSUME NEW fs, NEW st, NEW text, NEW maps, NEW from, NEW who,
           Told(fs, st, text, maps, from, who), NEW w \in AllNames
    PROVE  Copies(w, text) \in Nat
<1>1. maps \in Seq(NameBags) /\ Tallied(maps, text)
  BY DEF Told, Laid
<1>2. CopiesOver(maps, w) \in Nat
  BY <1>1, CopiesOverNat
<1> QED BY <1>1, <1>2 DEF Tallied

\* The map has more names, and the text as many.
LEMMA TalliedChanged ==
    ASSUME NEW maps \in Seq(NameBags), NEW text, Tallied(maps, text),
           NEW i \in 1..Len(maps), NEW B, B \in NameBags, NEW names \in Seq(AllNames),
           \A w : /\ Copies(w, B) = Copies(w, maps[i]) + Copies(w, ToBag(names))
                  /\ Copies(w, ToBag(names)) \in Nat,
           NEW more, Wrote(text, more, names)
    PROVE  Tallied([maps EXCEPT ![i] = B], more)
<1> PICK new : new = [maps EXCEPT ![i] = B]
  OBVIOUS
<1>1. ASSUME NEW w \in AllNames PROVE Copies(w, more) = CopiesOver(new, w)
  <2> PICK extra : extra = Copies(w, ToBag(names))
    OBVIOUS
  <2>1. extra \in Nat /\ Copies(w, B) = Copies(w, maps[i]) + extra
    OBVIOUS
  <2>2. CopiesOver(new, w) = CopiesOver(maps, w) + extra /\ CopiesOver(maps, w) \in Nat
    <3> PICK a, b, c : a = Copies(w, maps[i]) /\ b = CopiesOver(maps, w) /\ c = CopiesOver(new, w)
      OBVIOUS
    <3>1. new \in Seq(NameBags) /\ new[i] = B /\ OnlyAt(i, maps, new)
      BY DEF OnlyAt
    <3>2. /\ CopiesOver(new, w) + Copies(w, maps[i]) = CopiesOver(maps, w) + Copies(w, new[i])
          /\ CopiesOver(new, w) \in Nat /\ CopiesOver(maps, w) \in Nat /\ Copies(w, maps[i]) \in Nat
      BY ONLY <3>1, maps \in Seq(NameBags), i \in 1..Len(maps), CopiesChanged
    <3>3. c + a = b + (a + extra) /\ a \in Nat /\ b \in Nat /\ c \in Nat
      BY ONLY <2>1, <3>1, <3>2, a = Copies(w, maps[i]), b = CopiesOver(maps, w),
              c = CopiesOver(new, w)
    <3>4. c = b + extra
      BY ONLY <2>1, <3>3
    <3> QED BY <3>3, <3>4
  <2>3. Copies(w, text) = CopiesOver(maps, w) /\ Copies(w, more) = Copies(w, text) + extra
    BY DEF Tallied, Wrote
  <2> QED BY <2>2, <2>3
<1> QED BY <1>1 DEF Tallied

\* The names of objects in a map that has more names.
LEMMA ObjectNamesGrow ==
    ASSUME NEW B, NEW C, NEW R, DOMAIN C = DOMAIN B \cup R, NEW S,
           ObjectNames(B) \subseteq S, \A w \in R : w[1] = "Scenario" \/ w \in S
    PROVE  ObjectNames(C) \subseteq S
BY DEF ObjectNames

\* The last of fs has counted more, and is the last of gs.
Recounted(fs, gs, ops, names, expressions) ==
    /\ gs \in Seq(Range(gs)) /\ Len(gs) = Len(fs)
    /\ gs[Len(fs)] = Counted(fs[Len(fs)], ops, names, expressions)
    /\ \A k \in 1..(Len(fs) - 1) : gs[k] = fs[k]

\* The last element, counted anew.
LEMMA RecountedIs ==
    ASSUME NEW fs, fs \in Seq(Range(fs)), Len(fs) >= 1, NEW ops, NEW names, NEW expressions,
           NEW f, f = Counted(fs[Len(fs)], ops, names, expressions),
           NEW gs, gs = [fs EXCEPT ![Len(fs)] = f]
    PROVE  Recounted(fs, gs, ops, names, expressions)
<1> PICK S : S = Range(fs) \cup {f}
  OBVIOUS
<1>1. fs \in Seq(S) /\ f \in S /\ fs # <<>>
  <2>1. Range(fs) \subseteq S /\ f \in S
    OBVIOUS
  <2>2. fs # <<>>
    OBVIOUS
  <2> QED BY ONLY <2>1, <2>2, fs \in Seq(Range(fs))
<1>2. gs \in Seq(S) /\ Len(gs) = Len(fs) /\ gs[Len(fs)] = f
      /\ \A k \in 1..(Len(fs) - 1) : gs[k] = fs[k]
  BY ONLY <1>1, gs = [fs EXCEPT ![Len(fs)] = f], Replaced
<1>3. gs \in Seq(Range(gs))
  BY ONLY <1>2, OwnRange
<1> QED BY <1>2, <1>3 DEF Recounted

\* New maps, in which the innermost scenario has the names too.
NamesAdded(gs, st, text, maps, from, who, names) ==
    \E new :
       /\ Told(gs, st, text, new, from, who)
       /\ Len(new) = Len(maps)
       /\ DOMAIN new[from[Len(gs)]] = DOMAIN maps[from[Len(gs)]] \cup Range(names)

\* The innermost scenario counts names that are written.
LEMMA NamesCounted ==
    ASSUME NEW fs, NEW st, NEW text, NEW maps, NEW from, NEW who,
           Told(fs, st, text, maps, from, who), Len(fs) >= 1, Len(st) = Len(fs),
           NEW names \in Seq(AllNames), NEW gs, NEW ops, NEW expressions,
           Recounted(fs, gs, ops, names, expressions),
           \A w \in Range(names) : w[1] = "Scenario" \/ w \in NamesIn(who[from[Len(fs)]]),
           NEW more, Wrote(text, more, names)
    PROVE  NamesAdded(gs, st, more, maps, from, who, names)
<1> PICK n, a : n = Len(fs) /\ a = from[n]
  OBVIOUS
<1> PICK last : last = fs[n]
  OBVIOUS
<1> PICK f : f = Counted(last, ops, names, expressions)
  OBVIOUS
<1>1. Laid(fs, maps, from) /\ Named(st, maps, from, who) /\ Tallied(maps, text)
  BY DEF Told
<1>2. n \in 1..Len(fs) /\ fs \in Seq(Range(fs)) /\ maps \in Seq(NameBags)
  BY <1>1 DEF Laid
<1>3. a \in 1..Len(maps)
  BY <1>1, <1>2, Where
<1>4. /\ "variables" \in DOMAIN last /\ "subprocesses_variables" \in DOMAIN last
      /\ last.variables = maps[a]
  BY <1>1, <1>2 DEF Laid, FactorIs
<1>5. last.variables \in NameBags
  BY <1>2, <1>3, <1>4
<1> PICK B : B = f.variables
  OBVIOUS
<1>6. /\ "variables" \in DOMAIN f /\ "subprocesses_variables" \in DOMAIN f
      /\ f.subprocesses_variables = last.subprocesses_variables
      /\ B \in NameBags /\ DOMAIN B = DOMAIN last.variables \cup Range(names)
      /\ \A w : /\ Copies(w, B) = Copies(w, last.variables) + Copies(w, ToBag(names))
                /\ Copies(w, ToBag(names)) \in Nat
  BY <1>4, <1>5, CountedNames
<1> PICK new : new = [maps EXCEPT ![a] = B]
  OBVIOUS
<1>7. /\ gs \in Seq(Range(gs)) /\ Len(gs) = Len(fs) /\ gs[Len(fs)] = f
      /\ \A k \in 1..(Len(fs) - 1) : gs[k] = fs[k]
  BY DEF Recounted
<1>8. Laid(gs, new, from)
  BY <1>1, <1>6, <1>7, LaidChanged
<1>9. Named(st, new, from, who)
  <2>1. ObjectNames(maps[a]) \subseteq NamesIn(who[a])
    BY <1>1, <1>3 DEF Named
  <2>2. ObjectNames(B) \subseteq NamesIn(who[a])
    BY <1>4, <1>6, <2>1, ObjectNamesGrow
  <2>3. DOMAIN maps[a] \subseteq DOMAIN B
    BY <1>4, <1>6
  <2> QED BY <1>1, <2>2, <2>3, NamedChanged
<1>10. Tallied(new, more)
  BY <1>1, <1>2, <1>3, <1>4, <1>6, TalliedChanged
<1>11. Told(gs, st, more, new, from, who)
  BY <1>8, <1>9, <1>10 DEF Told
<1>12. Len(new) = Len(maps) /\ DOMAIN new[a] = DOMAIN maps[a] \cup Range(names)
  BY <1>2, <1>3, <1>4, <1>6
<1> QED BY <1>7, <1>11, <1>12 DEF NamesAdded

\* A scenario is entered: its factors come after the others.
Begun(fs, gs, ops) == gs = Append(fs, Counted(NoFactors, ops, <<>>, 0))
MapsTell(gs, st, text, who) == \E maps, from : Told(gs, st, text, maps, from, who)

\* The map of a scenario entered comes last.
LEMMA NamesPushed ==
    ASSUME NEW fs, NEW S, NEW st \in Seq(S), NEW text, NEW maps, NEW from,
           NEW who \in Seq(AllScenarios),
           Told(fs, st, text, maps, from, who), Len(st) = Len(fs),
           NEW gs, NEW ops, Begun(fs, gs, ops),
           NEW e \in S, \A l \in 1..e.loop : Past(e, l) = {},
           e.scenar \in AllScenarios
    PROVE  MapsTell(gs, Append(st, e), text, Append(who, e.scenar))
<1> PICK f : f = Counted(NoFactors, ops, <<>>, 0)
  OBVIOUS
<1>1. Laid(fs, maps, from) /\ Named(st, maps, from, who) /\ Tallied(maps, text)
  BY DEF Told
<1>2. /\ "variables" \in DOMAIN NoFactors /\ "subprocesses_variables" \in DOMAIN NoFactors
      /\ NoFactors.variables = EmptyBag /\ NoFactors.subprocesses_variables = <<>>
  BY DEF NoFactors
<1>3. EmptyBag \in NameBags /\ DOMAIN EmptyBag = {}
  <2>1. DOMAIN EmptyBag = {} /\ EmptyBag \in [{} -> Nat]
    BY DEF EmptyBag, SetToBag
  <2> QED BY <2>1, NameBagIs
<1>4. /\ "variables" \in DOMAIN f /\ "subprocesses_variables" \in DOMAIN f
      /\ f.variables = EmptyBag /\ f.subprocesses_variables = <<>>
  <2> PICK none, base, zero : none = <<>> /\ base = NoFactors /\ zero = 0
    OBVIOUS
  <2>1. f = Counted(base, ops, none, zero)
    OBVIOUS
  <2>2. none \in Seq(AllNames) /\ base.variables = EmptyBag /\ EmptyBag \in NameBags
        /\ "variables" \in DOMAIN base /\ "subprocesses_variables" \in DOMAIN base
        /\ base.subprocesses_variables = <<>>
    BY <1>2, <1>3
  <2>3. /\ "variables" \in DOMAIN f /\ "subprocesses_variables" \in DOMAIN f
        /\ f.variables = base.variables (+) ToBag(none)
        /\ f.subprocesses_variables = base.subprocesses_variables
    BY <2>1, <2>2 DEF Counted
  <2>4. EmptyBag (+) ToBag(none) = EmptyBag
    BY ONLY <2>2, none = <<>>, BagGrows
  <2> QED BY <2>2, <2>3, <2>4
<1> PICK new : new = Append(maps, f.variables)
  OBVIOUS
<1> PICK then : then = [k \in 1..(Len(fs) + 2) |->
                          IF k = Len(fs) + 2 THEN Len(maps) + 2 ELSE from[k]]
  OBVIOUS
<1>0. gs = Append(fs, f)
  BY DEF Begun
<1>5. f.variables \in NameBags /\ ObjectNames(f.variables) = {}
  BY <1>3, <1>4 DEF ObjectNames
<1>6. Laid(gs, new, then)
  BY <1>0, <1>1, <1>4, <1>5, LaidPushed
<1>7. Named(Append(st, e), new, then, Append(who, e.scenar))
  BY <1>1, <1>5, NamedPushed
<1>8. Tallied(new, text)
  <2>1. maps \in Seq(NameBags)
    BY <1>1 DEF Laid
  <2>2. ASSUME NEW w \in AllNames PROVE Copies(w, text) = CopiesOver(new, w)
    <3>1. Copies(w, f.variables) = 0
      BY <1>4, CopiesOfNone
    <3>2. CopiesOver(new, w) = CopiesOver(maps, w)
      BY <1>5, <2>1, <3>1, CopiesPushed
    <3> QED BY <1>1, <3>2 DEF Tallied
  <2> QED BY <2>2 DEF Tallied
<1>9. Told(gs, Append(st, e), text, new, then, Append(who, e.scenar))
  BY <1>6, <1>7, <1>8 DEF Told
<1> QED BY <1>9 DEF MapsTell

-----------------------------------------------------------------------------
(* The order in which the scenarios were entered, and where the metrics    *)
(* are among them.                                                         *)

\* who are the scenarios entered; one that is being visited, but for the first, is
\* held by the interval that is being visited in the one around it.
InOrder(who) ==
    /\ who \in Seq(AllScenarios) /\ \A i, j \in 1..Len(who) : who[i] = who[j] => i = j
    /\ Entered(Range(who)) /\ \A i \in 1..Len(who) : Reached(who[i])
    /\ score.first \in roots \/ score.first \in Range(who)
    /\ \A k \in 1..(Len(stack) - 1) :
          stack[k].at # Base /\ score.holder[stack[k + 1].scenar] = stack[k].at

NamesTell ==
    visitor = "metrics" =>
        \E maps, from, who : Told(factors, stack, words, maps, from, who) /\ InOrder(who)

\* Nothing is entered.
LEMMA OrderStays ==
    ASSUME WalkTypeOK, NEW who, InOrder(who), UNCHANGED <<score, visitor, roots>>,
           Entered(Range(who))', Len(stack') \in Nat, Len(stack') <= Len(stack),
           \A k \in 1..Len(stack') : stack'[k].scenar = stack[k].scenar,
           \A k \in 1..(Len(stack') - 1) : stack'[k].at = stack[k].at
    PROVE  InOrder(who)'
<1>1. /\ who \in Seq(AllScenarios) /\ \A i, j \in 1..Len(who) : who[i] = who[j] => i = j
      /\ \A i \in 1..Len(who) : Reached(who[i])
      /\ score.first \in roots \/ score.first \in Range(who)
      /\ \A k \in 1..(Len(stack) - 1) :
            stack[k].at # Base /\ score.holder[stack[k + 1].scenar] = stack[k].at
  BY DEF InOrder
<1>2. AllScenarios' = AllScenarios /\ \A p : Reached(p) => Reached(p)'
  BY DEF AllScenarios, Reached, HoldsAll
<1>3. ASSUME NEW k \in 1..(Len(stack') - 1)
      PROVE  stack'[k].at # Base /\ score.holder[stack'[k + 1].scenar] = stack'[k].at
  <2>1. Len(stack) \in Nat
    BY DEF WalkTypeOK
  <2>2. k \in 1..(Len(stack) - 1) /\ k + 1 \in 1..Len(stack')
    BY <2>1
  <2>3. stack[k].at # Base /\ score.holder[stack[k + 1].scenar] = stack[k].at
    BY <1>1, <2>2
  <2>4. stack'[k + 1].scenar = stack[k + 1].scenar /\ stack'[k].at = stack[k].at
    BY <2>2
  <2> QED BY <2>3, <2>4
<1>4. \A i \in 1..Len(who) : Reached(who[i])'
  BY <1>1, <1>2
<1> QED BY <1>1, <1>2, <1>3, <1>4 DEF InOrder

\* A scenario is entered.
LEMMA OrderGrows ==
    ASSUME WalkTypeOK, FramesOK, visitor = "metrics", roots \subseteq {score.first},
           NEW who, InOrder(who), NEW p \in DOMAIN score.kind, Enter(p),
           UNCHANGED <<score, visitor>>
    PROVE  InOrder(Append(who, p))' /\ p \in AllScenarios
<1> PICK whom, m : whom = Append(who, p) /\ m = Len(who)
  OBVIOUS
<1>1. /\ who \in Seq(AllScenarios) /\ \A i, j \in 1..m : who[i] = who[j] => i = j
      /\ Entered(Range(who)) /\ \A i \in 1..m : Reached(who[i])
      /\ score.first \in roots \/ score.first \in Range(who)
      /\ \A k \in 1..(Len(stack) - 1) :
            stack[k].at # Base /\ score.holder[stack[k + 1].scenar] = stack[k].at
  BY DEF InOrder
<1>2. /\ p \in AllScenarios \ Range(who) /\ Entered(Range(who) \cup {p})'
      /\ score.holder[p] = IF Working THEN top.at ELSE Base
  <2>1. visitor # "cpp"
    OBVIOUS
  <2> PICK E : E = Range(who)
    OBVIOUS
  <2>2. Entered(E)
    BY <1>1
  <2>3. p \in AllScenarios \ E /\ Entered(E \cup {p})'
    BY <2>1, <2>2, EnterEnters
  <2>4. score.holder[p] = IF Working THEN top.at ELSE Base
    BY <2>1, <2>2, EnterEnters
  <2> QED BY <2>3, <2>4
<1>3. m \in Nat /\ whom \in Seq(AllScenarios) /\ Len(whom) = m + 1 /\ whom[m + 1] = p
      /\ \A i \in 1..m : whom[i] = who[i]
  BY <1>1, <1>2
<1>4. /\ \A i \in 1..(m + 1) : i = m + 1 \/ i \in 1..m
      /\ m + 1 \in 1..(m + 1) /\ \A i \in 1..m : i \in 1..(m + 1)
  <2>1. m \in Nat
    BY <1>3
  <2>2. \A i \in 1..(m + 1) : i = m + 1 \/ i \in 1..m
    BY ONLY <2>1
  <2>3. m + 1 \in 1..(m + 1)
    BY ONLY <2>1
  <2>4. \A i \in 1..m : i \in 1..(m + 1)
    BY ONLY <2>1
  <2> QED BY ONLY <2>2, <2>3, <2>4
<1>5. Range(whom) = Range(who) \cup {p}
  <2>1. /\ \A y : y \in Range(who) <=> \E i \in 1..m : who[i] = y
        /\ \A y : y \in Range(whom) <=> \E i \in 1..(m + 1) : whom[i] = y
    BY <1>1, <1>3 DEF Range
  <2> QED BY <1>3, <1>4, <2>1
<1>6. ASSUME NEW i \in 1..(m + 1), NEW j \in 1..(m + 1), whom[i] = whom[j] PROVE i = j
  <2>1. \A k \in 1..m : who[k] # p
    BY <1>1, <1>2 DEF Range
  <2> QED BY <1>1, <1>3, <1>4, <1>6, <2>1
<1>7. AllScenarios' = AllScenarios /\ \A q : Reached(q) => Reached(q)'
  BY DEF AllScenarios, Reached, HoldsAll
<1> PICK n \in Nat : n = Len(stack)
  BY DEF WalkTypeOK
<1>8. CASE ~Working
  <2>1. p \in roots /\ stack' = <<Frame(p)>> /\ p = score.first
    BY <1>8 DEF Enter
  <2>2. Len(stack') = 1
    BY <2>1
  <2>3. Reached(p)
    BY <2>1 DEF Reached, HoldsAll
  <2>4. \A i \in 1..(m + 1) : Reached(whom[i])
    BY <1>1, <1>3, <1>4, <2>3
  <2>5. score'.first \in Range(whom)
    BY <1>5, <2>1
  <2>6. \A k \in 1..(Len(stack') - 1) :
           stack'[k].at # Base /\ score'.holder[stack'[k + 1].scenar] = stack'[k].at
    BY <2>2
  <2> QED BY <1>2, <1>3, <1>5, <1>6, <1>7, <2>4, <2>5, <2>6 DEF InOrder
<1>9. CASE Working
  <2> PICK t : t = top
    OBVIOUS
  <2>1. /\ stack \in Seq(Frames) /\ stack # <<>> /\ n >= 1 /\ t \in Frames /\ FrameOK(t)
        /\ t = stack[n]
    BY <1>9, TopOK DEF top, Working
  <2> PICK e : e = [t EXCEPT !.held = @ \ {p}]
    OBVIOUS
  <2>2. e \in Frames /\ e.at = t.at /\ e.scenar = t.scenar
    BY <2>1 DEF Frames
  <2> PICK f : f = Frame(p)
    OBVIOUS
  <2>3. f \in Frames /\ f.scenar = p
    BY EnteredOK DEF Frame
  <2> PICK r : r = [stack EXCEPT ![Len(stack)] = e]
    OBVIOUS
  <2>4. stack' = Append(r, f) /\ p \in t.held /\ roots' = roots
    BY <1>9 DEF Enter, top
  <2>5. /\ r \in Seq(Frames) /\ Len(r) = n /\ r[n] = e
        /\ \A k \in 1..(n - 1) : r[k] = stack[k]
    BY ONLY <2>1, <2>2, r = [stack EXCEPT ![Len(stack)] = e], n = Len(stack), Replaced
  <2>6. /\ Len(stack') = n + 1 /\ stack'[n + 1] = f
        /\ \A k \in 1..n : stack'[k] = r[k]
    BY ONLY <2>3, <2>4, <2>5, Pushed
  <2>7. \A k \in 1..n : stack'[k].at = stack[k].at /\ stack'[k].scenar = stack[k].scenar
    <3> TAKE k \in 1..n
    <3>1. k = n \/ k \in 1..(n - 1)
      OBVIOUS
    <3> QED BY <2>1, <2>2, <2>5, <2>6, <3>1
  <2>8. t.at # Base /\ score.holder[p] = t.at
    BY <1>2, <1>9, <2>1, <2>4 DEF FrameOK
  <2>9. ASSUME NEW k \in 1..(Len(stack') - 1)
        PROVE  stack'[k].at # Base /\ score.holder[stack'[k + 1].scenar] = stack'[k].at
    <3>1. k \in 1..n /\ (k = n \/ (k \in 1..(n - 1) /\ k + 1 \in 1..n))
      BY <2>6
    <3>2. CASE k = n
      BY <2>1, <2>3, <2>6, <2>7, <2>8, <3>1, <3>2
    <3>3. CASE k \in 1..(n - 1) /\ k + 1 \in 1..n
      <4>1. stack[k].at # Base /\ score.holder[stack[k + 1].scenar] = stack[k].at
        BY <1>1, <3>3
      <4> QED BY <2>7, <3>1, <3>3, <4>1
    <3> QED BY <3>1, <3>2, <3>3
  <2>10. Reached(p)
    <3> PICK i \in 1..m : who[i] = t.scenar
      <4>1. n \in 1..Len(stack)
        BY <2>1
      <4>2. FrameEnters(t, Range(who))
        BY <1>1, <2>1, <4>1 DEF Entered
      <4> QED BY <1>1, <4>2 DEF FrameEnters, Range
    <3>1. Reached(t.scenar)
      BY <1>1
    <3>2. t.at \in OfKind(score, "interval", t.scenar)
      <4>1. n \in 1..Len(stack)
        BY <2>1
      <4>2. FrameEnters(t, Range(who))
        BY <1>1, <2>1, <4>1 DEF Entered
      <4> QED BY <2>8, <4>2 DEF FrameEnters
    <3>3. t.at[1] = "interval" /\ t.at[2] = t.scenar
      BY <3>2 DEF OfKind
    <3>4. p \in scenariosOf(t.at)
      BY <1>2, <2>8 DEF scenariosOf, AllScenarios
    <3> PICK c : c = t.at
      OBVIOUS
    <3> QED BY <3>1, <3>3, <3>4, HeldReached
  <2>11. \A i \in 1..(m + 1) : Reached(whom[i])
    BY <1>1, <1>3, <1>4, <2>10
  <2>12. score'.first \in roots' \/ score'.first \in Range(whom)
    BY <1>1, <1>5, <2>4
  <2> QED BY <1>2, <1>3, <1>5, <1>6, <1>7, <2>9, <2>11, <2>12 DEF InOrder
<1> QED BY <1>2, <1>8, <1>9

-----------------------------------------------------------------------------
(* What each step of the metrics does to the names.                        *)

\* What is told of the next state holds there.
LEMMA ToldNext ==
    ASSUME UNCHANGED <<score, visitor>>, NEW maps, NEW from, NEW who,
           Told(factors', stack', words', maps, from, who)
    PROVE  Told(factors, stack, words, maps, from, who)'
<1>1. AllNames' = AllNames
  BY DEF AllNames, Name, ProcessName
<1>2. NameBags' = NameBags
  BY <1>1 DEF NameBags
<1>3. \A p : NamesIn(p)' = NamesIn(p)
  BY DEF NamesIn, Name
<1>4. \A f, m : NamesPast(f, m)' <=> NamesPast(f, m)
  BY DEF NamesPast, Past, Container, OfKind, Name
<1>5. Laid(factors, maps, from)'
  <2>1. Laid(factors', maps, from)
    BY DEF Told
  <2> QED BY <1>2, <2>1 DEF Laid, FactorIs
<1>6. Named(stack, maps, from, who)'
  <2>1. Named(stack', maps, from, who)
    BY DEF Told
  <2> QED BY <1>3, <1>4, <2>1 DEF Named, ObjectNames, NamesIn, NamesPast, Past, Container,
             OfKind, Name
<1>7. Tallied(maps, words)'
  <2>1. Tallied(maps, words')
    BY DEF Told
  <2> QED BY <1>1, <2>1 DEF Tallied, CopiesOver, Copies, BagIn, BagToSet
<1> QED BY <1>5, <1>6, <1>7 DEF Told

\* A name is no word.
LEMMA NameIsNoWord == ASSUME NEW w \in AllNames, NEW a PROVE w # <<a>>
<1>1. \E b, c : w = <<b, c>>
  BY DEF AllNames, Name, ProcessName
<1> QED BY <1>1

\* The text gets words that are no names.
LEMMA ToldWritten ==
    ASSUME NEW fs, NEW st, NEW text, NEW maps, NEW from, NEW who,
           Told(fs, st, text, maps, from, who),
           NEW more, \A w \in AllNames : Copies(w, more) = Copies(w, text)
    PROVE  Told(fs, st, more, maps, from, who)
BY DEF Told, Tallied

\* The innermost scenario is visited further.
LEMMA ToldTurned ==
    ASSUME NEW fs, NEW st, NEW text, NEW maps, NEW from, NEW who,
           Told(fs, st, text, maps, from, who), NEW n, n = Len(st), NEW rt, Len(rt) = n,
           \A k \in 1..n : k # n => rt[k] = st[k],
           rt[n].scenar = st[n].scenar, NamesPast(rt[n], maps[from[n]])
    PROVE  Told(fs, rt, text, maps, from, who)
<1>1. Named(rt, maps, from, who)
  <2>1. Named(st, maps, from, who)
    BY DEF Told
  <2> QED BY <2>1, NamedTurned
<1> QED BY <1>1 DEF Told

\* The innermost scenario, and the frame that takes its place.
LEMMA TopBecomes ==
    ASSUME WalkTypeOK, FramesOK, Working, NEW e \in Frames, ReplaceTop(e), e.scenar = top.scenar
    PROVE  /\ Len(stack) \in Nat /\ Len(stack) >= 1 /\ top = stack[Len(stack)]
           /\ Len(stack') = Len(stack) /\ stack'[Len(stack)] = e
           /\ \A k \in 1..Len(stack) : k # Len(stack) => stack'[k] = stack[k]
           /\ \A k \in 1..Len(stack') : stack'[k].scenar = stack[k].scenar
           /\ \A k \in 1..(Len(stack') - 1) : stack'[k].at = stack[k].at
<1> PICK n \in Nat : n = Len(stack)
  BY DEF WalkTypeOK
<1>1. stack \in Seq(Frames) /\ stack # <<>> /\ n >= 1 /\ top = stack[n]
  BY TopOK DEF Working, top
<1>2. stack' = [stack EXCEPT ![Len(stack)] = e]
  BY DEF ReplaceTop
<1>3. /\ Len(stack') = n /\ stack'[n] = e
      /\ \A k \in 1..(n - 1) : stack'[k] = stack[k]
  BY ONLY <1>1, <1>2, n = Len(stack), e \in Frames, Replaced
<1>4. \A k \in 1..n : k = n \/ k \in 1..(n - 1)
  OBVIOUS
<1> QED BY <1>1, <1>3, <1>4

\* A step of the metrics that visits the innermost scenario further.
LEMMA NamesTurn ==
    ASSUME WalkTypeOK, FramesOK, Working, visitor = "metrics",
           UNCHANGED <<score, visitor, roots>>,
           NEW maps, NEW from, NEW who, Told(factors', stack, words', maps, from, who),
           InOrder(who), Entered(Range(who))', NEW e \in Frames, ReplaceTop(e),
           e.scenar = top.scenar, NamesPast(e, maps[from[Len(stack)]])
    PROVE  NamesTell'
<1>1. /\ Len(stack) \in Nat /\ Len(stack) >= 1 /\ top = stack[Len(stack)]
      /\ Len(stack') = Len(stack) /\ stack'[Len(stack)] = e
      /\ \A k \in 1..Len(stack) : k # Len(stack) => stack'[k] = stack[k]
      /\ \A k \in 1..Len(stack') : stack'[k].scenar = stack[k].scenar
      /\ \A k \in 1..(Len(stack') - 1) : stack'[k].at = stack[k].at
  BY TopBecomes
<1>2. Told(factors', stack', words', maps, from, who)
  <2> PICK n, fs, text, rt, st : /\ n = Len(stack) /\ fs = factors' /\ text = words'
                                 /\ rt = stack' /\ st = stack
    OBVIOUS
  <2>1. /\ Told(fs, st, text, maps, from, who) /\ n = Len(st) /\ Len(rt) = n
        /\ \A k \in 1..n : k # n => rt[k] = st[k]
    BY <1>1
  <2>2. rt[n].scenar = st[n].scenar /\ NamesPast(rt[n], maps[from[n]])
    BY <1>1
  <2>3. Told(fs, rt, text, maps, from, who)
    BY ONLY <2>1, <2>2, ToldTurned
  <2> QED BY <2>3
<1>3. Told(factors, stack, words, maps, from, who)'
  BY <1>2, ToldNext
<1>4. InOrder(who)'
  BY <1>1, OrderStays
<1> QED BY <1>3, <1>4 DEF NamesTell

\* Where the innermost scenario is.
LEMMA Innermost ==
    ASSUME WalkTypeOK, Working, NEW fs, NEW maps, NEW from, NEW who, NEW text,
           Told(fs, stack, text, maps, from, who), Len(fs) = Len(stack)
    PROVE  /\ who[from[Len(stack)]] = top.scenar
           /\ NamesPast(top, maps[from[Len(stack)]])
           /\ from[Len(stack)] \in 1..Len(maps)
<1>1. Len(stack) \in Nat /\ Len(stack) >= 1 /\ top = stack[Len(stack)]
  BY TopFrame DEF top
<1>2. Len(stack) \in 1..Len(stack)
  BY <1>1
<1>3. Named(stack, maps, from, who) /\ Laid(fs, maps, from)
  BY DEF Told
<1>4. from[Len(stack)] \in 1..Len(maps)
  BY <1>2, <1>3, Where
<1>5. who[from[Len(stack)]] = top.scenar /\ NamesPast(top, maps[from[Len(stack)]])
  BY <1>1, <1>2, <1>3 DEF Named
<1> QED BY <1>4, <1>5

\* An object is visited, and named.
LEMMA VisitNames ==
    ASSUME WalkInv, FactorsTell, NamesTell, NEW x \in score.objects, MetricsVisit(x)
    PROVE  NamesTell'
<1> USE DEF WalkInv
<1>1. Visit(x) /\ visitor = "metrics" /\ UNCHANGED <<score, visitor, roots>> /\ Working
  BY DEF MetricsVisit, Visit
<1> PICK maps, from, who : Told(factors, stack, words, maps, from, who) /\ InOrder(who)
  BY <1>1 DEF NamesTell
<1> PICK n : n = Len(stack)
  OBVIOUS
<1>2. Len(factors) = n /\ n \in Nat /\ n >= 1
  BY <1>1, MetricsAtWork
<1> PICK t : t = top
  OBVIOUS
<1>3. t \in Frames /\ x \in t.left /\ FrameOK(t)
  BY <1>1, TopOK DEF Visit
<1>4. who[from[n]] = t.scenar /\ NamesPast(t, maps[from[n]])
  BY <1>1, <1>2, Innermost
<1>5. x[2] = t.scenar
  BY <1>3 DEF FrameOK, Container, OfKind
<1> PICK vs : vs = Counts(x).variables
  OBVIOUS
<1> PICK names : names = [k \in DOMAIN vs |-> Name(vs[k])]
  OBVIOUS
<1> PICK line : line = Line(x)
  OBVIOUS
<1>6. /\ names \in Seq(NamesIn(x[2])) /\ Name(x) \in Range(names)
      /\ \A w \in AllNames : Copies(w, ToBag(names)) = Copies(w, ToBag(line))
  BY Known, LineNames
<1>7. names \in Seq(AllNames) /\ \A w \in Range(names) : w \in NamesIn(who[from[n]])
  <2> PICK S : S = NamesIn(x[2])
    OBVIOUS
  <2>1. S \subseteq AllNames
    BY DEF NamesIn, AllNames
  <2>2. names \in Seq(S)
    BY <1>6
  <2>3. Range(names) \subseteq S
    BY ONLY <2>2 DEF Range
  <2> QED BY <1>4, <1>5, <2>1, <2>2, <2>3
<1> PICK ops, expressions : ops = Counts(x).operators /\ expressions = Counts(x).expressions
  OBVIOUS
<1>8. /\ factors' = [factors EXCEPT ![Len(factors)] =
                        Counted(factors[Len(factors)], ops, names, expressions)]
      /\ words' = words (+) ToBag(line)
  <2>1. factors' = [factors EXCEPT ![Len(factors)] =
                        Counted(@, Counts(x).operators,
                                [k \in DOMAIN Counts(x).variables |->
                                    Name(Counts(x).variables[k])], Counts(x).expressions)]
    BY DEF MetricsVisit
  <2>2. factors \in Seq(Range(factors)) /\ Len(factors) \in 1..Len(factors)
    BY <1>1, <1>2, MetricsAtWork
  <2> QED BY <2>1, <2>2 DEF MetricsVisit
<1>9. Wrote(words, words', names)
  <2> SUFFICES ASSUME NEW w \in AllNames
               PROVE  Copies(w, words') = Copies(w, words) + Copies(w, ToBag(names))
    BY DEF Wrote
  <2> PICK more : more = ToBag(line)
    OBVIOUS
  <2>1. Copies(w, words (+) more) = Copies(w, words) + Copies(w, more)
    BY ONLY CopiesOfBoth
  <2>2. words' = words (+) more
    BY <1>8
  <2>3. Copies(w, ToBag(names)) = Copies(w, more)
    BY <1>6
  <2> QED BY ONLY <2>1, <2>2, <2>3
<1>10. PICK new :
          /\ Told(factors', stack, words', new, from, who)
          /\ DOMAIN new[from[n]] = DOMAIN maps[from[n]] \cup Range(names)
  <2> PICK fs, gs, last : fs = factors /\ gs = factors' /\ last = factors[Len(factors)]
    OBVIOUS
  <2> PICK f : f = Counted(last, ops, names, expressions)
    OBVIOUS
  <2> PICK text, more : text = words /\ more = words'
    OBVIOUS
  <2>1. Told(fs, stack, text, maps, from, who) /\ Len(fs) >= 1 /\ Len(stack) = Len(fs)
    BY <1>2
  <2>2. \A w \in Range(names) : w[1] = "Scenario" \/ w \in NamesIn(who[from[Len(fs)]])
    BY <1>2, <1>7
  <2>3. names \in Seq(AllNames) /\ Wrote(text, more, names)
    BY <1>7, <1>9
  <2>4. Recounted(fs, gs, ops, names, expressions)
    <3>1. fs \in Seq(Range(fs)) /\ Len(fs) >= 1
      BY <1>1, <1>2, MetricsAtWork
    <3>2. f = Counted(fs[Len(fs)], ops, names, expressions) /\ gs = [fs EXCEPT ![Len(fs)] = f]
      BY <1>8
    <3> QED BY ONLY <3>1, <3>2, RecountedIs
  <2>5. NamesAdded(gs, stack, more, maps, from, who, names)
    BY ONLY <2>1, <2>2, <2>3, <2>4, NamesCounted
  <2>6. Len(gs) = n
    BY <1>2, <2>4 DEF Recounted
  <2> QED BY <2>5, <2>6 DEF NamesAdded
<1> PICK at, held :
       /\ at = IF x[1] = "interval" THEN x ELSE Base
       /\ held = IF x[1] = "interval" THEN scenariosOf(x) ELSE {}
  OBVIOUS
<1> PICK e : e = [t EXCEPT !.left = @ \ {x}, !.at = at, !.held = held]
  OBVIOUS
<1>11. /\ e \in Frames /\ e.scenar = t.scenar /\ e.left = t.left \ {x} /\ e.loop = t.loop
  <2>1. at \in score.objects \cup {Base} /\ held \subseteq DOMAIN score.kind
    BY DEF scenariosOf
  <2> QED BY <1>3, <2>1 DEF Frames
<1>12. ReplaceTop(e)
  BY <1>1 DEF Visit
<1>13. NamesPast(e, new[from[n]])
  <2>1. ASSUME NEW l \in 1..e.loop, NEW y \in Past(e, l) PROVE y = x \/ y \in Past(t, l)
    BY <1>11 DEF Past, Container
  <2>2. \A l \in 1..e.loop : l \in 1..t.loop
    BY <1>11
  <2>3. Name(x) \in DOMAIN new[from[n]] /\ DOMAIN maps[from[n]] \subseteq DOMAIN new[from[n]]
    BY <1>6, <1>10
  <2> QED BY <1>4, <2>1, <2>2, <2>3 DEF NamesPast
<1>14. Entered(Range(who))'
  <2> PICK E : E = Range(who)
    OBVIOUS
  <2>1. Entered(E) /\ visitor # "cpp"
    BY <1>1 DEF InOrder
  <2> QED BY <1>1, <2>1, VisitEnters
<1> QED BY <1>1, <1>10, <1>11, <1>12, <1>13, <1>14, NamesTurn

\* The loop goes on to the next container.
LEMMA NextContainerNames ==
    ASSUME WalkInv, FactorsTell, NamesTell, visitor = "metrics", NextContainer
    PROVE  NamesTell'
<1> USE DEF WalkInv
<1>1. Working /\ UNCHANGED <<score, visitor, roots, words, factors>>
  BY DEF NextContainer, LoopOver
<1> PICK maps, from, who : Told(factors, stack, words, maps, from, who) /\ InOrder(who)
  BY DEF NamesTell
<1> PICK n : n = Len(stack)
  OBVIOUS
<1>2. Len(factors) = n /\ n \in Nat /\ n >= 1
  BY <1>1, MetricsAtWork
<1> PICK t : t = top
  OBVIOUS
<1>3. t \in Frames /\ t.left = {} /\ t.loop < Len(Containers(visitor)) /\ FrameOK(t)
  BY <1>1, TopOK DEF NextContainer, LoopOver
<1>4. NamesPast(t, maps[from[n]])
  BY <1>1, <1>2, Innermost
<1> PICK next : next = OfKind(score, Containers(visitor)[t.loop + 1], t.scenar)
  OBVIOUS
<1> PICK e : e = [t EXCEPT !.loop = @ + 1, !.left = next]
  OBVIOUS
<1>5. t.loop \in Nat /\ t.loop + 1 \in 1..4 /\ next \subseteq score.objects
  BY <1>3, HowManyContainers DEF OfKind, WalkTypeOK, Frames
<1>6. e \in Frames /\ e.scenar = t.scenar /\ e.left = next /\ e.loop = t.loop + 1
  BY <1>3, <1>5 DEF Frames
<1>7. ReplaceTop(e)
  BY DEF NextContainer
<1>8. NamesPast(e, maps[from[n]])
  <2>1. ASSUME NEW l \in 1..e.loop, NEW y \in Past(e, l)
        PROVE  l \in 1..t.loop /\ y \in Past(t, l)
    <3>1. l # t.loop + 1
      <4>1. Container(e, t.loop + 1) = next
        BY <1>6 DEF Container
      <4> QED BY <1>6, <2>1, <4>1 DEF Past
    <3>2. l \in 1..t.loop
      BY <1>5, <1>6, <3>1
    <3>3. y \in Container(t, l)
      BY <1>6, <2>1, <3>1 DEF Past, Container
    <3> QED BY <1>3, <3>2, <3>3 DEF Past
  <2> QED BY <1>4, <2>1 DEF NamesPast
<1>9. Entered(Range(who))'
  <2> PICK E : E = Range(who)
    OBVIOUS
  <2>1. Entered(E) /\ visitor # "cpp"
    BY <1>1 DEF InOrder
  <2> QED BY <1>1, <2>1, NextContainerEnters
<1>10. Told(factors', stack, words', maps, from, who)
  BY <1>1
<1> QED BY <1>1, <1>6, <1>7, <1>8, <1>9, <1>10, NamesTurn

\* The interval being visited is left.
LEMMA LeaveIntervalNames ==
    ASSUME WalkInv, FactorsTell, NamesTell, MetricsLeaveInterval
    PROVE  NamesTell'
<1> USE DEF WalkInv
<1>1. /\ Working /\ UNCHANGED <<score, visitor, roots, words, factors>>
      /\ LeaveInterval /\ visitor = "metrics"
  BY DEF MetricsLeaveInterval, LeaveInterval
<1> PICK maps, from, who : Told(factors, stack, words, maps, from, who) /\ InOrder(who)
  BY <1>1 DEF NamesTell
<1> PICK n : n = Len(stack)
  OBVIOUS
<1>2. Len(factors) = n /\ n \in Nat /\ n >= 1
  BY <1>1, MetricsAtWork
<1> PICK t : t = top
  OBVIOUS
<1>3. t \in Frames
  BY <1>1, TopOK
<1>4. NamesPast(t, maps[from[n]])
  BY <1>1, <1>2, Innermost
<1> PICK e : e = [t EXCEPT !.at = Base]
  OBVIOUS
<1>5. e \in Frames /\ e.scenar = t.scenar /\ e.left = t.left /\ e.loop = t.loop
  BY <1>3 DEF Frames
<1>6. ReplaceTop(e)
  BY <1>1 DEF LeaveInterval
<1>7. NamesPast(e, maps[from[n]])
  BY <1>4, <1>5 DEF NamesPast, Past, Container
<1>8. Entered(Range(who))'
  <2> PICK E : E = Range(who)
    OBVIOUS
  <2>1. Entered(E)
    BY DEF InOrder
  <2> QED BY <1>1, <2>1, LeaveIntervalEnters
<1>9. Told(factors', stack, words', maps, from, who)
  BY <1>1
<1> QED BY <1>1, <1>5, <1>6, <1>7, <1>8, <1>9, NamesTurn

\* A scenario that was just entered.
LEMMA FrameIsNew ==
    ASSUME WalkTypeOK, NEW p \in AllScenarios, NEW f, f = Frame(p)
    PROVE  f \in Frames /\ f.scenar = p /\ \A l \in 1..f.loop : Past(f, l) = {}
<1>1. f \in Frames
  BY EnteredOK DEF AllScenarios
<1>2. /\ f.scenar = p /\ f.loop = 1
      /\ f.left = OfKind(score, Containers(visitor)[1], p)
  BY DEF Frame
<1>3. \A l \in 1..f.loop : l = f.loop /\ l = 1
  BY <1>2
<1>4. Past(f, 1) = {}
  BY <1>2 DEF Past, Container
<1> QED BY <1>1, <1>2, <1>3, <1>4

\* The first scenario is entered.
LEMMA EnterFirstNames ==
    ASSUME WalkInv, FactorsTell, NamesTell, NEW p \in DOMAIN score.kind, MetricsEnter(p), ~Working
    PROVE  NamesTell'
<1> USE DEF WalkInv
<1>1. Enter(p) /\ visitor = "metrics" /\ UNCHANGED <<score, visitor>>
  BY DEF MetricsEnter
<1> PICK maps, from, who : Told(factors, stack, words, maps, from, who) /\ InOrder(who)
  BY <1>1 DEF NamesTell
<1>2. roots \subseteq {score.first} /\ p \in roots /\ stack = <<>> /\ factors = <<>>
  BY <1>1 DEF FactorsTell, Working, Enter
<1>3. InOrder(Append(who, p))' /\ p \in AllScenarios
  BY <1>1, <1>2, OrderGrows
<1> PICK f : f = Frame(p)
  OBVIOUS
<1>4. f \in Frames /\ f.scenar = p /\ \A l \in 1..f.loop : Past(f, l) = {}
  BY <1>3, FrameIsNew
<1> PICK brace, braces : brace = <<"{">> /\ braces = <<"{">>
  OBVIOUS
<1> PICK line : line = <<brace>>
  OBVIOUS
<1> PICK none : none = <<>>
  OBVIOUS
<1>5. /\ factors' = Append(none, Counted(NoFactors, braces, <<>>, 0))
      /\ words' = words (+) ToBag(Append(none, brace))
  BY <1>2 DEF MetricsEnter
<1>6. words' = words (+) ToBag(line)
  <2>1. Append(none, brace) = line
    BY ONLY none = <<>>, line = <<brace>>
  <2> QED BY <1>5, <2>1
<1>7. \A w \in AllNames : Copies(w, words') = Copies(w, words)
  <2> SUFFICES ASSUME NEW w \in AllNames PROVE Copies(w, words') = Copies(w, words)
    OBVIOUS
  <2> PICK more, total, text : /\ more = Copies(w, ToBag(line)) /\ total = Copies(w, words)
                               /\ text = words'
    OBVIOUS
  <2>1. w # brace
    BY NameIsNoWord
  <2>2. more = 0
    BY ONLY <2>1, line = <<brace>>, more = Copies(w, ToBag(line)), CopiesOfOne
  <2>3. Copies(w, text) = total + more
    BY ONLY <1>6, text = words', total = Copies(w, words), more = Copies(w, ToBag(line)),
            WordsAdded
  <2>4. total \in Nat
    BY TextNat
  <2> QED BY ONLY <2>2, <2>3, <2>4, text = words', total = Copies(w, words)
<1> PICK fs, gs, st, text : /\ fs = factors /\ gs = factors' /\ st = stack /\ text = words'
  OBVIOUS
<1>8. Told(fs, st, text, maps, from, who)
  BY <1>7, ToldWritten
<1>9. Begun(fs, gs, braces)
  BY <1>2, <1>5 DEF Begun
<1>10. MapsTell(gs, Append(st, f), text, Append(who, p))
  <2>0. who \in Seq(AllScenarios)
    BY DEF InOrder
  <2>3. st = fs
    BY <1>2
  <2>4. st \in Seq(Frames)
    BY DEF WalkTypeOK
  <2>1. st \in Seq(Frames) /\ Len(st) = Len(fs) /\ who \in Seq(AllScenarios)
        /\ f.scenar \in AllScenarios
    BY ONLY <1>3, <1>4, <2>0, <2>3, <2>4
  <2>2. MapsTell(gs, Append(st, f), text, Append(who, f.scenar))
    BY ONLY <1>4, <1>8, <1>9, <2>1, NamesPushed
  <2> QED BY ONLY <1>4, <2>2
<1>11. stack' = Append(st, f)
  <2>1. stack' = <<f>>
    BY <1>1, <1>2 DEF Enter, Working
  <2>2. st = <<>>
    BY <1>2
  <2> QED BY ONLY <2>1, <2>2
<1> PICK new, then : Told(factors', stack', words', new, then, Append(who, p))
  BY <1>10, <1>11 DEF MapsTell
<1> PICK whom : whom = Append(who, p)
  OBVIOUS
<1>12. Told(factors, stack, words, new, then, whom)'
  <2>1. Told(factors', stack', words', new, then, whom)
    OBVIOUS
  <2> QED BY <1>1, <2>1, ToldNext
<1>13. InOrder(whom)'
  BY <1>3
<1> QED BY <1>12, <1>13 DEF NamesTell

\* A scenario of the interval being visited is entered, and named.
LEMMA EnterHeldNames ==
    ASSUME WalkInv, FactorsTell, NamesTell, NEW p \in DOMAIN score.kind, MetricsEnter(p), Working
    PROVE  NamesTell'
<1> USE DEF WalkInv
<1>1. Enter(p) /\ visitor = "metrics" /\ UNCHANGED <<score, visitor>>
  BY DEF MetricsEnter
<1> PICK maps, from, who : Told(factors, stack, words, maps, from, who) /\ InOrder(who)
  BY <1>1 DEF NamesTell
<1> PICK n : n = Len(stack)
  OBVIOUS
<1>2. Len(factors) = n /\ n \in Nat /\ n >= 1 /\ factors \in Seq(Range(factors)) /\ roots = {}
  BY <1>1, MetricsAtWork
<1>3. InOrder(Append(who, p))' /\ p \in AllScenarios
  BY <1>1, <1>2, OrderGrows
<1> PICK f : f = Frame(p)
  OBVIOUS
<1>4. f \in Frames /\ f.scenar = p /\ \A l \in 1..f.loop : Past(f, l) = {}
  BY <1>3, FrameIsNew
<1> PICK scen, named, brace, scens, braces :
       /\ scen = <<"scenario">> /\ named = ProcessName(p) /\ brace = <<"{">>
       /\ scens = <<"scenario">> /\ braces = <<"{">>
  OBVIOUS
<1> PICK names : names = <<named>>
  OBVIOUS
<1> PICK line : line = <<scen, named, brace>>
  OBVIOUS
<1> PICK last : last = factors[Len(factors)]
  OBVIOUS
<1> PICK g : g = Counted(last, scens, names, 0)
  OBVIOUS
<1> PICK hs : hs = [factors EXCEPT ![Len(factors)] = g]
  OBVIOUS
<1>5. /\ factors' = Append(hs, Counted(NoFactors, braces, <<>>, 0))
      /\ words' = words (+) ToBag(Append(<<scen, named>>, brace))
  <2>1. /\ factors' = Append([factors EXCEPT ![Len(factors)] = g],
                             Counted(NoFactors, <<"{">>, <<>>, 0))
        /\ words' = words (+) ToBag(Append(<< <<"scenario">>, named>>, <<"{">>))
    <3>1. g = Counted(last, <<"scenario">>, <<named>>, 0)
      BY ONLY scens = <<"scenario">>, names = <<named>>, g = Counted(last, scens, names, 0)
    <3> QED BY <1>2, <3>1 DEF MetricsEnter
  <2> QED BY ONLY <2>1, scen = <<"scenario">>, brace = <<"{">>, braces = <<"{">>,
                  hs = [factors EXCEPT ![Len(factors)] = g]
<1>6. words' = words (+) ToBag(line)
  <2> PICK two : two = <<scen, named>>
    OBVIOUS
  <2>1. line = Append(two, brace)
    BY ONLY line = <<scen, named, brace>>, two = <<scen, named>>
  <2>2. words' = words (+) ToBag(Append(two, brace))
    BY ONLY <1>5, two = <<scen, named>>
  <2> QED BY ONLY <2>1, <2>2
<1>7. named \in AllNames /\ named[1] = "Scenario"
  BY DEF AllNames, ProcessName
<1>8. names \in Seq(AllNames) /\ \A w \in Range(names) : w = named
  <2>1. Len(names) = 1 /\ names[1] = named /\ DOMAIN names = {1}
    BY ONLY names = <<named>>
  <2>2. names \in Seq(AllNames)
    BY ONLY <1>7, names = <<named>>
  <2> QED BY ONLY <2>1, <2>2 DEF Range
<1>9. Wrote(words, words', names)
  <2> SUFFICES ASSUME NEW w \in AllNames
               PROVE  Copies(w, words') = Copies(w, words) + Copies(w, ToBag(names))
    BY DEF Wrote
  <2> PICK more, total, text, extra :
        /\ more = Copies(w, ToBag(line)) /\ total = Copies(w, words) /\ text = words'
        /\ extra = Copies(w, ToBag(names))
    OBVIOUS
  <2>1. w # brace /\ w # scen
    BY NameIsNoWord
  <2>2. more = (IF scen = w THEN 1 ELSE 0) + (IF named = w THEN 1 ELSE 0)
                  + (IF brace = w THEN 1 ELSE 0)
    BY ONLY line = <<scen, named, brace>>, more = Copies(w, ToBag(line)), CopiesOfThree
  <2>3. extra = IF named = w THEN 1 ELSE 0
    BY ONLY names = <<named>>, extra = Copies(w, ToBag(names)), CopiesOfOne
  <2>4. more = extra
    BY ONLY <2>1, <2>2, <2>3
  <2>5. Copies(w, text) = total + more
    BY ONLY <1>6, text = words', total = Copies(w, words), more = Copies(w, ToBag(line)),
            WordsAdded
  <2> QED BY ONLY <2>4, <2>5, text = words', total = Copies(w, words),
                  extra = Copies(w, ToBag(names))
<1> PICK t : t = top
  OBVIOUS
<1>10. t \in Frames /\ stack \in Seq(Frames) /\ stack # <<>> /\ t = stack[n]
  BY <1>1, TopOK DEF top, Working
<1> PICK e : e = [t EXCEPT !.held = @ \ {p}]
  OBVIOUS
<1>11. e \in Frames /\ e.scenar = t.scenar /\ e.left = t.left /\ e.loop = t.loop
  BY <1>10 DEF Frames
<1> PICK rt : rt = [stack EXCEPT ![Len(stack)] = e]
  OBVIOUS
<1>12. stack' = Append(rt, f)
  BY <1>1 DEF Enter, top
<1>13. rt \in Seq(Frames) /\ Len(rt) = n /\ rt[n] = e /\ \A k \in 1..n : k # n => rt[k] = stack[k]
  <2>1. /\ rt \in Seq(Frames) /\ Len(rt) = Len(stack) /\ rt[Len(stack)] = e
        /\ \A k \in 1..(Len(stack) - 1) : rt[k] = stack[k]
    BY ONLY <1>10, <1>11, rt = [stack EXCEPT ![Len(stack)] = e], Replaced
  <2>2. \A k \in 1..n : k = n \/ k \in 1..(n - 1)
    BY ONLY <1>2
  <2> QED BY <2>1, <2>2
<1> PICK fs, gs, st, text, more : /\ fs = factors /\ gs = factors' /\ st = stack /\ text = words
                                  /\ more = words'
  OBVIOUS
<1>14. Recounted(fs, hs, scens, names, 0)
  <2>1. /\ fs \in Seq(Range(fs)) /\ Len(fs) >= 1
        /\ g = Counted(fs[Len(fs)], scens, names, 0) /\ hs = [fs EXCEPT ![Len(fs)] = g]
    BY <1>2
  <2> QED BY ONLY <2>1, RecountedIs
<1>15. PICK new : Told(hs, st, more, new, from, who)
                  /\ DOMAIN new[from[n]] = DOMAIN maps[from[n]] \cup Range(names)
  <2>1. Told(fs, st, text, maps, from, who) /\ Len(fs) >= 1 /\ Len(st) = Len(fs)
        /\ Wrote(text, more, names)
        /\ \A w \in Range(names) : w[1] = "Scenario" \/ w \in NamesIn(who[from[Len(fs)]])
    BY <1>2, <1>7, <1>8, <1>9
  <2>2. NamesAdded(hs, st, more, maps, from, who, names)
    BY ONLY <1>8, <1>14, <2>1, NamesCounted
  <2>3. Len(hs) = n
    BY <1>2, <1>14 DEF Recounted
  <2> QED BY <2>2, <2>3 DEF NamesAdded
<1>16. Told(hs, rt, more, new, from, who)
  <2>1. NamesPast(t, maps[from[n]])
    BY <1>1, <1>2, Innermost DEF Enter
  <2>2. DOMAIN maps[from[n]] \subseteq DOMAIN new[from[n]]
    BY <1>15
  <2>3. NamesPast(e, new[from[n]])
    BY <1>11, <2>1, <2>2 DEF NamesPast, Past, Container
  <2>4. /\ n = Len(st) /\ Len(rt) = n /\ \A k \in 1..n : k # n => rt[k] = st[k]
        /\ rt[n].scenar = st[n].scenar /\ NamesPast(rt[n], new[from[n]])
    BY <1>10, <1>11, <1>13, <2>3
  <2> QED BY ONLY <1>15, <2>4, ToldTurned
<1>17. Begun(hs, gs, braces)
  BY <1>5 DEF Begun
<1>18. MapsTell(gs, Append(rt, f), more, Append(who, p))
  <2>1. rt \in Seq(Frames) /\ Len(rt) = Len(hs) /\ who \in Seq(AllScenarios)
        /\ f.scenar \in AllScenarios
    BY <1>2, <1>3, <1>4, <1>13, <1>14 DEF InOrder, Recounted
  <2>2. MapsTell(gs, Append(rt, f), more, Append(who, f.scenar))
    BY ONLY <1>4, <1>16, <1>17, <2>1, NamesPushed
  <2> QED BY ONLY <1>4, <2>2
<1> PICK whom : whom = Append(who, p)
  OBVIOUS
<1>19. PICK last2, then : Told(factors', stack', words', last2, then, whom)
  BY <1>12, <1>18 DEF MapsTell
<1>20. Told(factors, stack, words, last2, then, whom)'
  BY <1>1, <1>19, ToldNext
<1>21. InOrder(whom)'
  BY <1>3
<1> QED BY <1>20, <1>21 DEF NamesTell

\* Nothing is in the bag of no words.
LEMMA CopiesOfNothing ==
    ASSUME NEW none, none = <<>>, NEW w PROVE Copies(w, ToBag(none)) = 0
<1>1. none \in Seq({w}) /\ {k \in 1..Len(none) : none[k] = w} = {}
  OBVIOUS
<1>2. Copies(w, ToBag(none)) = Cardinality({k \in 1..Len(none) : none[k] = w})
  BY ONLY <1>1, CopiesAre
<1> QED BY ONLY <1>1, <1>2, FS_EmptySet

\* When the last loop is over, all objects of the scenario have been named.
LEMMA AllNamed ==
    ASSUME WalkTypeOK, FramesOK, visitor = "metrics", LeaveScenario,
           NEW m, NamesPast(top, m)
    PROVE  NamesIn(top.scenar) \subseteq DOMAIN m
<1> PICK t : t = top
  OBVIOUS
<1>1. t \in Frames /\ t.left = {} /\ t.loop = 4
  <2>1. Working /\ t.left = {} /\ t.loop = Len(Containers(visitor))
    BY DEF LeaveScenario, LoopOver
  <2>2. Len(Containers(visitor)) = 4
    BY DEF Containers
  <2> QED BY <2>1, <2>2, TopOK
<1>2. /\ Containers(visitor)[1] = "interval" /\ Containers(visitor)[2] = "event"
      /\ Containers(visitor)[3] = "timeSync" /\ Containers(visitor)[4] = "state"
  BY DEF Containers
<1>3. ASSUME NEW y \in score.objects, y[2] = t.scenar PROVE Name(y) \in DOMAIN m
  <2>1. y[1] \in {"interval", "event", "timeSync", "state"}
    BY Known DEF ScoreOK
  <2>2. PICK l \in 1..4 : Containers(visitor)[l] = y[1]
    BY <1>2, <2>1
  <2>3. y \in Past(t, l) /\ l \in 1..t.loop
    BY <1>1, <1>3, <2>2 DEF Past, Container, OfKind
  <2> QED BY <2>3 DEF NamesPast
<1> QED BY <1>3 DEF NamesIn

\* The first scenario is over.
LEMMA LeaveFirstNames ==
    ASSUME WalkInv, FactorsTell, NamesTell, MetricsLeave, Len(stack) = 1
    PROVE  NamesTell'
<1> USE DEF WalkInv
<1>1. LeaveScenario /\ visitor = "metrics" /\ UNCHANGED <<score, visitor, roots>> /\ Working
  BY DEF MetricsLeave, LeaveScenario, LoopOver
<1> PICK maps, from, who : Told(factors, stack, words, maps, from, who) /\ InOrder(who)
  BY <1>1 DEF NamesTell
<1>2. Len(factors) = 1 /\ factors \in Seq(Range(factors))
  BY <1>1, MetricsAtWork
<1> PICK brace, braces, none : brace = <<"}">> /\ braces = <<"}">> /\ none = <<>>
  OBVIOUS
<1> PICK line : line = <<brace>>
  OBVIOUS
<1> PICK last : last = factors[Len(factors)]
  OBVIOUS
<1> PICK done : done = Counted(last, braces, none, 0)
  OBVIOUS
<1>3. factors' = <<done>> /\ words' = words (+) ToBag(line)
  <2>1. /\ factors' = <<Counted(Last(factors), <<"}">>, <<>>, 0)>>
        /\ words' = words (+) ToBag(<< <<"}">> >> \o <<>>)
    <3>1. ~(Len(stack) > 1)
      BY ONLY Len(stack) = 1
    <3> QED BY <3>1, Zenon DEF MetricsLeave
  <2>2. Last(factors) = last
    BY DEF Last
  <2>3. line \o <<>> = line
    <3>1. line \in Seq({brace})
      BY ONLY line = <<brace>>
    <3> QED BY ONLY <3>1, JoinedNone
  <2>4. words' = words (+) ToBag(line)
    BY ONLY <2>1, <2>3, line = <<brace>>, brace = <<"}">>
  <2> QED BY ONLY <2>1, <2>2, <2>4, braces = <<"}">>, none = <<>>,
                  done = Counted(last, braces, none, 0)
<1>4. Wrote(words, words', none)
  <2> SUFFICES ASSUME NEW w \in AllNames
               PROVE  Copies(w, words') = Copies(w, words) + Copies(w, ToBag(none))
    BY DEF Wrote
  <2> PICK more, total, text : /\ more = Copies(w, ToBag(line)) /\ total = Copies(w, words)
                               /\ text = words'
    OBVIOUS
  <2>1. w # brace
    BY NameIsNoWord
  <2>2. more = 0
    BY ONLY <2>1, line = <<brace>>, more = Copies(w, ToBag(line)), CopiesOfOne
  <2>3. Copies(w, text) = total + more
    BY ONLY <1>3, text = words', total = Copies(w, words), more = Copies(w, ToBag(line)),
            WordsAdded
  <2>4. Copies(w, ToBag(none)) = 0
    BY ONLY none = <<>>, CopiesOfNothing
  <2> QED BY ONLY <2>2, <2>3, <2>4, text = words', total = Copies(w, words)
<1> PICK fs, gs, st, text, more, rt :
       /\ fs = factors /\ gs = factors' /\ st = stack /\ text = words /\ more = words'
       /\ rt = stack'
  OBVIOUS
<1>5. Recounted(fs, gs, braces, none, 0)
  <2>1. gs = <<done>> /\ Len(fs) = 1 /\ done = Counted(fs[Len(fs)], braces, none, 0)
    BY <1>2, <1>3
  <2>2. gs \in Seq({done}) /\ Len(gs) = 1 /\ gs[1] = done
    BY ONLY <2>1
  <2>3. gs \in Seq(Range(gs))
    BY ONLY <2>2, OwnRange
  <2>4. \A k \in 1..(Len(fs) - 1) : gs[k] = fs[k]
    BY ONLY <2>1
  <2>5. gs[Len(fs)] = Counted(fs[Len(fs)], braces, none, 0) /\ Len(gs) = Len(fs)
    BY ONLY <2>1, <2>2
  <2> QED BY ONLY <2>3, <2>4, <2>5 DEF Recounted
<1>6. PICK new : Told(gs, st, more, new, from, who)
                 /\ DOMAIN new[from[1]] = DOMAIN maps[from[1]] \cup Range(none)
  <2>1. Told(fs, st, text, maps, from, who) /\ Len(fs) >= 1 /\ Len(st) = Len(fs)
        /\ Wrote(text, more, none)
    <3>1. Told(fs, st, text, maps, from, who)
      BY ONLY Told(factors, stack, words, maps, from, who), fs = factors, st = stack,
              text = words, Zenon
    <3>2. Wrote(text, more, none)
      BY ONLY <1>4, text = words, more = words', Zenon
    <3>3. Len(fs) = 1 /\ Len(st) = 1
      BY ONLY <1>2, Len(stack) = 1, fs = factors, st = stack, Zenon
    <3>4. Len(fs) >= 1 /\ Len(st) = Len(fs)
      BY ONLY <3>3
    <3> QED BY ONLY <3>1, <3>2, <3>4
  <2>2. none \in Seq(AllNames)
        /\ \A w \in Range(none) : w[1] = "Scenario" \/ w \in NamesIn(who[from[Len(fs)]])
    BY ONLY none = <<>> DEF Range
  <2>3. NamesAdded(gs, st, more, maps, from, who, none)
    BY ONLY <1>5, <2>1, <2>2, NamesCounted
  <2>4. Len(gs) = 1
    BY <1>2, <1>5 DEF Recounted
  <2> QED BY <2>3, <2>4 DEF NamesAdded
<1>7. NamesIn(st[1].scenar) \subseteq DOMAIN new[from[1]]
  <2>1. NamesPast(top, maps[from[Len(stack)]])
    BY <1>1, <1>2, Innermost
  <2>2. NamesIn(top.scenar) \subseteq DOMAIN maps[from[Len(stack)]]
    BY <1>1, <2>1, AllNamed
  <2>3. top = st[1]
    BY DEF top
  <2> QED BY <1>6, <2>2, <2>3
<1>8. Len(rt) = Len(st) - 1 /\ \A k \in 1..(Len(st) - 1) : rt[k] = st[k]
  <2>1. stack \in Seq(Frames) /\ stack # <<>>
    BY <1>1, TopOK DEF Working
  <2>2. rt = Front(st)
    BY <1>1 DEF LeaveScenario
  <2> QED BY ONLY <2>1, <2>2, st = stack, Popped
<1>9. Told(gs, rt, more, new, from, who)
  <2>1. Laid(gs, new, from) /\ Named(st, new, from, who) /\ Tallied(new, more)
    BY <1>6 DEF Told
  <2>2. Len(gs) = 1 /\ Len(st) = 1
    BY <1>2, <1>5 DEF Recounted
  <2>3. NamesIn(st[Len(st)].scenar) \subseteq DOMAIN new[from[Len(gs)]]
    BY <1>7, <2>2
  <2>4. Named(rt, new, from, who)
    <3>1. Len(gs) >= 1 /\ Len(st) = Len(gs) /\ \A k \in 1..(Len(st) - 1) : from[k] = from[k]
      BY ONLY <2>2
    <3> QED BY ONLY <1>8, <2>1, <2>3, <3>1, NamedPopped
  <2> QED BY <2>1, <2>4 DEF Told
<1>10. Told(factors, stack, words, new, from, who)'
  BY <1>1, <1>9, ToldNext
<1>11. Entered(Range(who))'
  <2> PICK E : E = Range(who)
    OBVIOUS
  <2>1. Entered(E)
    BY DEF InOrder
  <2> QED BY <1>1, <2>1, LeaveScenarioEnters
<1>12. InOrder(who)'
  <2>1. Len(stack') = 0
    <3>1. Len(st) = 1 /\ Len(rt) = Len(st) - 1
      BY ONLY <1>8, Len(stack) = 1, st = stack
    <3> QED BY ONLY <3>1, rt = stack'
  <2>2. /\ Len(stack') \in Nat /\ Len(stack') <= Len(stack)
        /\ \A k \in 1..Len(stack') : stack'[k].scenar = stack[k].scenar
        /\ \A k \in 1..(Len(stack') - 1) : stack'[k].at = stack[k].at
    BY ONLY <2>1, Len(stack) = 1
  <2> QED BY <1>1, <1>11, <2>2, OrderStays
<1> QED BY <1>10, <1>12 DEF NamesTell

\* A scenario within is over, and the interval that holds it is named.
LEMMA LeaveHeldNames ==
    ASSUME WalkInv, FactorsTell, NamesTell, MetricsLeave, Len(stack) # 1
    PROVE  NamesTell'
<1> USE DEF WalkInv
<1>1. LeaveScenario /\ visitor = "metrics" /\ UNCHANGED <<score, visitor, roots>> /\ Working
  BY DEF MetricsLeave, LeaveScenario, LoopOver
<1> PICK maps, from, who : Told(factors, stack, words, maps, from, who) /\ InOrder(who)
  BY <1>1 DEF NamesTell
<1> PICK n : n = Len(stack)
  OBVIOUS
<1>2. Len(factors) = n /\ n \in Nat /\ n >= 1 /\ factors \in Seq(Range(factors))
  BY <1>1, MetricsAtWork
<1>3. n >= 2 /\ n - 1 \in 1..n /\ n \in 1..n /\ n - 2 \in Nat
  BY ONLY <1>2, n = Len(stack), Len(stack) # 1
<1> PICK curly : curly = "}"
  OBVIOUS
<1> PICK braces, none, ofs : braces = <<curly>> /\ none = <<>> /\ ofs = <<"of">>
  OBVIOUS
<1> PICK holder : holder = score.holder[top.scenar]
  OBVIOUS
<1> PICK brace, of, named : brace = <<curly>> /\ of = <<"of">> /\ named = Name(holder)
  OBVIOUS
<1> PICK names : names = <<named>>
  OBVIOUS
<1> PICK line : line = <<brace, of, named>>
  OBVIOUS
<1> PICK last, outer : last = factors[n] /\ outer = factors[n - 1]
  OBVIOUS
<1> PICK done : done = Counted(last, braces, none, 0)
  OBVIOUS
<1> PICK both : both = Plus(outer, done)
  OBVIOUS
<1> PICK f : f = Counted(both, ofs, names, 0)
  OBVIOUS
<1> PICK hs : hs = SubSeq(factors, 1, n - 2)
  OBVIOUS
<1>4. /\ factors' = Append(hs, f)
      /\ words' = words (+) ToBag(<<brace>> \o <<of, named>>)
  <2>1. /\ factors' = Append(SubSeq(factors, 1, Len(factors) - 2),
              Counted(Plus(factors[Len(factors) - 1], Counted(Last(factors), <<"}">>, <<>>, 0)),
                      <<"of">>, <<Name(score.holder[top.scenar])>>, 0))
        /\ words' = words (+) ToBag(
              << <<"}">> >> \o << <<"of">>, Name(score.holder[top.scenar])>>)
    <3>1. Len(stack) > 1
      BY ONLY <1>3, n = Len(stack)
    <3> QED BY <3>1, Zenon DEF MetricsLeave
  <2>2. Last(factors) = last
    BY ONLY <1>2, last = factors[n] DEF Last
  <2>3. factors' = Append(hs, Counted(Plus(outer, Counted(last, braces, <<>>, 0)),
                                      <<"of">>, <<named>>, 0))
    BY ONLY <1>2, <2>1, <2>2, curly = "}", braces = <<curly>>, outer = factors[n - 1],
            named = Name(holder), holder = score.holder[top.scenar],
            hs = SubSeq(factors, 1, n - 2)
  <2>4. Counted(Plus(outer, Counted(last, braces, <<>>, 0)), <<"of">>, <<named>>, 0) = f
    BY ONLY none = <<>>, ofs = <<"of">>, names = <<named>>, both = Plus(outer, done),
            done = Counted(last, braces, none, 0), f = Counted(both, ofs, names, 0)
  <2>5. words' = words (+) ToBag(<<brace>> \o <<of, named>>)
    BY ONLY <2>1, curly = "}", brace = <<curly>>, of = <<"of">>, named = Name(holder),
            holder = score.holder[top.scenar]
  <2> QED BY ONLY <2>3, <2>4, <2>5
<1>5. words' = words (+) ToBag(line)
  <2> PICK front, back : front = <<brace>> /\ back = <<of, named>>
    OBVIOUS
  <2> PICK S : S = {brace, of, named}
    OBVIOUS
  <2>1. front \in Seq(S) /\ back \in Seq(S) /\ line \in Seq(S)
    <3>1. brace \in S /\ of \in S /\ named \in S
      BY ONLY S = {brace, of, named}
    <3> QED BY ONLY <3>1, front = <<brace>>, back = <<of, named>>, line = <<brace, of, named>>
  <2>2. /\ Len(line) = Len(front) + Len(back)
        /\ \A k \in 1..Len(front) : line[k] = front[k]
        /\ \A k \in 1..Len(back) : line[Len(front) + k] = back[k]
    <3>1. Len(line) = 3 /\ Len(front) = 1 /\ Len(back) = 2
      BY ONLY front = <<brace>>, back = <<of, named>>, line = <<brace, of, named>>
    <3>2. line[1] = front[1] /\ line[2] = back[1] /\ line[3] = back[2]
      BY ONLY front = <<brace>>, back = <<of, named>>, line = <<brace, of, named>>
    <3> QED BY ONLY <3>1, <3>2
  <2>3. front \o back = line
    BY ONLY <2>1, <2>2, JoinedIs
  <2> QED BY ONLY <2>3, <1>4, front = <<brace>>, back = <<of, named>>
\* The interval that holds it is one of the scenario around it.
<1> PICK prev : prev = stack[n - 1]
  OBVIOUS
<1>6. holder \in score.objects /\ holder[2] = prev.scenar
  <2>1. \A k \in 1..(n - 1) :
           stack[k].at # Base /\ score.holder[stack[k + 1].scenar] = stack[k].at
    BY ONLY InOrder(who), n = Len(stack) DEF InOrder
  <2>2. n - 1 \in 1..(n - 1) /\ (n - 1) + 1 = n
    BY ONLY <1>3
  <2>3. prev.at # Base /\ score.holder[stack[n].scenar] = prev.at
    BY ONLY <2>1, <2>2, prev = stack[n - 1]
  <2>4. top = stack[n]
    BY ONLY n = Len(stack) DEF top
  <2>5. FrameEnters(prev, Range(who))
    BY ONLY InOrder(who), <1>3, n = Len(stack), prev = stack[n - 1] DEF InOrder, Entered
  <2>6. prev.at \in OfKind(score, "interval", prev.scenar)
    BY ONLY <2>3, <2>5 DEF FrameEnters
  <2> QED BY ONLY <2>3, <2>4, <2>6, holder = score.holder[top.scenar] DEF OfKind
<1>7. named \in AllNames /\ named \in NamesIn(prev.scenar)
  BY ONLY <1>6, named = Name(holder) DEF AllNames, NamesIn
<1> PICK fs, gs, st, text, more, rt :
       /\ fs = factors /\ gs = factors' /\ st = stack /\ text = words /\ more = words'
       /\ rt = stack'
  OBVIOUS
<1>8. Told(fs, st, text, maps, from, who) /\ Len(fs) = n /\ Len(st) = n /\ fs \in Seq(Range(fs))
  BY ONLY <1>2, Told(factors, stack, words, maps, from, who), n = Len(stack),
          fs = factors, st = stack, text = words
\* The scenario that is over: no names.
<1> PICK ds : ds = [fs EXCEPT ![n] = done]
  OBVIOUS
<1>9. Recounted(fs, ds, braces, none, 0)
  <2>1. /\ Len(fs) >= 1 /\ done = Counted(fs[Len(fs)], braces, none, 0)
        /\ ds = [fs EXCEPT ![Len(fs)] = done]
    BY ONLY <1>2, <1>8, last = factors[n], fs = factors, ds = [fs EXCEPT ![n] = done],
            done = Counted(last, braces, none, 0)
  <2> QED BY ONLY <1>8, <2>1, RecountedIs
<1>10. Wrote(text, text, none)
  <2> SUFFICES ASSUME NEW w \in AllNames
               PROVE  Copies(w, text) = Copies(w, text) + Copies(w, ToBag(none))
    BY DEF Wrote
  <2> PICK total : total = Copies(w, text)
    OBVIOUS
  <2>1. Copies(w, ToBag(none)) = 0
    BY ONLY none = <<>>, CopiesOfNothing
  <2>2. Copies(w, text) \in Nat
    BY ONLY <1>8, w \in AllNames, TextNat
  <2>3. total \in Nat
    BY ONLY <2>2, total = Copies(w, text)
  <2> QED BY ONLY <2>1, <2>3, total = Copies(w, text)
<1>11. PICK new : Told(ds, st, text, new, from, who) /\ Len(new) = Len(maps)
                  /\ DOMAIN new[from[n]] = DOMAIN maps[from[n]] \cup Range(none)
  <2>1. Len(fs) >= 1 /\ Len(st) = Len(fs)
    BY ONLY <1>2, <1>8
  <2>2. none \in Seq(AllNames)
        /\ \A w \in Range(none) : w[1] = "Scenario" \/ w \in NamesIn(who[from[Len(fs)]])
    BY ONLY none = <<>> DEF Range
  <2>3. NamesAdded(ds, st, text, maps, from, who, none)
    BY ONLY <1>8, <1>9, <1>10, <2>1, <2>2, NamesCounted
  <2>4. Len(ds) = n
    BY ONLY <1>8, <1>9 DEF Recounted
  <2> QED BY ONLY <2>3, <2>4 DEF NamesAdded
<1>12. /\ Len(ds) = n /\ ds[n] = done /\ ds[n - 1] = outer
       /\ \A k \in 1..(n - 2) : ds[k] = factors[k]
  <2>1. /\ Len(ds) = n /\ ds[n] = Counted(fs[n], braces, none, 0)
        /\ \A k \in 1..(n - 1) : ds[k] = fs[k]
    BY ONLY <1>8, <1>9 DEF Recounted
  <2>2. n - 1 \in 1..(n - 1) /\ \A k \in 1..(n - 2) : k \in 1..(n - 1)
    BY ONLY <1>2, <1>3
  <2> QED BY ONLY <2>1, <2>2, fs = factors, last = factors[n], outer = factors[n - 1],
                  done = Counted(last, braces, none, 0)
\* The one around it gets its names.
<1> PICK ms : ms = Append(hs, both)
  OBVIOUS
<1> PICK S : S = Range(factors) \cup {both, f}
  OBVIOUS
<1>13. hs \in Seq(S) /\ Len(hs) = n - 2 /\ \A k \in 1..(n - 2) : hs[k] = factors[k]
  <2>1. factors \in Seq(S)
    <3>1. Range(factors) \subseteq S
      BY ONLY S = Range(factors) \cup {both, f}
    <3> QED BY ONLY <1>2, <3>1
  <2>2. n - 2 \in Nat /\ n - 2 <= Len(factors)
    BY ONLY <1>2, <1>3
  <2> QED BY ONLY <2>1, <2>2, hs = SubSeq(factors, 1, n - 2), Prefix
<1>14. both \in S /\ f \in S /\ (n - 2) + 1 = n - 1
  BY ONLY S = Range(factors) \cup {both, f}, <1>2
<1>15. /\ ms \in Seq(S) /\ Len(ms) = n - 1 /\ ms[n - 1] = both
       /\ \A k \in 1..(n - 2) : ms[k] = hs[k]
  <2>1. /\ ms \in Seq(S) /\ Len(ms) = Len(hs) + 1 /\ ms[Len(hs) + 1] = both
        /\ \A k \in 1..Len(hs) : ms[k] = hs[k]
    BY ONLY <1>13, <1>14, ms = Append(hs, both), Pushed
  <2> QED BY ONLY <1>13, <1>14, <2>1
<1>16. /\ gs \in Seq(S) /\ Len(gs) = n - 1 /\ gs[n - 1] = f
       /\ \A k \in 1..(n - 2) : gs[k] = hs[k]
  <2>1. gs = Append(hs, f)
    BY ONLY <1>4, gs = factors'
  <2>2. /\ gs \in Seq(S) /\ Len(gs) = Len(hs) + 1 /\ gs[Len(hs) + 1] = f
        /\ \A k \in 1..Len(hs) : gs[k] = hs[k]
    BY ONLY <1>13, <1>14, <2>1, Pushed
  <2> QED BY ONLY <1>13, <1>14, <2>2
<1>17. ms \in Seq(Range(ms)) /\ gs \in Seq(Range(gs))
  <2>1. ms \in Seq(Range(ms))
    BY ONLY <1>15, OwnRange
  <2>2. gs \in Seq(Range(gs))
    BY ONLY <1>16, OwnRange
  <2> QED BY ONLY <2>1, <2>2
<1>18. /\ "variables" \in DOMAIN both /\ "subprocesses_variables" \in DOMAIN both
       /\ both.variables = outer.variables
       /\ both.subprocesses_variables =
             Append(outer.subprocesses_variables, done.variables) \o done.subprocesses_variables
  BY ONLY both = Plus(outer, done) DEF Plus
<1> PICK then : then = [k \in 1..n |-> IF k = n THEN Len(new) + 1 ELSE from[k]]
  OBVIOUS
<1>19. \A k \in 1..(n - 1) : then[k] = from[k]
  <2>1. \A k \in 1..(n - 1) : k \in 1..n /\ k # n
    BY ONLY <1>2
  <2> QED BY ONLY <2>1, then = [k \in 1..n |-> IF k = n THEN Len(new) + 1 ELSE from[k]]
<1>20. Laid(ms, new, then)
  <2>1. Laid(ds, new, from) /\ Len(ds) >= 2 /\ outer = ds[Len(ds) - 1] /\ done = ds[Len(ds)]
    BY ONLY <1>2, <1>3, <1>11, <1>12 DEF Told
  <2>2. /\ ms \in Seq(Range(ms)) /\ Len(ms) = Len(ds) - 1 /\ ms[Len(ds) - 1] = both
        /\ \A k \in 1..(Len(ds) - 2) : ms[k] = ds[k]
    BY ONLY <1>12, <1>13, <1>15, <1>17
  <2>3. then = [k \in 1..Len(ds) |-> IF k = Len(ds) THEN Len(new) + 1 ELSE from[k]]
    BY ONLY <1>12, then = [k \in 1..n |-> IF k = n THEN Len(new) + 1 ELSE from[k]]
  <2>4. Merged(ds, ms)
    <3>1. both = Plus(ds[Len(ds) - 1], ds[Len(ds)])
      BY ONLY <2>1, both = Plus(outer, done)
    <3> QED BY ONLY <2>2, <3>1 DEF Merged
  <2>5. Laid(ds, new, from) /\ Len(ds) >= 2
    BY ONLY <2>1
  <2> QED BY ONLY <2>3, <2>4, <2>5, LaidMerged
<1>21. Len(rt) = n - 1 /\ \A k \in 1..(n - 1) : rt[k] = st[k]
  <2>1. stack \in Seq(Frames) /\ stack # <<>>
    BY <1>1, TopOK DEF Working
  <2>2. rt = Front(st)
    BY <1>1 DEF LeaveScenario
  <2>3. n = Len(st)
    BY ONLY <1>8
  <2>4. st \in Seq(Frames) /\ st # <<>>
    BY ONLY <2>1, st = stack
  <2>5. /\ Front(st) \in Seq(Frames) /\ Len(Front(st)) = Len(st) - 1
        /\ \A k \in 1..(Len(st) - 1) : Front(st)[k] = st[k]
    BY ONLY <2>4, Popped
  <2> QED BY ONLY <2>2, <2>3, <2>5
<1>22. NamesIn(st[n].scenar) \subseteq DOMAIN new[from[n]]
  <2>1. NamesPast(top, maps[from[Len(stack)]])
    BY <1>1, <1>2, Innermost
  <2>2. NamesIn(top.scenar) \subseteq DOMAIN maps[from[Len(stack)]]
    BY <1>1, <2>1, AllNamed
  <2>3. top = st[n]
    BY ONLY st = stack, n = Len(stack) DEF top
  <2> QED BY ONLY <1>11, <2>2, <2>3, n = Len(stack)
<1>23. Told(ms, rt, text, new, then, who)
  <2>1. Laid(ds, new, from) /\ Named(st, new, from, who) /\ Tallied(new, text)
    BY ONLY <1>11 DEF Told
  <2>2. Len(ds) >= 1 /\ Len(st) = Len(ds) /\ Len(st) = n
    BY ONLY <1>2, <1>8, <1>12
  <2>3. Named(rt, new, then, who)
    <3>1. NamesIn(st[Len(st)].scenar) \subseteq DOMAIN new[from[Len(ds)]]
      BY ONLY <1>22, <2>2
    <3>2. Len(rt) = Len(st) - 1 /\ \A k \in 1..(Len(st) - 1) : rt[k] = st[k]
      BY ONLY <1>21, <2>2
    <3>3. \A k \in 1..(Len(st) - 1) : then[k] = from[k]
      BY ONLY <1>19, <2>2
    <3> QED BY ONLY <2>1, <2>2, <3>1, <3>2, <3>3, NamedPopped
  <2> QED BY ONLY <1>20, <2>1, <2>3 DEF Told
\* And names the interval.
<1>24. Recounted(ms, gs, ofs, names, 0)
  <2>1. gs[Len(ms)] = Counted(ms[Len(ms)], ofs, names, 0) /\ Len(gs) = Len(ms)
    BY ONLY <1>15, <1>16, f = Counted(both, ofs, names, 0)
  <2>2. \A k \in 1..(Len(ms) - 1) : gs[k] = ms[k]
    <3>1. Len(ms) - 1 = n - 2
      BY ONLY <1>2, <1>15
    <3> QED BY ONLY <1>15, <1>16, <3>1
  <2> QED BY ONLY <1>17, <2>1, <2>2 DEF Recounted
<1>25. names \in Seq(AllNames) /\ \A w \in Range(names) : w = named
  <2>1. Len(names) = 1 /\ names[1] = named /\ DOMAIN names = {1}
    BY ONLY names = <<named>>
  <2>2. names \in Seq(AllNames)
    BY ONLY <1>7, names = <<named>>
  <2> QED BY ONLY <2>1, <2>2 DEF Range
<1>26. Wrote(text, more, names)
  <2> SUFFICES ASSUME NEW w \in AllNames
               PROVE  Copies(w, more) = Copies(w, text) + Copies(w, ToBag(names))
    BY DEF Wrote
  <2> PICK extra, total, count :
        /\ extra = Copies(w, ToBag(line)) /\ total = Copies(w, text)
        /\ count = Copies(w, ToBag(names))
    OBVIOUS
  <2>1. w # brace /\ w # of
    BY ONLY brace = <<curly>>, of = <<"of">>, w \in AllNames, NameIsNoWord
  <2>2. extra = (IF brace = w THEN 1 ELSE 0) + (IF of = w THEN 1 ELSE 0)
                  + (IF named = w THEN 1 ELSE 0)
    BY ONLY line = <<brace, of, named>>, extra = Copies(w, ToBag(line)), CopiesOfThree
  <2>3. count = IF named = w THEN 1 ELSE 0
    BY ONLY names = <<named>>, count = Copies(w, ToBag(names)), CopiesOfOne
  <2>4. extra = count
    BY ONLY <2>1, <2>2, <2>3
  <2>5. more = text (+) ToBag(line)
    BY ONLY <1>5, text = words, more = words'
  <2>6. Copies(w, more) = total + extra
    BY ONLY <2>5, total = Copies(w, text), extra = Copies(w, ToBag(line)), WordsAdded
  <2> QED BY ONLY <2>4, <2>6, total = Copies(w, text), count = Copies(w, ToBag(names))
<1>27. who[then[n - 1]] = prev.scenar
  <2>1. Named(rt, new, then, who)
    BY ONLY <1>23 DEF Told
  <2>2. n - 1 \in 1..(n - 1) /\ n - 1 \in 1..Len(rt)
    BY ONLY <1>2, <1>3, <1>21
  <2>3. who[then[n - 1]] = rt[n - 1].scenar
    BY ONLY <2>1, <2>2 DEF Named
  <2>4. rt[n - 1] = prev
    BY ONLY <1>21, <2>2, st = stack, prev = stack[n - 1]
  <2> QED BY ONLY <2>3, <2>4
<1>28. PICK final : Told(gs, rt, more, final, then, who)
  <2>1. Len(ms) >= 1 /\ Len(rt) = Len(ms)
    BY ONLY <1>2, <1>3, <1>15, <1>21
  <2>2. \A w \in Range(names) : w[1] = "Scenario" \/ w \in NamesIn(who[then[Len(ms)]])
    BY ONLY <1>7, <1>15, <1>25, <1>27
  <2>3. NamesAdded(gs, rt, more, new, then, who, names)
    BY ONLY <1>23, <1>24, <1>25, <1>26, <2>1, <2>2, NamesCounted
  <2> QED BY ONLY <2>3 DEF NamesAdded
<1>29. Told(factors, stack, words, final, then, who)'
  <2>1. Told(factors', stack', words', final, then, who)
    BY ONLY <1>28, gs = factors', rt = stack', more = words'
  <2> QED BY ONLY <1>1, <2>1, ToldNext
<1>30. Entered(Range(who))'
  <2> PICK E : E = Range(who)
    OBVIOUS
  <2>1. Entered(E)
    BY DEF InOrder
  <2> QED BY <1>1, <2>1, LeaveScenarioEnters
<1>31. InOrder(who)'
  <2>1. Len(stack') = n - 1 /\ \A k \in 1..(n - 1) : stack'[k] = stack[k]
    BY ONLY <1>21, rt = stack', st = stack
  <2>2. /\ Len(stack') \in Nat /\ Len(stack') <= Len(stack)
        /\ \A k \in 1..Len(stack') : stack'[k].scenar = stack[k].scenar
        /\ \A k \in 1..(Len(stack') - 1) : stack'[k].at = stack[k].at
    BY ONLY <1>2, <2>1, n = Len(stack)
  <2> QED BY <1>1, <1>30, <2>2, OrderStays
<1> QED BY <1>29, <1>31 DEF NamesTell

\* A scenario is over.
LEMMA LeaveNames ==
    ASSUME WalkInv, FactorsTell, NamesTell, MetricsLeave
    PROVE  NamesTell'
BY LeaveFirstNames, LeaveHeldNames

\* No scenario has been entered, and no name written.
LEMMA NamesBegin == Init => NamesTell
<1> SUFFICES ASSUME Init, visitor = "metrics" PROVE NamesTell
  BY DEF NamesTell
<1>1. /\ ScoreOK(score) /\ Len(stack) = 0 /\ roots = {score.first}
      /\ factors = <<>> /\ stack = <<>> /\ words = EmptyBag
  <2>1. ScoreOK(score)
    BY ScoresAssumption DEF Init
  <2> QED BY <2>1 DEF Init
<1> PICK none : none = <<>>
  OBVIOUS
<1> PICK from : from = [k \in 1..1 |-> 1]
  OBVIOUS
<1>2. Len(none) = 0 /\ none \in Seq(AllScenarios) /\ Range(none) = {} /\ 1..0 = {}
  <2>1. Len(none) = 0 /\ none \in Seq(AllScenarios) /\ DOMAIN none = {}
    BY ONLY none = <<>>
  <2> QED BY ONLY <2>1 DEF Range
<1>3. Laid(factors, none, from)
  BY <1>1, LaidNone
<1>4. Named(stack, none, from, none)
  BY <1>1, <1>2 DEF Named
<1>5. Tallied(none, words)
  <2> SUFFICES ASSUME NEW w \in AllNames PROVE Copies(w, words) = CopiesOver(none, w)
    BY DEF Tallied
  <2>1. Copies(w, EmptyBag) = 0
    BY ONLY CopiesOfNone
  <2>2. CopiesOver(none, w) = 0
    BY ONLY none = <<>>, CopiesOverNone
  <2> QED BY <1>1, <2>1, <2>2
<1>6. Entered({})
  <2>1. score.first \in scenariosOf(Base)
    BY <1>1 DEF ScoreOK, scenariosOf
  <2>2. ASSUME NEW p \in AllScenarios PROVE Ahead(p, {})
    BY DEF Ahead
  <2>3. roots \subseteq scenariosOf(Base)
    BY <1>1, <2>1
  <2> QED BY <1>1, <1>2, <2>2, <2>3 DEF Entered
<1>7. InOrder(none)
  <2>1. \A k \in 1..(Len(stack) - 1) : FALSE
    BY <1>1
  <2> QED BY <1>1, <1>2, <1>6, <2>1 DEF InOrder
<1>8. Told(factors, stack, words, none, from, none)
  BY <1>3, <1>4, <1>5 DEF Told
<1> QED BY <1>7, <1>8 DEF NamesTell

\* Nothing happens.
LEMMA NamesStay == ASSUME NamesTell, UNCHANGED vars PROVE NamesTell'
<1>1. UNCHANGED <<score, visitor, roots, stack, words, factors>>
  BY DEF vars
<1> SUFFICES ASSUME visitor = "metrics" PROVE NamesTell'
  BY <1>1 DEF NamesTell
<1> PICK maps, from, who : Told(factors, stack, words, maps, from, who) /\ InOrder(who)
  BY DEF NamesTell
<1>2. Told(factors, stack, words, maps, from, who)'
  BY <1>1, ToldNext
<1>3. InOrder(who)'
  <2>1. /\ AllScenarios' = AllScenarios
        /\ \A p : Reached(p)' <=> Reached(p)
        /\ \A p, E : Ahead(p, E)' <=> Ahead(p, E)
        /\ \A f, E : FrameEnters(f, E)' <=> FrameEnters(f, E)
        /\ scenariosOf(Base)' = scenariosOf(Base)
    BY <1>1 DEF AllScenarios, Reached, HoldsAll, Ahead, FrameEnters, scenariosOf
  <2> PICK E : E = Range(who)
    OBVIOUS
  <2>2. Entered(E)
    BY DEF InOrder
  <2>3. Entered(E)'
    BY <1>1, <2>1, <2>2 DEF Entered
  <2> QED BY <1>1, <2>1, <2>3 DEF InOrder
<1> QED BY <1>2, <1>3 DEF NamesTell

\* The names counted are those of the scenarios entered, and of the text.
THEOREM NamesInvariance == Spec => []NamesTell
<1>1. Init => NamesTell
  BY NamesBegin
<1>2. WalkInv /\ FactorsTell /\ NamesTell /\ [Next]_vars => NamesTell'
  <2> SUFFICES ASSUME WalkInv, FactorsTell, NamesTell, [Next]_vars PROVE NamesTell'
    OBVIOUS
  <2>1. ASSUME NEW x \in score.objects, MetricsVisit(x) PROVE NamesTell'
    BY <2>1, VisitNames
  <2>2. ASSUME NEW p \in DOMAIN score.kind, MetricsEnter(p) PROVE NamesTell'
    BY <2>2, EnterFirstNames, EnterHeldNames
  <2>3. CASE MetricsLeave
    BY <2>3, LeaveNames
  <2>4. CASE MetricsLeaveInterval
    BY <2>4, LeaveIntervalNames
  <2>5. CASE NextContainer
    <3>1. visitor' = visitor
      BY <2>5 DEF NextContainer
    <3>2. CASE visitor = "metrics"
      BY <2>5, <3>2, NextContainerNames
    <3>3. CASE visitor # "metrics"
      BY <3>1, <3>3 DEF NamesTell
    <3> QED BY <3>2, <3>3
  <2>6. CASE visitor' = visitor /\ visitor # "metrics"
    BY <2>6 DEF NamesTell
  <2>7. CASE UNCHANGED vars
    BY <2>7, NamesStay
  <2>8. ASSUME NEW x \in score.objects, MLVisit(x) \/ CPPVisit(x) \/ StatisticsVisit(x)
        PROVE  visitor' = visitor /\ visitor # "metrics"
    BY <2>8 DEF MLVisit, CPPVisit, StatisticsVisit
  <2>9. ASSUME NEW p \in DOMAIN score.kind, StatisticsEnter(p)
        PROVE  visitor' = visitor /\ visitor # "metrics"
    BY <2>9 DEF StatisticsEnter
  <2>10. ASSUME StatisticsLeaveInterval \/ StatisticsLeave \/ ExportWalks
         PROVE  visitor' = visitor /\ visitor # "metrics"
    BY <2>10 DEF StatisticsLeaveInterval, StatisticsLeave, ExportWalks
  <2> QED BY <2>1, <2>2, <2>3, <2>4, <2>5, <2>6, <2>7, <2>8, <2>9, <2>10 DEF Next
<1>3. Init /\ [][Next]_vars /\ []WalkInv /\ []FactorsTell => []NamesTell
  BY <1>1, <1>2, PTL
<1> QED BY <1>3, WalkInvariance, FactorsInvariance, PTL DEF Spec

-----------------------------------------------------------------------------
\* A scenario has as many names of objects as it has objects.
LEMMA NamesAreObjects ==
    ASSUME ScoreOK(score), NEW p, NEW A, \A x : x \in A <=> x \in score.objects /\ x[2] = p
    PROVE  IsFiniteSet(A) /\ Cardinality(NamesIn(p)) = Cardinality(A)
<1>1. \A x \in A : x = <<x[1], x[2], x[3]>> /\ x[2] = p
  BY DEF ScoreOK
<1>2. IsFiniteSet(A)
  <2>1. A \subseteq score.objects /\ IsFiniteSet(score.objects)
    BY DEF ScoreOK
  <2> QED BY <2>1, FS_Subset
<1> PICK N : N = NamesIn(p)
  OBVIOUS
<1>3. \A y : y \in N <=> \E x \in A : y = Name(x)
  BY DEF NamesIn
<1> PICK g : g = [x \in A |-> Name(x)]
  OBVIOUS
<1>4. DOMAIN g = A /\ \A x \in A : g[x] = <<x[1], x[3]>>
  BY DEF Name
<1>5. g \in [A -> N]
  BY <1>3
<1>6. IsInjective(g)
  <2> SUFFICES ASSUME NEW x \in A, NEW y \in A, g[x] = g[y] PROVE x = y
    BY <1>4 DEF IsInjective
  <2>1. x[1] = y[1] /\ x[3] = y[3]
    BY <1>4
  <2> QED BY ONLY <1>1, <2>1, x \in A, y \in A
<1>7. \A y \in N : \E x \in A : g[x] = y
  BY <1>3
<1>8. g \in Bijection(A, N)
  BY <1>5, <1>6, <1>7 DEF Bijection, Injection, Surjection
<1>9. Cardinality(N) = Cardinality(A)
  BY <1>2, <1>8, FS_Bijection DEF ExistsBijection
<1> QED BY <1>2, <1>9

\* At the end the scenarios entered are those reached.
LEMMA ReachedAreEntered ==
    ASSUME WalkTypeOK, NEW who, InOrder(who), Done
    PROVE  \A p \in AllScenarios : Reached(p) <=> p \in Range(who)
<1> PICK E : E = Range(who)
  OBVIOUS
<1>1. /\ Entered(E) /\ \A i \in 1..Len(who) : Reached(who[i])
      /\ score.first \in E
  BY DEF InOrder, Done
<1>2. \A p \in E : Reached(p)
  <2>1. who \in Seq(AllScenarios)
    BY DEF InOrder
  <2> QED BY <1>1, <2>1 DEF Range
<1>3. ASSUME NEW p \in AllScenarios, Reached(p) PROVE p \in E
  <2> PICK S : S = E \cup (DOMAIN score.kind \ AllScenarios)
    OBVIOUS
  <2>1. E \subseteq AllScenarios /\ AllScenarios \subseteq DOMAIN score.kind
    BY <1>1 DEF Entered, AllScenarios
  <2>2. ASSUME NEW q \in DOMAIN score.kind, score.holder[q] # Base, score.holder[q][2] \in S
        PROVE  q \in S
    <3>1. score.holder[q][2] \in AllScenarios
      BY <2>2, Holders
    <3>2. score.holder[q][2] \in E
      BY <2>2, <3>1
    <3> QED BY <1>1, <2>2, <3>2, AllEntered
  <2>3. HoldsAll(S)
    BY <1>1, <2>2 DEF HoldsAll
  <2>4. S \in SUBSET DOMAIN score.kind
    BY <2>1
  <2>5. p \in S
    BY <1>3, <2>3, <2>4 DEF Reached
  <2> QED BY <2>5
<1> QED BY <1>2, <1>3

\* The factors of the first scenario have the maps of all.
LEMMA AllMaps ==
    ASSUME NEW fs, NEW maps, NEW from, Laid(fs, maps, from), Len(fs) = 1
    PROVE  <<fs[1].variables>> \o fs[1].subprocesses_variables = maps
<1> PICK n, s, one, S : /\ n = Len(maps) /\ s = fs[1].subprocesses_variables
                        /\ one = <<fs[1].variables>> /\ S = NameBags
  OBVIOUS
<1>1. /\ n \in Nat /\ n >= 1 /\ maps \in Seq(S) /\ fs[1].variables = maps[1]
      /\ s \in Seq(S) /\ Len(s) = n - 1 /\ \A j \in 1..(n - 1) : s[j] = maps[1 + j]
  <2>1. /\ maps \in Seq(NameBags) /\ from[1] = 1 /\ from[2] = n + 1
        /\ FactorIs(fs[1], maps, from[1], from[1 + 1] - 1)
    BY DEF Laid
  <2>2. n \in Nat
    BY <2>1
  <2>3. 1 \in 1..Len(fs)
    OBVIOUS
  <2>4. from[1] \in 1..Len(maps)
    BY <2>3, Where
  <2>5. n >= 1
    BY <2>1, <2>2, <2>4
  <2>6. from[1 + 1] - 1 = n /\ from[1] = 1
    BY ONLY <2>1, <2>2
  <2>7. FactorIs(fs[1], maps, 1, n)
    BY <2>1, <2>6
  <2> QED BY <2>1, <2>2, <2>5, <2>7 DEF FactorIs
<1>2. one \in Seq(S) /\ Len(one) = 1 /\ one[1] = maps[1]
  <2>1. 1 \in 1..Len(maps)
    BY <1>1
  <2>2. maps[1] \in S
    BY ONLY <1>1, <2>1
  <2>3. one = <<maps[1]>>
    BY <1>1
  <2> QED BY ONLY <2>2, <2>3
<1>3. Len(maps) = Len(one) + Len(s)
  BY ONLY <1>1, <1>2, n = Len(maps)
<1>4. \A k \in 1..Len(one) : maps[k] = one[k]
  <2>1. \A k \in 1..1 : k = 1
    OBVIOUS
  <2> QED BY ONLY <1>2, <2>1
<1>5. \A k \in 1..Len(s) : maps[Len(one) + k] = s[k]
  BY ONLY <1>1, <1>2
<1>6. one \o s = maps
  BY ONLY <1>1, <1>2, <1>3, <1>4, <1>5, JoinedIs
<1> QED BY <1>6

\* A map that is full has the names of all objects of its scenario, and those only.
LEMMA FullMaps ==
    ASSUME WalkTypeOK, Done, NEW maps, NEW from, NEW who, Named(stack, maps, from, who),
           NEW i \in 1..Len(maps)
    PROVE  ObjectNames(maps[i]) = NamesIn(who[i])
<1>1. Len(stack) = 0
  BY DEF Done, Working
<1>2. \A k \in 1..Len(stack) : i # from[k]
  BY <1>1
<1>3. ObjectNames(maps[i]) \subseteq NamesIn(who[i]) /\ NamesIn(who[i]) \subseteq DOMAIN maps[i]
  BY <1>2 DEF Named
<1>4. ASSUME NEW y \in NamesIn(who[i]) PROVE y[1] # "Scenario"
  <2> PICK x \in score.objects : y = Name(x)
    BY DEF NamesIn
  <2>1. x[1] \in {"interval", "event", "timeSync", "state"}
    BY Known DEF ScoreOK
  <2>2. y[1] = x[1]
    BY DEF Name
  <2> QED BY <2>1, <2>2
<1> QED BY <1>3, <1>4 DEF ObjectNames

\* Their sizes make up the number of objects in the scenarios reached.
LEMMA SizesAddUp ==
    ASSUME WalkTypeOK, Done, NEW maps \in Seq(NameBags), NEW from, NEW who,
           Named(stack, maps, from, who), InOrder(who)
    PROVE  FoldLeft(LAMBDA n, m : n + Cardinality(ObjectNames(m)), 0, maps)
              = Cardinality({x \in score.objects : Reached(x[2])})
<1> PICK n : n = Len(maps)
  OBVIOUS
<1> PICK A : A = [i \in 1..n |-> {x \in score.objects : x[2] = who[i]}]
  OBVIOUS
<1> PICK g : g = [i \in 1..n |-> Cardinality(A[i])]
  OBVIOUS
<1> PICK U : U = {x \in score.objects : Reached(x[2])}
  OBVIOUS
<1>1. n \in Nat /\ DOMAIN maps = 1..n /\ Len(who) = n /\ who \in Seq(AllScenarios)
      /\ \A i, j \in 1..n : who[i] = who[j] => i = j
  <2>1. n \in Nat /\ DOMAIN maps = 1..n
    OBVIOUS
  <2>2. Len(who) = n
    BY DEF Named
  <2>3. who \in Seq(AllScenarios) /\ \A i, j \in 1..Len(who) : who[i] = who[j] => i = j
    BY DEF InOrder
  <2> QED BY ONLY <2>1, <2>2, <2>3
<1>2. ScoreOK(score)
  BY Known
<1>3. ASSUME NEW i \in 1..n
      PROVE  IsFiniteSet(A[i]) /\ Cardinality(ObjectNames(maps[i])) = Cardinality(A[i])
  <2> PICK T, p : T = A[i] /\ p = who[i]
    OBVIOUS
  <2>1. \A x : x \in T <=> x \in score.objects /\ x[2] = p
    OBVIOUS
  <2>2. IsFiniteSet(T) /\ Cardinality(NamesIn(p)) = Cardinality(T)
    BY ONLY <1>2, <2>1, NamesAreObjects
  <2>3. ObjectNames(maps[i]) = NamesIn(p)
    BY FullMaps
  <2> QED BY <2>2, <2>3
<1>4. \A i \in 1..n : /\ g[i] = Cardinality(A[i]) /\ g[i] = Cardinality(ObjectNames(maps[i]))
                      /\ g[i] \in Nat
  BY <1>3, FS_CardinalityType
<1>5. FoldLeft(LAMBDA i, m : i + Cardinality(ObjectNames(m)), 0, maps) = SumOver(g, 1..n)
  <2>1. \A i \in 1..n : g[i] = Cardinality(ObjectNames(maps[i])) /\ g[i] \in Nat
    BY ONLY <1>4
  <2>2. n \in Nat /\ DOMAIN maps = 1..n
    BY ONLY <1>1
  <2> QED BY ONLY <2>1, <2>2, SizesFolded
<1>6. IsFiniteSet(1..n)
  <2>1. 1 \in Int /\ n \in Int
    BY <1>1
  <2> QED BY <2>1, FS_Interval
<1>7. \A y : y \in U <=> \E i \in 1..n : y \in A[i]
  <2>1. \A p \in AllScenarios : Reached(p) <=> p \in Range(who)
    BY ReachedAreEntered
  <2>2. \A x \in score.objects : x[2] \in AllScenarios
    BY Holders
  <2>3. \A p : p \in Range(who) <=> \E i \in 1..n : who[i] = p
    BY <1>1 DEF Range
  <2>4. \A y : y \in U <=> y \in score.objects /\ Reached(y[2])
    OBVIOUS
  <2>5. \A i \in 1..n : \A y : y \in A[i] <=> y \in score.objects /\ y[2] = who[i]
    OBVIOUS
  <2> QED BY ONLY <2>1, <2>2, <2>3, <2>4, <2>5
<1>8. \A i, j \in 1..n : i # j => A[i] \cap A[j] = {}
  BY <1>1
<1>9. SumOver(g, 1..n) = Cardinality(U)
  <2> PICK S : S = 1..n
    OBVIOUS
  <2>1. /\ IsFiniteSet(S) /\ \A x \in S : IsFiniteSet(A[x])
        /\ \A x, y \in S : x # y => A[x] \cap A[y] = {}
    BY ONLY <1>3, <1>6, <1>8, S = 1..n
  <2>2. \A x \in S : g[x] = Cardinality(A[x])
    BY ONLY <1>4, S = 1..n
  <2>3. \A y : y \in U <=> \E x \in S : y \in A[x]
    BY ONLY <1>7, S = 1..n
  <2>4. SumOver(g, S) = Cardinality(U)
    BY ONLY <2>1, <2>2, <2>3, SumOfParts
  <2> QED BY ONLY <2>4, S = 1..n
<1> QED BY ONLY <1>5, <1>9, U = {x \in score.objects : Reached(x[2])}

\* In all of them a name is counted as often as the text has it.
LEMMA CopiesAddUp ==
    ASSUME NEW maps, maps \in Seq(NameBags), NEW text, Tallied(maps, text),
           NEW name \in UNION {DOMAIN maps[k] : k \in DOMAIN maps}
    PROVE  FoldLeft(LAMBDA n, m : n + Copies(name, m), 0, maps) = Copies(name, text)
<1> PICK n : n = Len(maps)
  OBVIOUS
<1> PICK g : g = [i \in 1..Len(maps) |-> Copies(name, maps[i])]
  OBVIOUS
<1>1. n \in Nat /\ DOMAIN maps = 1..n /\ \A i \in 1..n : maps[i] \in NameBags
  OBVIOUS
<1>2. \A i \in 1..n : g[i] = Copies(name, maps[i]) /\ g[i] \in Nat
  BY <1>1, CopiesNat
<1>3. name \in AllNames
  <2> PICK k \in 1..n : name \in DOMAIN maps[k]
    BY <1>1
  <2>1. DOMAIN maps[k] \subseteq AllNames
    BY <1>1, NameBagIs
  <2> QED BY <2>1
<1>4. FoldLeft(LAMBDA i, m : i + Copies(name, m), 0, maps) = SumOver(g, 1..n)
  BY ONLY <1>1, <1>2, CopiesFolded
<1>5. CopiesOver(maps, name) = SumOver(g, 1..n)
  BY DEF CopiesOver
<1>6. Copies(name, text) = CopiesOver(maps, name)
  BY <1>3 DEF Tallied
<1> QED BY ONLY <1>4, <1>5, <1>6

\* Whatever the document, the metrics keep the names of each scenario apart, lose
\* none, and count each as often as the text has it.
THEOREM NamesAlwaysApart == Spec => []NamesKeptApart
<1>1. ASSUME WalkInv, FactorsTell, NamesTell PROVE NamesKeptApart
  <2> SUFFICES ASSUME visitor = "metrics", Done PROVE NamesKeptApart
    BY DEF NamesKeptApart
  <2>1. WalkTypeOK /\ Len(factors) = 1
    BY <1>1 DEF WalkInv, FactorsTell, Done, Working
  <2> PICK maps, from, who : Told(factors, stack, words, maps, from, who) /\ InOrder(who)
    BY <1>1 DEF NamesTell
  <2>2. /\ Laid(factors, maps, from) /\ Named(stack, maps, from, who) /\ Tallied(maps, words)
        /\ maps \in Seq(NameBags)
    BY DEF Told, Laid
  <2>3. <<factors[1].variables>> \o factors[1].subprocesses_variables = maps
    BY ONLY <2>1, <2>2, AllMaps
  <2>4. FoldLeft(LAMBDA n, m : n + Cardinality(ObjectNames(m)), 0, maps)
           = Cardinality({x \in score.objects : Reached(x[2])})
    BY <2>1, <2>2, SizesAddUp
  <2>5. \A name \in UNION {DOMAIN maps[k] : k \in DOMAIN maps} :
           FoldLeft(LAMBDA n, m : n + Copies(name, m), 0, maps) = Copies(name, words)
    BY <2>2, CopiesAddUp
  <2> QED BY ONLY <2>3, <2>4, <2>5, Zenon DEF NamesKeptApart
<1> QED BY <1>1, WalkInvariance, FactorsInvariance, NamesInvariance, PTL

-----------------------------------------------------------------------------
(* The tree of a device.                                                   *)

\* The nodes under n, itself included: those of any set that has n and, with a
\* node, its children.
Downwards(d, S) == \A m \in S : d.children[m] \subseteq S
Under(d, n) ==
    {m \in DOMAIN d.children :
        \A S \in SUBSET DOMAIN d.children : n \in S /\ Downwards(d, S) => m \in S}

\* What a node is under, but for itself, one of its parents is under.
LEMMA UnderIs ==
    ASSUME NEW d, DeviceOK(d), NEW n \in DOMAIN d.children
    PROVE  /\ n \in Under(d, n) /\ Downwards(d, Under(d, n))
           /\ Under(d, n) \subseteq DOMAIN d.children /\ IsFiniteSet(Under(d, n))
           /\ \A S \in SUBSET DOMAIN d.children :
                 n \in S /\ Downwards(d, S) => Under(d, n) \subseteq S
           /\ \A m \in Under(d, n) : m # n => \E p \in Under(d, n) : m \in d.children[p]
<1>1. /\ IsFiniteSet(DOMAIN d.children)
      /\ \A m \in DOMAIN d.children : d.children[m] \subseteq DOMAIN d.children
  BY DEF DeviceOK
<1>2. Under(d, n) \subseteq DOMAIN d.children /\ IsFiniteSet(Under(d, n))
  <2>1. Under(d, n) \subseteq DOMAIN d.children
    BY DEF Under
  <2> QED BY <1>1, <2>1, FS_Subset
<1>3. n \in Under(d, n)
  BY DEF Under
<1>4. \A S \in SUBSET DOMAIN d.children : n \in S /\ Downwards(d, S) => Under(d, n) \subseteq S
  BY DEF Under
<1>5. ASSUME NEW m \in Under(d, n), NEW k \in d.children[m] PROVE k \in Under(d, n)
  <2>1. k \in DOMAIN d.children
    BY <1>1, <1>2
  <2>2. ASSUME NEW S \in SUBSET DOMAIN d.children, n \in S, Downwards(d, S) PROVE k \in S
    BY <1>4, <2>2 DEF Downwards
  <2> QED BY <2>1, <2>2 DEF Under
<1>6. Downwards(d, Under(d, n))
  BY <1>5 DEF Downwards
<1>7. ASSUME NEW m \in Under(d, n), m # n, \A p \in Under(d, n) : m \notin d.children[p]
      PROVE  FALSE
  <2>1. Downwards(d, Under(d, n) \ {m})
    BY <1>6, <1>7 DEF Downwards
  <2>2. n \in Under(d, n) \ {m} /\ Under(d, n) \ {m} \in SUBSET DOMAIN d.children
    BY <1>2, <1>3, <1>7
  <2> QED BY <1>4, <2>1, <2>2
<1> QED BY <1>2, <1>3, <1>4, <1>6, <1>7

\* A node has one parent.
LEMMA OneParent ==
    ASSUME NEW d, DeviceOK(d), NEW m \in DOMAIN d.children, NEW n \in d.children[m]
    PROVE  /\ n \in DOMAIN d.children /\ n # d.root
           /\ \A k \in DOMAIN d.children : n \in d.children[k] => k = m
<1>1. n \in DOMAIN d.children \ {d.root}
  BY DEF DeviceOK
<1>2. PICK p \in DOMAIN d.children : \A k \in DOMAIN d.children : n \in d.children[k] <=> k = p
  BY <1>1 DEF DeviceOK
<1> QED BY <1>1, <1>2

\* No node is under its child.
LEMMA NotUnder ==
    ASSUME NEW d, DeviceOK(d), NEW n \in DOMAIN d.children, NEW c \in d.children[n]
    PROVE  n \notin Under(d, c)
<1> SUFFICES ASSUME n \in Under(d, c) PROVE FALSE
  OBVIOUS
<1>1. c \in DOMAIN d.children
  BY OneParent
<1> PICK U : U = {r \in Under(d, c) : n \in Under(d, r)}
  OBVIOUS
<1>2. c \in U /\ n \in U
  BY <1>1, UnderIs
<1>3. U \subseteq DOMAIN d.children
  BY <1>1, UnderIs
<1>4. ASSUME NEW r \in U PROVE \E p \in U : r \in d.children[p]
  <2>1. CASE r = c
    BY <1>2, <2>1
  <2>2. CASE r # c
    <3>1. PICK p \in Under(d, c) : r \in d.children[p]
      BY <1>1, <2>2, UnderIs
    <3>2. p \in DOMAIN d.children /\ r \in DOMAIN d.children
      BY <1>1, <1>3, UnderIs
    <3>3. r \in Under(d, p) /\ Downwards(d, Under(d, p)) /\ Under(d, p) \in SUBSET DOMAIN d.children
      BY <3>1, <3>2, UnderIs DEF Downwards
    <3>4. Under(d, r) \subseteq Under(d, p)
      BY <3>2, <3>3, UnderIs
    <3> QED BY <3>1, <3>4
  <2> QED BY <2>1, <2>2
<1>5. d.root \notin U
  BY <1>3, <1>4, OneParent
<1>6. U \in SUBSET (DOMAIN d.children \ {d.root}) /\ U # {}
  BY <1>2, <1>3, <1>5
<1>7. PICK r \in U : \A m \in U : r \notin d.children[m]
  BY <1>6 DEF DeviceOK
<1> QED BY <1>4, <1>7

\* Under a node are itself and what is under its children.
LEMMA UnderChildren ==
    ASSUME NEW d, DeviceOK(d), NEW n \in DOMAIN d.children
    PROVE  /\ \A m : m \in Under(d, n) <=> m = n \/ \E c \in d.children[n] : m \in Under(d, c)
           /\ \A c \in d.children[n] : n \notin Under(d, c)
           /\ \A b, c \in d.children[n] : b # c => Under(d, b) \cap Under(d, c) = {}
<1>1. \A c \in d.children[n] : c \in DOMAIN d.children /\ n \notin Under(d, c)
  BY OneParent, NotUnder
<1>2. n \in Under(d, n) /\ Downwards(d, Under(d, n)) /\ Under(d, n) \in SUBSET DOMAIN d.children
  BY UnderIs
<1>3. \A c \in d.children[n] : Under(d, c) \subseteq Under(d, n)
  BY <1>1, <1>2, UnderIs DEF Downwards
<1> DEFINE W == {n} \cup UNION {Under(d, c) : c \in d.children[n]}
<1>4. W \in SUBSET DOMAIN d.children /\ n \in W
  BY <1>1, UnderIs
<1>5. ASSUME NEW m \in W, NEW k \in d.children[m] PROVE k \in W
  <2>1. CASE m = n
    <3>1. k \in d.children[n] /\ k \in Under(d, k)
      BY <1>1, <2>1, UnderIs
    <3> QED BY <3>1
  <2>2. CASE m # n
    <3>1. PICK c \in d.children[n] : m \in Under(d, c)
      BY <2>2
    <3>2. k \in Under(d, c)
      BY <1>1, <3>1, UnderIs DEF Downwards
    <3> QED BY <3>2
  <2> QED BY <2>1, <2>2
<1>6. Downwards(d, W)
  BY <1>5 DEF Downwards
<1>7. Under(d, n) \subseteq W
  <2> HIDE DEF W
  <2> QED BY <1>4, <1>6, UnderIs
<1>8. \A m : m \in Under(d, n) <=> m = n \/ \E c \in d.children[n] : m \in Under(d, c)
  BY <1>2, <1>3, <1>7
<1>9. ASSUME NEW b \in d.children[n], NEW c \in d.children[n], b # c,
             Under(d, b) \cap Under(d, c) # {}
      PROVE  FALSE
  <2> PICK S : S = Under(d, b) \cap Under(d, c)
    OBVIOUS
  <2>1. /\ S \subseteq DOMAIN d.children /\ S # {}
        /\ b \in DOMAIN d.children /\ c \in DOMAIN d.children
    BY <1>1, <1>9, UnderIs
  <2>2. b \notin S /\ c \notin S
    <3>1. ASSUME NEW x \in d.children[n], NEW y \in d.children[n], x # y, x \in Under(d, y)
          PROVE  FALSE
      <4>1. PICK p \in Under(d, y) : x \in d.children[p]
        BY <1>1, <3>1, UnderIs
      <4>2. p \in DOMAIN d.children
        BY <1>1, UnderIs
      <4>3. p = n
        BY <4>1, <4>2, OneParent
      <4> QED BY <1>1, <4>3
    <3> QED BY <1>9, <3>1
  <2>3. ASSUME NEW m \in S PROVE \E p \in S : m \in d.children[p]
    <3>1. PICK p \in Under(d, b) : m \in d.children[p]
      BY <2>1, <2>2, UnderIs
    <3>2. PICK q \in Under(d, c) : m \in d.children[q]
      BY <2>1, <2>2, UnderIs
    <3>3. p \in DOMAIN d.children /\ q \in DOMAIN d.children
      BY <2>1, UnderIs
    <3>4. p = q
      BY <3>1, <3>2, <3>3, OneParent
    <3> QED BY <3>1, <3>4
  <2>4. d.root \notin S
    BY <2>1, <2>3, OneParent
  <2>5. S \in SUBSET (DOMAIN d.children \ {d.root}) /\ S # {}
    BY <2>1, <2>4
  <2>6. PICK m \in S : \A p \in S : m \notin d.children[p]
    BY <2>5 DEF DeviceOK
  <2> QED BY <2>3, <2>6
<1> QED BY <1>1, <1>8, <1>9

\* All nodes are under the root.
LEMMA UnderRoot ==
    ASSUME NEW d, DeviceOK(d)
    PROVE  Under(d, d.root) = DOMAIN d.children
<1>1. d.root \in DOMAIN d.children
  BY DEF DeviceOK
<1> PICK S : S = DOMAIN d.children \ Under(d, d.root)
  OBVIOUS
<1>2. d.root \notin S /\ Under(d, d.root) \subseteq DOMAIN d.children
  BY <1>1, UnderIs
<1>3. ASSUME S # {} PROVE FALSE
  <2>1. PICK n \in S : \A m \in S : n \notin d.children[m]
    BY <1>2, <1>3 DEF DeviceOK
  <2>2. PICK m \in DOMAIN d.children : \A k \in DOMAIN d.children : n \in d.children[k] <=> k = m
    BY <1>2 DEF DeviceOK
  <2>3. m \in Under(d, d.root) /\ n \in d.children[m]
    BY <2>1, <2>2
  <2>4. n \in Under(d, d.root)
    BY <1>1, <2>3, UnderIs DEF Downwards
  <2> QED BY <2>4
<1> QED BY <1>2, <1>3

\* There is one level to each node, one more than its parent's.
LEMMA LevelIs ==
    ASSUME NEW d, DeviceOK(d)
    PROVE  /\ Level(d)[d.root] = 0
           /\ \A n \in DOMAIN d.children : Level(d)[n] \in Nat
           /\ \A n \in DOMAIN d.children : \A c \in d.children[n] : Level(d)[c] = Level(d)[n] + 1
<1> DEFINE N == DOMAIN d.children
           Over(n) == {m \in N : n \in Under(d, m)}
           IsLevel(h) == h = [n \in N |-> IF n = d.root THEN 0
                                          ELSE 1 + h[CHOOSE m \in Above(d, n) : TRUE]]
           h0 == [n \in N |-> Cardinality(Over(n)) - 1]
<1>1. ASSUME NEW n \in N PROVE IsFiniteSet(Over(n)) /\ n \in Over(n)
  <2>1. IsFiniteSet(N) /\ Over(n) \subseteq N
    BY DEF DeviceOK
  <2>2. n \in Over(n)
    BY UnderIs
  <2> QED BY <2>1, <2>2, FS_Subset
<1>2. ASSUME NEW n \in N, NEW c \in d.children[n]
      PROVE  /\ c \in N /\ c # d.root /\ Above(d, c) = {n}
             /\ Cardinality(Over(c)) = Cardinality(Over(n)) + 1
  <2>1. c \in N /\ c # d.root /\ \A k \in N : c \in d.children[k] => k = n
    BY OneParent
  <2>2. ASSUME NEW m \in N PROVE m \in Over(c) <=> m = c \/ m \in Over(n)
    <3>1. ASSUME n \in Under(d, m) PROVE c \in Under(d, m)
      BY <3>1, UnderIs DEF Downwards
    <3>2. ASSUME c \in Under(d, m), m # c PROVE n \in Under(d, m)
      <4>1. PICK p \in Under(d, m) : c \in d.children[p]
        BY <3>2, UnderIs
      <4>2. p \in N
        BY UnderIs
      <4> QED BY <2>1, <4>1, <4>2
    <3>3. c \in Under(d, c)
      BY <2>1, UnderIs
    <3> QED BY <3>1, <3>2, <3>3
  <2>3. Over(c) = Over(n) \cup {c} /\ c \notin Over(n)
    <3>1. c \notin Over(n)
      BY <2>1, NotUnder
    <3> QED BY <2>1, <2>2, <3>1
  <2>4. Cardinality(Over(c)) = Cardinality(Over(n)) + 1
    <3> HIDE DEF Over
    <3> QED BY <1>1, <2>3, FS_AddElement
  <2> QED BY <2>1, <2>4 DEF Above
<1>3. Cardinality(Over(d.root)) = 1 /\ d.root \in N
  <2>1. d.root \in N
    BY DEF DeviceOK
  <2>2. ASSUME NEW m \in Over(d.root), m # d.root PROVE FALSE
    <3>1. PICK p \in Under(d, m) : d.root \in d.children[p]
      BY <2>2, UnderIs
    <3>2. p \in N
      BY UnderIs
    <3> QED BY <3>1, <3>2, OneParent
  <2>3. Over(d.root) = {d.root}
    BY <1>1, <2>1, <2>2
  <2> QED BY <2>1, <2>3, FS_Singleton
<1>4. ASSUME NEW n \in N PROVE Cardinality(Over(n)) - 1 \in Nat
  <2> HIDE DEF Over
  <2>1. Cardinality(Over(n)) \in Nat /\ Cardinality(Over(n)) # 0
    BY <1>1, FS_CardinalityType, FS_EmptySet
  <2> QED BY <2>1
<1>5. ASSUME NEW n \in N, n # d.root
      PROVE  /\ (CHOOSE m \in Above(d, n) : TRUE) \in N
             /\ h0[n] = 1 + h0[CHOOSE m \in Above(d, n) : TRUE]
  <2>1. PICK m \in N : n \in d.children[m]
    BY <1>5 DEF DeviceOK
  <2>2. Above(d, n) = {m} /\ Cardinality(Over(n)) = Cardinality(Over(m)) + 1
    BY <1>2, <2>1
  <2>3. (CHOOSE k \in Above(d, n) : TRUE) = m
    BY <2>2
  <2> HIDE DEF Over
  <2>4. h0[n] = Cardinality(Over(n)) - 1 /\ h0[m] = Cardinality(Over(m)) - 1
    OBVIOUS
  <2> HIDE DEF h0
  <2>5. Cardinality(Over(m)) \in Nat
    BY <1>1, FS_CardinalityType
  <2> QED BY <2>2, <2>3, <2>4, <2>5
<1>6. IsLevel(h0)
  <2>1. ASSUME NEW n \in N
        PROVE  h0[n] = IF n = d.root THEN 0 ELSE 1 + h0[CHOOSE m \in Above(d, n) : TRUE]
    <3>1. CASE n = d.root
      <4> HIDE DEF Over
      <4> QED BY <1>3, <3>1
    <3>2. CASE n # d.root
      <4> HIDE DEF h0
      <4> QED BY <1>5, <3>2
    <3> QED BY <3>1, <3>2
  <2> HIDE DEF N, Over
  <2>2. DOMAIN h0 = N /\ h0 = [n \in N |-> h0[n]]
    OBVIOUS
  <2> HIDE DEF h0
  <2> QED BY <2>1, <2>2
<1>7. Level(d) = CHOOSE h : IsLevel(h)
  BY DEF Level
<1>8. IsLevel(Level(d))
  <2>1. IsLevel(CHOOSE h : IsLevel(h))
    <3> HIDE DEF IsLevel, h0
    <3> QED BY <1>6
  <2> QED BY <1>7, <2>1
<1> DEFINE lv == Level(d)
<1>9. \A n \in N : lv[n] = IF n = d.root THEN 0 ELSE 1 + lv[CHOOSE m \in Above(d, n) : TRUE]
  <2>1. lv = [n \in N |-> IF n = d.root THEN 0 ELSE 1 + lv[CHOOSE m \in Above(d, n) : TRUE]]
    BY <1>8
  <2> HIDE DEF lv
  <2> QED BY <2>1
<1> HIDE DEF lv, h0, Over
<1>10. lv[d.root] = 0
  BY <1>3, <1>9
<1>11. ASSUME NEW n \in N, NEW c \in d.children[n] PROVE lv[c] = 1 + lv[n]
  <2>1. Above(d, c) = {n} /\ c \in N /\ c # d.root
    BY <1>2
  <2>2. (CHOOSE m \in Above(d, c) : TRUE) = n
    BY <2>1
  <2> QED BY <1>9, <2>1, <2>2
<1> DEFINE Bad == {n \in N : lv[n] \notin Nat}
<1>12. ASSUME Bad # {} PROVE FALSE
  <2>1. Bad \in SUBSET (N \ {d.root})
    BY <1>10
  <2>2. PICK n \in Bad : \A m \in Bad : n \notin d.children[m]
    BY <1>12, <2>1 DEF DeviceOK
  <2>3. PICK m \in N : n \in d.children[m]
    BY <2>1, <2>2 DEF DeviceOK
  <2>4. lv[n] = 1 + lv[m] /\ lv[m] \in Nat
    BY <1>11, <2>2, <2>3
  <2> QED BY <2>2, <2>4
<1>13. \A n \in N : \A c \in d.children[n] : lv[c] = lv[n] + 1
  BY <1>2, <1>11, <1>12
<1> QED BY <1>10, <1>12, <1>13 DEF lv

-----------------------------------------------------------------------------
(* What visit finds is determined, and there is such a function.           *)

\* AllOf takes one node after the other.
Gathers(h, visit, before, S, depth) ==
    /\ h[{}] = before
    /\ \A T \in SUBSET S :
          T # {} => h[T] = Together(h[T \ {CHOOSE x \in T : TRUE}],
                                    visit[<<CHOOSE x \in T : TRUE, depth>>])

\* Such a function exists, and AllOf is its last value.
LEMMA AllOfGathers ==
    ASSUME NEW visit, NEW before, NEW S, IsFiniteSet(S), NEW depth
    PROVE  \E h : Gathers(h, visit, before, S, depth) /\ h[S] = AllOf(visit, before, S, depth)
<1> DEFINE Step(h, T) == IF T = {} THEN before
                         ELSE Together(h[T \ {CHOOSE x \in T : TRUE}],
                                       visit[<<CHOOSE x \in T : TRUE, depth>>])
           Fold(h) == h = [T \in SUBSET S |-> Step(h, T)]
           Upto(k) == \E h : \A T \in SUBSET S : Cardinality(T) < k => h[T] = Step(h, T)
           Bad == {k \in Nat : ~Upto(k)}
<1>1. \A T \in SUBSET S : IsFiniteSet(T) /\ Cardinality(T) \in Nat
  BY FS_Subset, FS_CardinalityType
<1>2. ASSUME NEW T \in SUBSET S, T # {}
      PROVE  /\ T \ {CHOOSE x \in T : TRUE} \in SUBSET S
             /\ Cardinality(T \ {CHOOSE x \in T : TRUE}) = Cardinality(T) - 1
  <2>1. PICK x : x = CHOOSE y \in T : TRUE
    OBVIOUS
  <2>2. x \in T
    BY <1>2, <2>1
  <2> QED BY <1>1, <2>1, <2>2, FS_RemoveElement
<1>3. ASSUME Bad # {} PROVE FALSE
  <2>1. PICK k \in Bad : \A j \in Bad : k <= j
    <3> HIDE DEF Upto
    <3> QED BY <1>3, LeastNat
  <2>2. k # 0
    BY <1>1, <2>1
  <2>3. k - 1 \in Nat /\ k - 1 \notin Bad
    <3> HIDE DEF Upto
    <3> QED BY <2>1, <2>2
  <2>4. Upto(k - 1)
    <3> HIDE DEF Upto
    <3> QED BY <2>3
  <2>5. PICK h : \A T \in SUBSET S : Cardinality(T) < k - 1 => h[T] = Step(h, T)
    BY <2>4
  <2> DEFINE g == [T \in SUBSET S |-> IF Cardinality(T) < k - 1 THEN h[T] ELSE Step(h, T)]
  <2>6. ASSUME NEW T \in SUBSET S, Cardinality(T) < k PROVE g[T] = Step(g, T)
    <3>1. g[T] = Step(h, T)
      <4> HIDE DEF Step
      <4> QED BY <2>5
    <3>2. CASE T = {}
      <4> HIDE DEF g
      <4> QED BY <3>1, <3>2
    <3>3. CASE T # {}
      <4> PICK U : U = T \ {CHOOSE x \in T : TRUE}
        OBVIOUS
      <4>1. U \in SUBSET S /\ Cardinality(U) < k - 1
        BY <1>1, <1>2, <2>1, <2>6, <3>3
      <4>2. g[U] = h[U]
        <5> HIDE DEF Step
        <5> QED BY <4>1
      <4> HIDE DEF g
      <4> QED BY <3>1, <3>3, <4>2
    <3> QED BY <3>2, <3>3
  <2>7. Upto(k)
    <3> HIDE DEF Step, g
    <3> QED BY <2>6
  <2> HIDE DEF Upto
  <2> QED BY <2>1, <2>7
<1>4. \E h : Fold(h)
  <2> PICK k : k = Cardinality(S) + 1
    OBVIOUS
  <2>1. \A T \in SUBSET S : Cardinality(T) < k
    BY <1>1, FS_Subset
  <2>2. Upto(k)
    <3> HIDE DEF Upto
    <3> QED BY <1>1, <1>3
  <2>3. PICK h : \A T \in SUBSET S : h[T] = Step(h, T)
    BY <2>1, <2>2
  <2> DEFINE g == [T \in SUBSET S |-> h[T]]
  <2>4. ASSUME NEW T \in SUBSET S PROVE g[T] = Step(g, T)
    <3>1. g[T] = Step(h, T)
      <4> HIDE DEF Step
      <4> QED BY <2>3
    <3>2. CASE T = {}
      <4> HIDE DEF g
      <4> QED BY <3>1, <3>2
    <3>3. CASE T # {}
      <4> PICK U : U = T \ {CHOOSE x \in T : TRUE}
        OBVIOUS
      <4>1. g[U] = h[U]
        BY <1>2, <3>3
      <4> HIDE DEF g
      <4> QED BY <3>1, <3>3, <4>1
    <3> QED BY <3>2, <3>3
  <2>5. g = [T \in SUBSET S |-> g[T]]
    OBVIOUS
  <2> HIDE DEF g, Step
  <2>6. g = [T \in SUBSET S |-> Step(g, T)]
    BY <2>4, <2>5
  <2> QED BY <2>6
<1>5. AllOf(visit, before, S, depth) = (CHOOSE h : Fold(h))[S]
  BY DEF AllOf, FoldSet, MapThenFoldSet
<1>6. Fold(CHOOSE h : Fold(h))
  <2> HIDE DEF Fold
  <2> QED BY <1>4
<1> DEFINE h1 == CHOOSE h : Fold(h)
<1>7. \A T \in SUBSET S : h1[T] = Step(h1, T)
  <2>1. h1 = [T \in SUBSET S |-> Step(h1, T)]
    BY <1>6
  <2> HIDE DEF h1, Step
  <2> QED BY <2>1
<1>8. h1[S] = AllOf(visit, before, S, depth)
  BY <1>5
<1> HIDE DEF h1
<1>9. Gathers(h1, visit, before, S, depth)
  BY <1>7 DEF Gathers
<1> QED BY <1>8, <1>9

\* It depends on what is found in the nodes it takes, and on nothing else.
LEMMA AllOfSame ==
    ASSUME NEW v, NEW w, NEW before, NEW S, IsFiniteSet(S), NEW depth,
           \A x \in S : v[<<x, depth>>] = w[<<x, depth>>]
    PROVE  AllOf(v, before, S, depth) = AllOf(w, before, S, depth)
<1>1. PICK g : Gathers(g, v, before, S, depth) /\ g[S] = AllOf(v, before, S, depth)
  BY AllOfGathers
<1>2. PICK h : Gathers(h, w, before, S, depth) /\ h[S] = AllOf(w, before, S, depth)
  BY AllOfGathers
<1> DEFINE Bad == {T \in SUBSET S : g[T] # h[T]}
<1>3. ASSUME Bad # {} PROVE FALSE
  <2>1. \A T \in Bad : IsFiniteSet(T)
    BY FS_Subset
  <2>2. PICK T \in Bad : \A V \in Bad : Cardinality(T) <= Cardinality(V)
    BY <1>3, <2>1, SmallestSet
  <2>3. T # {}
    BY <1>1, <1>2, <2>2 DEF Gathers
  <2> PICK x : x = CHOOSE y \in T : TRUE
    OBVIOUS
  <2>4. x \in T
    BY <2>3
  <2>5. Cardinality(T \ {x}) = Cardinality(T) - 1 /\ Cardinality(T) \in Nat
    BY <2>1, <2>4, FS_RemoveElement, FS_CardinalityType
  <2>6. g[T \ {x}] = h[T \ {x}]
    BY <2>2, <2>5
  <2>7. g[T] = Together(g[T \ {x}], v[<<x, depth>>]) /\ h[T] = Together(h[T \ {x}], w[<<x, depth>>])
    BY <1>1, <1>2, <2>2, <2>3 DEF Gathers
  <2> QED BY <2>2, <2>4, <2>6, <2>7
<1> QED BY <1>1, <1>2, <1>3

\* What visit finds in a node and below it.
IsVisit(d, visit) ==
    visit = [at \in (DOMAIN d.children) \X Nat |->
                AllOf(visit, OfNode(d, at[1], at[2]), d.children[at[1]], at[2] + 1)]

\* There is one: that of a node is made from those of smaller subtrees.
LEMMA VisitIs ==
    ASSUME NEW d, DeviceOK(d)
    PROVE  \E visit :
              /\ \A node \in DOMAIN d.children : \A cur_depth \in Nat :
                    visit[<<node, cur_depth>>] = AllOf(visit, OfNode(d, node, cur_depth),
                                                   d.children[node], cur_depth + 1)
              /\ LET sums == AllOf(visit, NoNode, d.children[d.root], 1)
                 IN  Statistics(d) =
                        [sums EXCEPT !.avg_child_count = Average(@, sums.nodes),
                                     !.avg_non_leaf_child_count = Average(@, sums.non_leaf_nodes),
                                     !.avg_tuple_size = Average(@, Copies("LIST", sums.types))]
<1> DEFINE N == DOMAIN d.children
           Size(n) == Cardinality(Under(d, n))
           Step(v, n, c) == AllOf(v, OfNode(d, n, c), d.children[n], c + 1)
           Upto(k) == \E v : \A n \in N : \A c \in Nat : Size(n) < k => v[<<n, c>>] = Step(v, n, c)
           Bad == {k \in Nat : ~Upto(k)}
<1>1. \A n \in N : Size(n) \in Nat /\ IsFiniteSet(Under(d, n)) /\ d.children[n] \subseteq N
  BY UnderIs, FS_CardinalityType DEF DeviceOK
<1>2. ASSUME NEW n \in N, NEW m \in d.children[n] PROVE m \in N /\ Size(m) < Size(n)
  <2>1. m \in N /\ Under(d, m) \subseteq Under(d, n) /\ n \in Under(d, n) /\ n \notin Under(d, m)
    BY <1>1, UnderChildren
  <2>2. IsFiniteSet(Under(d, n) \ {n}) /\ Cardinality(Under(d, n) \ {n}) = Size(n) - 1
    BY <1>1, <2>1, FS_RemoveElement
  <2>3. Under(d, m) \subseteq Under(d, n) \ {n}
    BY <2>1
  <2>4. Size(m) <= Size(n) - 1
    BY <2>2, <2>3, FS_Subset
  <2> HIDE DEF Size
  <2> QED BY <1>1, <2>1, <2>4
<1>3. \A n \in N : IsFiniteSet(d.children[n])
  <2>1. IsFiniteSet(N)
    BY DEF DeviceOK
  <2> QED BY <1>1, <2>1, FS_Subset
<1>4. ASSUME NEW v, NEW w, NEW n \in N, NEW c \in Nat,
             \A m \in d.children[n] : v[<<m, c + 1>>] = w[<<m, c + 1>>]
      PROVE  Step(v, n, c) = Step(w, n, c)
  BY <1>3, <1>4, AllOfSame
<1> HIDE DEF Size, Step
<1>5. ASSUME Bad # {} PROVE FALSE
  <2>1. PICK k \in Bad : \A j \in Bad : k <= j
    <3> HIDE DEF Upto
    <3> QED BY <1>5, LeastNat
  <2>2. k # 0
    BY <1>1, <2>1
  <2>3. k - 1 \in Nat /\ k - 1 \notin Bad
    <3> HIDE DEF Upto
    <3> QED BY <2>1, <2>2
  <2>4. Upto(k - 1)
    <3> HIDE DEF Upto
    <3> QED BY <2>3
  <2>5. PICK v : \A n \in N : \A c \in Nat : Size(n) < k - 1 => v[<<n, c>>] = Step(v, n, c)
    BY <2>4
  <2> DEFINE w == [at \in N \X Nat |->
                   IF Size(at[1]) < k - 1 THEN v[at] ELSE Step(v, at[1], at[2])]
  <2>6. ASSUME NEW n \in N, NEW c \in Nat, Size(n) < k PROVE w[<<n, c>>] = Step(w, n, c)
    <3>1. w[<<n, c>>] = Step(v, n, c)
      BY <2>5
    <3>2. ASSUME NEW m \in d.children[n] PROVE v[<<m, c + 1>>] = w[<<m, c + 1>>]
      <4>1. m \in N /\ Size(m) < k - 1 /\ c + 1 \in Nat
        BY <1>1, <1>2, <2>1, <2>6
      <4> QED BY <4>1
    <3> HIDE DEF w, Upto, Bad, N
    <3>3. Step(v, n, c) = Step(w, n, c)
      BY ONLY <1>4, <3>2, n \in N, c \in Nat
    <3> QED BY ONLY <3>1, <3>3
  <2>7. Upto(k)
    <3> HIDE DEF w
    <3> QED BY <2>6
  <2> HIDE DEF Upto
  <2> QED BY <2>1, <2>7
<1>6. \E v : IsVisit(d, v)
  <2> PICK k : k = Cardinality(N) + 1
    OBVIOUS
  <2>1. k \in Nat /\ \A n \in N : Size(n) < k
    <3>1. IsFiniteSet(N) /\ Cardinality(N) \in Nat
      BY FS_CardinalityType DEF DeviceOK
    <3>2. \A n \in N : Size(n) <= Cardinality(N)
      BY <3>1, UnderIs, FS_Subset DEF Size
    <3> QED BY <1>1, <3>1, <3>2
  <2>2. Upto(k)
    <3> HIDE DEF Upto
    <3> QED BY <1>5, <2>1
  <2>3. PICK v : \A n \in N : \A c \in Nat : v[<<n, c>>] = Step(v, n, c)
    BY <2>1, <2>2
  <2> DEFINE w == [at \in N \X Nat |-> v[at]]
  <2>4. ASSUME NEW n \in N, NEW c \in Nat PROVE w[<<n, c>>] = Step(w, n, c)
    <3>1. w[<<n, c>>] = Step(v, n, c)
      BY <2>3
    <3>2. ASSUME NEW m \in d.children[n] PROVE v[<<m, c + 1>>] = w[<<m, c + 1>>]
      BY <1>2
    <3> HIDE DEF w, Upto, Bad, N
    <3>3. Step(v, n, c) = Step(w, n, c)
      BY ONLY <1>4, <3>2, n \in N, c \in Nat
    <3> QED BY ONLY <3>1, <3>3
  <2>5. w = [at \in N \X Nat |-> w[at]]
    OBVIOUS
  <2> HIDE DEF w
  <2>6. w = [at \in N \X Nat |-> Step(w, at[1], at[2])]
    BY <2>4, <2>5
  <2> QED BY <2>6 DEF IsVisit, Step
<1> DEFINE visit == CHOOSE v : IsVisit(d, v)
<1>7. IsVisit(d, visit)
  BY <1>6
<1>8. LET sums == AllOf(visit, NoNode, d.children[d.root], 1)
      IN  Statistics(d) =
             [sums EXCEPT !.avg_child_count = Average(@, sums.nodes),
                          !.avg_non_leaf_child_count = Average(@, sums.non_leaf_nodes),
                          !.avg_tuple_size = Average(@, Copies("LIST", sums.types))]
  BY DEF Statistics, IsVisit
<1> HIDE DEF visit
<1>9. \A node \in DOMAIN d.children : \A cur_depth \in Nat :
         visit[<<node, cur_depth>>] = AllOf(visit, OfNode(d, node, cur_depth),
                                        d.children[node], cur_depth + 1)
  BY <1>7 DEF IsVisit
<1> QED BY <1>8, <1>9

-----------------------------------------------------------------------------
(* Bags and their sizes.                                                   *)

FiniteBag(B) == IsFiniteSet(DOMAIN B) /\ \A x \in DOMAIN B : B[x] \in Nat

\* The copies in two bags together.
LEMMA BagsTogether ==
    ASSUME NEW A, FiniteBag(A), NEW B, FiniteBag(B)
    PROVE  /\ FiniteBag(A (+) B)
           /\ BagCardinality(A) \in Nat /\ BagCardinality(B) \in Nat
           /\ BagCardinality(A (+) B) = BagCardinality(A) + BagCardinality(B)
           /\ \A x : /\ Copies(x, A) \in Nat /\ Copies(x, B) \in Nat
                     /\ Copies(x, A (+) B) = Copies(x, A) + Copies(x, B)
<1> DEFINE D == DOMAIN A \cup DOMAIN B
           a == [x \in D |-> Copies(x, A)]
           b == [x \in D |-> Copies(x, B)]
           C == A (+) B
<1>1. /\ \A x : Copies(x, A) \in Nat /\ Copies(x, B) \in Nat
      /\ \A x \in DOMAIN A : Copies(x, A) = A[x]
      /\ \A x \in DOMAIN B : Copies(x, B) = B[x]
  BY DEF FiniteBag, Copies, BagIn, BagToSet
<1>2. DOMAIN C = D /\ \A x \in D : C[x] = a[x] + b[x]
  BY DEF Copies, BagIn, BagToSet, (+)
<1>3. \A x : Copies(x, C) = Copies(x, A) + Copies(x, B)
  BY DEF Copies, BagIn, BagToSet, (+)
<1>4. IsFiniteSet(D) /\ \A x \in D : a[x] \in Nat /\ b[x] \in Nat
  BY <1>1, FS_Union DEF FiniteBag
<1> HIDE DEF C
<1>5. FiniteBag(C)
  <2> HIDE DEF a, b
  <2> QED BY <1>2, <1>4 DEF FiniteBag
<1>6. BagCardinality(C) = SumOver(C, D) /\ SumOver(C, D) \in Nat
  BY <1>2, <1>5, BagCardinalityIs, ItemsFinite DEF FiniteBag
<1>7. SumOver(a, D) = BagCardinality(A)
  <2>1. ASSUME NEW x \in D, x \notin DOMAIN A PROVE a[x] = 0
    BY <2>1 DEF Copies, BagIn, BagToSet
  <2>2. \A x \in DOMAIN A : a[x] = A[x]
    BY <1>1
  <2> HIDE DEF a
  <2>3. \A x \in DOMAIN A : x \in D
    OBVIOUS
  <2> HIDE DEF D
  <2>4. Items(a, D) = Items(A, DOMAIN A)
    <3>1. \A y : y \in Items(a, D) <=> \E x \in D : y \in {x} \X (1..a[x])
      BY DEF Items
    <3>2. \A y : y \in Items(A, DOMAIN A) <=> \E x \in DOMAIN A : y \in {x} \X (1..A[x])
      BY DEF Items
    <3>3. ASSUME NEW x \in D, x \notin DOMAIN A, NEW y \in {x} \X (1..a[x]) PROVE FALSE
      BY <2>1, <3>3
    <3> QED BY <2>2, <2>3, <3>1, <3>2, <3>3
  <2> QED BY <2>4, BagCardinalityIs DEF SumOver, FiniteBag
<1>8. SumOver(b, D) = BagCardinality(B)
  <2>1. ASSUME NEW x \in D, x \notin DOMAIN B PROVE b[x] = 0
    BY <2>1 DEF Copies, BagIn, BagToSet
  <2>2. \A x \in DOMAIN B : b[x] = B[x]
    BY <1>1
  <2> HIDE DEF b
  <2>3. \A x \in DOMAIN B : x \in D
    OBVIOUS
  <2> HIDE DEF D
  <2>4. Items(b, D) = Items(B, DOMAIN B)
    <3>1. \A y : y \in Items(b, D) <=> \E x \in D : y \in {x} \X (1..b[x])
      BY DEF Items
    <3>2. \A y : y \in Items(B, DOMAIN B) <=> \E x \in DOMAIN B : y \in {x} \X (1..B[x])
      BY DEF Items
    <3>3. ASSUME NEW x \in D, x \notin DOMAIN B, NEW y \in {x} \X (1..b[x]) PROVE FALSE
      BY <2>1, <3>3
    <3> QED BY <2>2, <2>3, <3>1, <3>2, <3>3
  <2> QED BY <2>4, BagCardinalityIs DEF SumOver, FiniteBag
<1> HIDE DEF a, b, D
<1>9. SumOver(a, D) \in Nat /\ SumOver(b, D) \in Nat
  BY <1>4, ItemsFinite
<1>10. SumOver(C, D) = SumOver(a, D) + SumOver(b, D)
  BY <1>2, <1>4, SumsAdd
<1> QED BY <1>1, <1>3, <1>5, <1>6, <1>7, <1>8, <1>9, <1>10 DEF C

\* One element, and none.
LEMMA BagOfOne ==
    /\ \A x : /\ FiniteBag(One(x)) /\ BagCardinality(One(x)) = 1 /\ Copies(x, One(x)) = 1
    /\ FiniteBag(EmptyBag) /\ BagCardinality(EmptyBag) = 0 /\ \A x : Copies(x, EmptyBag) = 0
<1>1. ASSUME NEW x
      PROVE  FiniteBag(One(x)) /\ BagCardinality(One(x)) = 1 /\ Copies(x, One(x)) = 1
  <2> DEFINE B == One(x)
  <2>1. DOMAIN B = {x} /\ B[x] = 1
    BY DEF One, SetToBag
  <2> HIDE DEF B
  <2>7. IsFiniteSet({x})
    BY FS_Singleton
  <2>2. IsFiniteSet(DOMAIN B) /\ \A y \in DOMAIN B : B[y] \in Nat
    BY ONLY <2>1, <2>7
  <2>3. BagCardinality(B) = SumOver(B, {x})
    BY <2>1, <2>2, BagCardinalityIs
  <2>4. SumOver(B, {x}) = B[x] + SumOver(B, {x} \ {x}) /\ {x} \ {x} = {}
    BY <2>1, <2>2, SumStep
  <2>5. SumOver(B, {}) = 0
    BY SumOfNone
  <2>6. Copies(x, B) = 1
    BY <2>1 DEF Copies, BagIn, BagToSet
  <2> QED BY <2>1, <2>2, <2>3, <2>4, <2>5, <2>6 DEF B, FiniteBag
<1>2. FiniteBag(EmptyBag) /\ BagCardinality(EmptyBag) = 0 /\ \A x : Copies(x, EmptyBag) = 0
  <2> DEFINE B == EmptyBag
  <2>1. DOMAIN B = {}
    BY DEF EmptyBag, SetToBag
  <2> HIDE DEF B
  <2>2. IsFiniteSet(DOMAIN B) /\ \A y \in DOMAIN B : B[y] \in Nat
    BY <2>1, FS_EmptySet
  <2>3. BagCardinality(B) = 0
    BY <2>1, <2>2, BagCardinalityIs, SumOfNone
  <2>4. \A x : Copies(x, B) = 0
    BY <2>1 DEF Copies, BagIn, BagToSet
  <2> QED BY <2>2, <2>3, <2>4 DEF B, FiniteBag
<1> QED BY <1>1, <1>2

-----------------------------------------------------------------------------
(* What is found in the nodes of a set.                                    *)

Keys == {"nodes", "non_leaf_nodes", "max_depth", "max_child_count", "avg_child_count",
         "avg_non_leaf_child_count", "types", "access", "max_tuple_size", "avg_tuple_size",
         "tuples"}

\* all says of the nodes in X what it should, with k children in all; max_depth is the
\* greatest of the levels of Y.
Tells(d, all, X, k, Y) ==
    /\ DOMAIN all = Keys
    /\ all.nodes = Cardinality(X) /\ all.avg_child_count = k
    /\ all.non_leaf_nodes \in Nat /\ all.avg_non_leaf_child_count \in Nat
    /\ all.non_leaf_nodes <= all.avg_non_leaf_child_count
    /\ \E n \in Y : all.max_depth = Level(d)[n]
    /\ \A n \in Y : Level(d)[n] <= all.max_depth
    /\ FiniteBag(all.types) /\ BagCardinality(all.types) = Cardinality(X)
    /\ FiniteBag(all.tuples) /\ BagCardinality(all.tuples) <= Copies("LIST", all.types)

\* The greater of two numbers.
LEMMA MaxOfTwo ==
    ASSUME NEW a \in Nat, NEW b \in Nat
    PROVE  LET m == Max({a, b}) IN (m = a \/ m = b) /\ a <= m /\ b <= m
<1>1. \E m \in {a, b} : \A x \in {a, b} : m >= x
  OBVIOUS
<1>2. Max({a, b}) \in {a, b} /\ \A x \in {a, b} : Max({a, b}) >= x
  BY <1>1 DEF Max
<1> QED BY <1>2

\* What Together does to the parts that the property is about.
LEMMA TogetherIs ==
    ASSUME NEW a, NEW b, DOMAIN a = Keys
    PROVE  LET r == Together(a, b)
           IN  /\ DOMAIN r = Keys
               /\ r.nodes = a.nodes + b.nodes
               /\ r.non_leaf_nodes = a.non_leaf_nodes + b.non_leaf_nodes
               /\ r.avg_child_count = a.avg_child_count + b.avg_child_count
               /\ r.avg_non_leaf_child_count =
                     a.avg_non_leaf_child_count + b.avg_non_leaf_child_count
               /\ r.max_depth = Max({a.max_depth, b.max_depth})
               /\ r.types = a.types (+) b.types
               /\ r.tuples = a.tuples (+) b.tuples
BY DEF Together, Keys

\* Sets that have nothing in common.
LEMMA TellTogether ==
    ASSUME NEW d, DeviceOK(d), NEW a, NEW b,
           NEW X, NEW k \in Int, NEW Y \in SUBSET DOMAIN d.children, Tells(d, a, X, k, Y),
           NEW V, NEW l \in Int, NEW W \in SUBSET DOMAIN d.children, Tells(d, b, V, l, W),
           IsFiniteSet(X), IsFiniteSet(V), X \cap V = {}
    PROVE  Tells(d, Together(a, b), X \cup V, k + l, Y \cup W)
<1> PICK r : r = Together(a, b)
  OBVIOUS
<1> PICK lv : lv = Level(d)
  OBVIOUS
<1>1. /\ DOMAIN r = Keys /\ r.nodes = a.nodes + b.nodes
      /\ r.non_leaf_nodes = a.non_leaf_nodes + b.non_leaf_nodes
      /\ r.avg_child_count = a.avg_child_count + b.avg_child_count
      /\ r.avg_non_leaf_child_count = a.avg_non_leaf_child_count + b.avg_non_leaf_child_count
      /\ r.max_depth = Max({a.max_depth, b.max_depth})
      /\ r.types = a.types (+) b.types /\ r.tuples = a.tuples (+) b.tuples
  BY TogetherIs DEF Tells
<1>2. Cardinality(X \cup V) = Cardinality(X) + Cardinality(V)
  <2>1. Cardinality(X \cap V) = 0
    BY FS_EmptySet
  <2>2. Cardinality(X) \in Nat /\ Cardinality(V) \in Nat
    BY FS_CardinalityType
  <2>3. Cardinality(X \cup V) = Cardinality(X) + Cardinality(V) - Cardinality(X \cap V)
    BY FS_Union
  <2> QED BY ONLY <2>1, <2>2, <2>3
<1>3. Cardinality(X) \in Nat /\ Cardinality(V) \in Nat
  BY FS_CardinalityType
<1>4. r.nodes = Cardinality(X \cup V) /\ r.avg_child_count = k + l
  BY <1>1, <1>2 DEF Tells
<1>5. /\ r.non_leaf_nodes \in Nat /\ r.avg_non_leaf_child_count \in Nat
      /\ r.non_leaf_nodes <= r.avg_non_leaf_child_count
  <2>1. /\ a.non_leaf_nodes \in Nat /\ a.avg_non_leaf_child_count \in Nat
        /\ a.non_leaf_nodes <= a.avg_non_leaf_child_count
        /\ b.non_leaf_nodes \in Nat /\ b.avg_non_leaf_child_count \in Nat
        /\ b.non_leaf_nodes <= b.avg_non_leaf_child_count
    BY DEF Tells
  <2> QED BY <1>1, <2>1
<1>6. \A n \in DOMAIN d.children : lv[n] \in Nat
  BY LevelIs
<1>7. /\ \E n \in Y \cup W : r.max_depth = lv[n]
      /\ \A n \in Y \cup W : lv[n] <= r.max_depth
  <2>1. PICK n \in Y : a.max_depth = lv[n]
    BY DEF Tells
  <2>2. PICK m \in W : b.max_depth = lv[m]
    BY DEF Tells
  <2>3. \A i \in Y : lv[i] <= a.max_depth
    BY DEF Tells
  <2>4. \A i \in W : lv[i] <= b.max_depth
    BY DEF Tells
  <2>5. a.max_depth \in Nat /\ b.max_depth \in Nat
    BY <1>6, <2>1, <2>2
  <2>6. /\ r.max_depth = a.max_depth \/ r.max_depth = b.max_depth
        /\ a.max_depth <= r.max_depth /\ b.max_depth <= r.max_depth
    BY <1>1, <2>5, MaxOfTwo
  <2>7. ASSUME NEW i \in Y \cup W PROVE lv[i] <= r.max_depth
    BY <1>6, <2>3, <2>4, <2>5, <2>6
  <2> QED BY <2>1, <2>2, <2>6, <2>7
<1>8. FiniteBag(r.types) /\ BagCardinality(r.types) = Cardinality(X \cup V)
  <2>1. FiniteBag(a.types) /\ FiniteBag(b.types)
    BY DEF Tells
  <2>2. /\ FiniteBag(r.types)
        /\ BagCardinality(r.types) = BagCardinality(a.types) + BagCardinality(b.types)
    BY <1>1, <2>1, BagsTogether
  <2> QED BY <1>2, <2>2 DEF Tells
<1>9. FiniteBag(r.tuples) /\ BagCardinality(r.tuples) <= Copies("LIST", r.types)
  <2>1. FiniteBag(a.types) /\ FiniteBag(b.types) /\ FiniteBag(a.tuples) /\ FiniteBag(b.tuples)
    BY DEF Tells
  <2>2. /\ FiniteBag(r.tuples)
        /\ BagCardinality(a.tuples) \in Nat /\ BagCardinality(b.tuples) \in Nat
        /\ BagCardinality(r.tuples) = BagCardinality(a.tuples) + BagCardinality(b.tuples)
    BY <1>1, <2>1, BagsTogether
  <2>3. /\ Copies("LIST", a.types) \in Nat /\ Copies("LIST", b.types) \in Nat
        /\ Copies("LIST", r.types) = Copies("LIST", a.types) + Copies("LIST", b.types)
    <3> PICK A, B : A = a.types /\ B = b.types
      OBVIOUS
    <3>1. FiniteBag(A) /\ FiniteBag(B) /\ r.types = A (+) B
      BY <1>1, <2>1
    <3>2. /\ Copies("LIST", A) \in Nat /\ Copies("LIST", B) \in Nat
          /\ Copies("LIST", A (+) B) = Copies("LIST", A) + Copies("LIST", B)
      BY ONLY <3>1, BagsTogether
    <3> QED BY <3>1, <3>2
  <2>4. /\ BagCardinality(a.tuples) <= Copies("LIST", a.types)
        /\ BagCardinality(b.tuples) <= Copies("LIST", b.types)
    BY DEF Tells
  <2> QED BY <2>2, <2>3, <2>4
<1> QED BY <1>1, <1>4, <1>5, <1>7, <1>8, <1>9 DEF Tells

\* What is under some nodes.
UnderAll(d, S) == UNION {Under(d, c) : c \in S}

\* What AllOf finds in some nodes that have nothing in common, when it is right about each.
LEMMA AllOfTells ==
    ASSUME NEW d, DeviceOK(d), NEW visit, NEW before, NEW depth,
           NEW S \in SUBSET DOMAIN d.children, NEW X, NEW k \in Int,
           NEW Y \in SUBSET DOMAIN d.children,
           Tells(d, before, X, k, Y), IsFiniteSet(X),
           \A c \in S : Tells(d, visit[<<c, depth>>], Under(d, c),
                              Cardinality(Under(d, c)) - 1, Under(d, c)),
           \A c \in S : X \cap Under(d, c) = {},
           \A b, c \in S : b # c => Under(d, b) \cap Under(d, c) = {}
    PROVE  Tells(d, AllOf(visit, before, S, depth), X \cup UnderAll(d, S),
                 k + Cardinality(UnderAll(d, S)) - Cardinality(S), Y \cup UnderAll(d, S))
<1>1. IsFiniteSet(S)
  <2>1. IsFiniteSet(DOMAIN d.children)
    BY DEF DeviceOK
  <2> QED BY <2>1, FS_Subset
<1>2. PICK h : Gathers(h, visit, before, S, depth) /\ h[S] = AllOf(visit, before, S, depth)
  BY <1>1, AllOfGathers
<1>3. \A c \in S : IsFiniteSet(Under(d, c)) /\ Under(d, c) \subseteq DOMAIN d.children
  BY UnderIs
<1>4. ASSUME NEW T \in SUBSET S
      PROVE  /\ IsFiniteSet(T) /\ Cardinality(T) \in Nat
             /\ IsFiniteSet(UnderAll(d, T)) /\ UnderAll(d, T) \subseteq DOMAIN d.children
             /\ Cardinality(UnderAll(d, T)) \in Nat
  <2>1. IsFiniteSet(T) /\ Cardinality(T) \in Nat
    BY <1>1, FS_Subset, FS_CardinalityType
  <2>2. UnderAll(d, T) \subseteq DOMAIN d.children
    BY <1>3 DEF UnderAll
  <2>3. IsFiniteSet(DOMAIN d.children)
    BY DEF DeviceOK
  <2>4. IsFiniteSet(UnderAll(d, T))
    BY <2>2, <2>3, FS_Subset
  <2> QED BY <2>1, <2>2, <2>4, FS_CardinalityType
<1> DEFINE Good(T) == Tells(d, h[T], X \cup UnderAll(d, T),
                            k + Cardinality(UnderAll(d, T)) - Cardinality(T),
                            Y \cup UnderAll(d, T))
           Bad == {T \in SUBSET S : ~Good(T)}
<1>5. Good({})
  <2>1. UnderAll(d, {}) = {} /\ Cardinality(UnderAll(d, {})) = 0 /\ Cardinality({}) = 0
    BY FS_EmptySet DEF UnderAll
  <2>2. X \cup UnderAll(d, {}) = X /\ Y \cup UnderAll(d, {}) = Y /\ h[{}] = before
    BY <1>2, <2>1 DEF Gathers
  <2>3. k + Cardinality(UnderAll(d, {})) - Cardinality({}) = k
    BY <2>1
  <2> QED BY <2>2, <2>3
<1>6. ASSUME Bad # {} PROVE FALSE
  <2>1. \A T \in Bad : IsFiniteSet(T)
    BY <1>4
  <2>2. PICK T \in Bad : \A V \in Bad : Cardinality(T) <= Cardinality(V)
    <3> HIDE DEF Good
    <3> QED BY <1>6, <2>1, SmallestSet
  <2>3. T # {} /\ T \in SUBSET S /\ ~Good(T)
    <3> HIDE DEF Good
    <3> QED BY <1>5, <2>2
  <2> PICK c : c = CHOOSE x \in T : TRUE
    OBVIOUS
  <2>4. c \in T /\ c \in S
    BY <2>3
  <2> PICK R : R = T \ {c}
    OBVIOUS
  <2>5. R \in SUBSET S /\ Cardinality(R) = Cardinality(T) - 1
    BY <1>4, <2>3, <2>4, FS_RemoveElement
  <2>6. Cardinality(T) \in Nat /\ Cardinality(R) \in Nat
    BY <1>4, <2>3, <2>5
  <2>7. Good(R)
    <3> HIDE DEF Good
    <3> QED BY <2>2, <2>5, <2>6
  <2>8. h[T] = Together(h[R], visit[<<c, depth>>])
    BY <1>2, <2>3 DEF Gathers
  <2>9. UnderAll(d, T) = UnderAll(d, R) \cup Under(d, c)
    BY <2>4 DEF UnderAll
  <2>10. \A b \in R : b \in S /\ b # c
    BY <2>3
  <2>11. (X \cup UnderAll(d, R)) \cap Under(d, c) = {} /\ UnderAll(d, R) \cap Under(d, c) = {}
    BY <2>4, <2>10 DEF UnderAll
  <2>12. IsFiniteSet(X \cup UnderAll(d, R))
    BY <1>4, <2>5, FS_Union
  <2> PICK e, f, t : e = Cardinality(UnderAll(d, R)) /\ f = Cardinality(Under(d, c))
                     /\ t = Cardinality(T)
    OBVIOUS
  <2>13. e \in Nat /\ f \in Nat /\ t \in Nat /\ Cardinality(R) = t - 1
    BY <1>3, <1>4, <2>4, <2>5, <2>6, FS_CardinalityType
  <2>14. Cardinality(UnderAll(d, T)) = e + f
    <3>1. IsFiniteSet(UnderAll(d, R)) /\ IsFiniteSet(Under(d, c))
      BY <1>3, <1>4, <2>4, <2>5
    <3>2. Cardinality(UnderAll(d, R) \cup Under(d, c))
             = e + f - Cardinality(UnderAll(d, R) \cap Under(d, c))
      BY <3>1, FS_Union
    <3>3. Cardinality(UnderAll(d, R) \cap Under(d, c)) = 0
      BY <2>11, FS_EmptySet
    <3> QED BY ONLY <2>9, <2>13, <3>2, <3>3
  <2>15. Tells(d, Together(h[R], visit[<<c, depth>>]), (X \cup UnderAll(d, R)) \cup Under(d, c),
               (k + e - (t - 1)) + (f - 1), (Y \cup UnderAll(d, R)) \cup Under(d, c))
    <3>1. Tells(d, h[R], X \cup UnderAll(d, R), k + e - (t - 1), Y \cup UnderAll(d, R))
      BY <2>7, <2>13
    <3>2. Tells(d, visit[<<c, depth>>], Under(d, c), f - 1, Under(d, c))
      BY <2>4
    <3>3. k + e - (t - 1) \in Int /\ f - 1 \in Int
      BY <2>13
    <3>4. /\ Y \cup UnderAll(d, R) \in SUBSET DOMAIN d.children
          /\ Under(d, c) \in SUBSET DOMAIN d.children /\ IsFiniteSet(Under(d, c))
      BY <1>3, <1>4, <2>4, <2>5
    <3> HIDE DEF Good, Bad
    <3> QED BY <2>11, <2>12, <3>1, <3>2, <3>3, <3>4, TellTogether
  <2>16. (k + e - (t - 1)) + (f - 1) = k + Cardinality(UnderAll(d, T)) - Cardinality(T)
    BY <2>13, <2>14
  <2>17. /\ (X \cup UnderAll(d, R)) \cup Under(d, c) = X \cup UnderAll(d, T)
         /\ (Y \cup UnderAll(d, R)) \cup Under(d, c) = Y \cup UnderAll(d, T)
    BY <2>9
  <2>18. Good(T)
    BY <2>8, <2>15, <2>16, <2>17
  <2> QED BY <2>3, <2>18
<1>7. Good(S)
  <2> HIDE DEF Good
  <2> QED BY <1>6
<1> QED BY <1>2, <1>7

\* What f finds in a node alone.
LEMMA OneNodeTells ==
    ASSUME NEW d, DeviceOK(d), NEW n \in DOMAIN d.children
    PROVE  Tells(d, OfNode(d, n, Level(d)[n]), {n}, Cardinality(d.children[n]), {n})
<1> PICK r : r = OfNode(d, n, Level(d)[n])
  OBVIOUS
<1> PICK k : k = Cardinality(d.children[n])
  OBVIOUS
<1>1. k \in Nat
  <2>1. IsFiniteSet(DOMAIN d.children) /\ d.children[n] \subseteq DOMAIN d.children
    BY DEF DeviceOK
  <2> QED BY <2>1, FS_Subset, FS_CardinalityType
<1>2. /\ DOMAIN r = Keys /\ r.nodes = 1 /\ r.avg_child_count = k
      /\ r.non_leaf_nodes = IF k > 0 THEN 1 ELSE 0
      /\ r.avg_non_leaf_child_count = k /\ r.max_depth = Level(d)[n]
      /\ r.types = One(IF d.type[n] = "NONE" THEN "containers" ELSE d.type[n])
      /\ r.tuples = IF d.type[n] = "LIST" /\ d.floats[n] THEN One(FloatTuple(d.size[n]))
                    ELSE EmptyBag
  BY DEF OfNode, Keys
<1>3. Cardinality({n}) = 1
  BY FS_Singleton
<1>4. FiniteBag(r.types) /\ BagCardinality(r.types) = 1 /\ Copies("LIST", r.types) \in Nat
  BY <1>2, BagOfOne, BagsTogether
<1>5. FiniteBag(r.tuples) /\ BagCardinality(r.tuples) <= Copies("LIST", r.types)
  <2>1. CASE d.type[n] = "LIST" /\ d.floats[n]
    <3>1. r.tuples = One(FloatTuple(d.size[n])) /\ r.types = One("LIST")
      BY <1>2, <2>1
    <3>2. FiniteBag(r.tuples) /\ BagCardinality(r.tuples) = 1 /\ Copies("LIST", r.types) = 1
      BY ONLY <3>1, BagOfOne
    <3> QED BY <3>2
  <2>2. CASE ~(d.type[n] = "LIST" /\ d.floats[n])
    <3>1. r.tuples = EmptyBag
      BY <1>2, <2>2
    <3>2. FiniteBag(r.tuples) /\ BagCardinality(r.tuples) = 0
      BY ONLY <3>1, BagOfOne
    <3> QED BY <1>4, <3>2
  <2> QED BY <2>1, <2>2
<1>6. Level(d)[n] \in Nat
  BY LevelIs
<1>7. /\ r.non_leaf_nodes \in Nat /\ r.avg_non_leaf_child_count \in Nat
      /\ r.non_leaf_nodes <= r.avg_non_leaf_child_count
  BY <1>1, <1>2
<1> QED BY <1>2, <1>3, <1>4, <1>5, <1>6, <1>7 DEF Tells

\* Before anything is found, the depth is that of the root.
LEMMA NothingTells ==
    ASSUME NEW d, DeviceOK(d)
    PROVE  Tells(d, NoNode, {}, 0, {d.root})
<1> PICK r : r = NoNode
  OBVIOUS
<1>1. /\ DOMAIN r = Keys /\ r.nodes = 0 /\ r.avg_child_count = 0 /\ r.non_leaf_nodes = 0
      /\ r.avg_non_leaf_child_count = 0 /\ r.max_depth = 0
      /\ r.types = EmptyBag /\ r.tuples = EmptyBag
  BY DEF NoNode, Keys
<1>2. Level(d)[d.root] = 0 /\ Cardinality({}) = 0
  BY LevelIs, FS_EmptySet
<1>3. FiniteBag(EmptyBag) /\ BagCardinality(EmptyBag) = 0 /\ Copies("LIST", EmptyBag) = 0
  BY BagOfOne
<1> QED BY <1>1, <1>2, <1>3 DEF Tells

\* A node, and all that is under it.
LEMMA SubtreeTells ==
    ASSUME NEW d, DeviceOK(d), NEW visit,
           \A node \in DOMAIN d.children : \A cur_depth \in Nat :
              visit[<<node, cur_depth>>] = AllOf(visit, OfNode(d, node, cur_depth),
                                                 d.children[node], cur_depth + 1),
           NEW n \in DOMAIN d.children
    PROVE  Tells(d, visit[<<n, Level(d)[n]>>], Under(d, n), Cardinality(Under(d, n)) - 1,
                 Under(d, n))
<1> DEFINE N == DOMAIN d.children
           Good(m) == Tells(d, visit[<<m, Level(d)[m]>>], Under(d, m),
                            Cardinality(Under(d, m)) - 1, Under(d, m))
           Bad == {m \in N : ~Good(m)}
           Sizes == {Cardinality(Under(d, m)) : m \in Bad}
<1>1. \A m \in N : Cardinality(Under(d, m)) \in Nat /\ IsFiniteSet(Under(d, m))
  BY UnderIs, FS_CardinalityType
<1>2. ASSUME NEW m \in N, \A c \in d.children[m] : Good(c) PROVE Good(m)
  <2> PICK depth : depth = Level(d)[m]
    OBVIOUS
  <2>1. depth \in Nat /\ \A c \in d.children[m] : Level(d)[c] = depth + 1
    BY LevelIs
  <2>2. d.children[m] \in SUBSET N /\ IsFiniteSet(d.children[m])
    <3>1. IsFiniteSet(N) /\ d.children[m] \subseteq N
      BY DEF DeviceOK
    <3> QED BY <3>1, FS_Subset
  <2>3. /\ \A x : x \in Under(d, m) <=> x = m \/ \E c \in d.children[m] : x \in Under(d, c)
        /\ \A c \in d.children[m] : m \notin Under(d, c)
        /\ \A b, c \in d.children[m] : b # c => Under(d, b) \cap Under(d, c) = {}
    BY UnderChildren
  <2> PICK U : U = UnderAll(d, d.children[m])
    OBVIOUS
  <2>4. Under(d, m) = {m} \cup U /\ m \notin U
    BY <2>3 DEF UnderAll
  <2>5. \A c \in d.children[m] : {m} \cap Under(d, c) = {}
    BY <2>3
  <2>6. Tells(d, OfNode(d, m, depth), {m}, Cardinality(d.children[m]), {m})
    BY OneNodeTells
  <2>7. IsFiniteSet({m}) /\ Cardinality(d.children[m]) \in Nat
    BY <2>2, FS_Singleton, FS_CardinalityType
  <2>8. \A c \in d.children[m] :
           Tells(d, visit[<<c, depth + 1>>], Under(d, c), Cardinality(Under(d, c)) - 1, Under(d, c))
    BY <1>2, <2>1
  <2>9. Tells(d, AllOf(visit, OfNode(d, m, depth), d.children[m], depth + 1), {m} \cup U,
              Cardinality(d.children[m]) + Cardinality(U) - Cardinality(d.children[m]),
              {m} \cup U)
    <3>1. /\ Cardinality(d.children[m]) \in Int /\ {m} \in SUBSET DOMAIN d.children
          /\ d.children[m] \in SUBSET DOMAIN d.children
      BY <2>2, <2>7
    <3> HIDE DEF N, Good, Bad, Sizes
    <3> QED BY <2>3, <2>5, <2>6, <2>7, <2>8, <3>1, AllOfTells
  <2>10. IsFiniteSet(U) /\ Cardinality(U) \in Nat
    <3>1. U \subseteq Under(d, m)
      BY <2>4
    <3> QED BY <1>1, <3>1, FS_Subset, FS_CardinalityType
  <2>11. Cardinality(Under(d, m)) = Cardinality(U) + 1
    <3>1. Cardinality(U \cup {m}) = Cardinality(U) + 1
      BY ONLY <2>4, <2>10, FS_AddElement
    <3>2. Under(d, m) = U \cup {m}
      BY ONLY <2>4
    <3> QED BY ONLY <3>1, <3>2
  <2>12. Cardinality(d.children[m]) + Cardinality(U) - Cardinality(d.children[m])
            = Cardinality(Under(d, m)) - 1
    BY <2>7, <2>10, <2>11
  <2>13. visit[<<m, depth>>] = AllOf(visit, OfNode(d, m, depth), d.children[m], depth + 1)
    BY <2>1
  <2> QED BY <2>4, <2>9, <2>12, <2>13
<1>3. ASSUME Bad # {} PROVE FALSE
  <2> HIDE DEF Good
  <2>1. Sizes \subseteq Nat /\ Sizes # {}
    BY <1>1, <1>3
  <2>2. PICK s \in Sizes : \A t \in Sizes : s <= t
    BY <2>1, LeastNat
  <2>3. PICK m \in Bad : s = Cardinality(Under(d, m))
    BY <2>2
  <2>4. PICK c \in d.children[m] : ~Good(c)
    BY <1>2, <2>3
  <2>5. c \in N
    BY <2>3, <2>4, OneParent
  <2>6. m \in Under(d, m) /\ Under(d, c) \subseteq Under(d, m) \ {m}
    BY <2>3, <2>4, UnderChildren
  <2>7. /\ IsFiniteSet(Under(d, m) \ {m})
        /\ Cardinality(Under(d, m) \ {m}) = Cardinality(Under(d, m)) - 1
    BY <1>1, <2>3, <2>6, FS_RemoveElement
  <2>8. Cardinality(Under(d, c)) <= Cardinality(Under(d, m)) - 1
    BY <2>6, <2>7, FS_Subset
  <2>9. s <= Cardinality(Under(d, c))
    BY <2>2, <2>4, <2>5
  <2>10. s \in Nat /\ Cardinality(Under(d, c)) \in Nat
    BY <1>1, <2>3, <2>5
  <2> QED BY <2>3, <2>8, <2>9, <2>10
<1> QED BY <1>3

\* The whole of a device.
LEMMA AnyDeviceAddsUp ==
    ASSUME NEW d, DeviceOK(d)
    PROVE  DeviceAddsUp(d)
<1> DEFINE N == DOMAIN d.children
           nodes == N \ {d.root}
           first == d.children[d.root]
<1>1. PICK visit :
         /\ \A node \in DOMAIN d.children : \A cur_depth \in Nat :
               visit[<<node, cur_depth>>] = AllOf(visit, OfNode(d, node, cur_depth),
                                                  d.children[node], cur_depth + 1)
         /\ LET sums == AllOf(visit, NoNode, d.children[d.root], 1)
            IN  Statistics(d) =
                   [sums EXCEPT !.avg_child_count = Average(@, sums.nodes),
                                !.avg_non_leaf_child_count = Average(@, sums.non_leaf_nodes),
                                !.avg_tuple_size = Average(@, Copies("LIST", sums.types))]
  BY VisitIs
<1> PICK sums : sums = AllOf(visit, NoNode, first, 1)
  OBVIOUS
<1> PICK st : st = Statistics(d)
  OBVIOUS
<1>2. st = [sums EXCEPT !.avg_child_count = Average(@, sums.nodes),
                        !.avg_non_leaf_child_count = Average(@, sums.non_leaf_nodes),
                        !.avg_tuple_size = Average(@, Copies("LIST", sums.types))]
  BY <1>1
<1>3. d.root \in N /\ first \in SUBSET nodes /\ IsFiniteSet(N)
  BY DEF DeviceOK
<1>4. /\ \A x : x \in N <=> x = d.root \/ \E c \in first : x \in Under(d, c)
      /\ \A c \in first : d.root \notin Under(d, c)
      /\ \A b, c \in first : b # c => Under(d, b) \cap Under(d, c) = {}
  BY <1>3, UnderRoot, UnderChildren
<1>5. UnderAll(d, first) = nodes
  BY <1>4 DEF UnderAll
<1>6. \A c \in first :
         Tells(d, visit[<<c, 1>>], Under(d, c), Cardinality(Under(d, c)) - 1, Under(d, c))
  <2>1. ASSUME NEW c \in first PROVE c \in N /\ Level(d)[c] = 1
    <3>1. Level(d)[c] = Level(d)[d.root] + 1 /\ Level(d)[d.root] = 0
      BY <1>3, LevelIs
    <3> QED BY <1>3, <3>1
  <2> QED BY <1>1, <2>1, SubtreeTells
<1>7. Tells(d, sums, {} \cup nodes, 0 + Cardinality(nodes) - Cardinality(first),
            {d.root} \cup nodes)
  <2>1. Tells(d, NoNode, {}, 0, {d.root}) /\ IsFiniteSet({})
    BY NothingTells, FS_EmptySet
  <2>2. \A c \in first : {} \cap Under(d, c) = {}
    OBVIOUS
  <2>3. first \in SUBSET DOMAIN d.children /\ {d.root} \in SUBSET DOMAIN d.children /\ 0 \in Int
    BY <1>3
  <2> HIDE DEF first, nodes, N
  <2>4. Tells(d, AllOf(visit, NoNode, first, 1), {} \cup UnderAll(d, first),
              0 + Cardinality(UnderAll(d, first)) - Cardinality(first),
              {d.root} \cup UnderAll(d, first))
    BY <1>4, <1>6, <2>1, <2>2, <2>3, AllOfTells
  <2> QED BY <1>5, <2>4
<1>8. /\ IsFiniteSet(nodes) /\ IsFiniteSet(first)
      /\ Cardinality(nodes) \in Nat /\ Cardinality(first) \in Nat
      /\ Cardinality(nodes \ first) = Cardinality(nodes) - Cardinality(first)
  <2>1. IsFiniteSet(nodes) /\ IsFiniteSet(first) /\ IsFiniteSet(nodes \ first)
    BY <1>3, FS_Subset
  <2>2. /\ Cardinality(nodes) \in Nat /\ Cardinality(first) \in Nat
        /\ Cardinality(nodes \ first) \in Nat
    BY <2>1, FS_CardinalityType
  <2> PICK A, B : A = nodes \ first /\ B = first
    OBVIOUS
  <2>3. Cardinality(A \cup B) = Cardinality(A) + Cardinality(B) - Cardinality(A \cap B)
    BY <2>1, FS_Union
  <2>4. A \cup B = nodes /\ A \cap B = {}
    BY <1>3
  <2>5. Cardinality(A \cap B) = 0
    BY ONLY <2>4, FS_EmptySet
  <2>6. Cardinality(A) \in Nat /\ Cardinality(B) \in Nat
    BY <2>2
  <2>7. Cardinality(A) = Cardinality(A \cup B) - Cardinality(B)
    BY ONLY <2>3, <2>5, <2>6
  <2>8. Cardinality(nodes \ first) = Cardinality(nodes) - Cardinality(first)
    BY <2>4, <2>7
  <2> QED BY <2>1, <2>2, <2>8
<1>9. {} \cup nodes = nodes /\ {d.root} \cup nodes = N
  BY <1>3
<1>10. Tells(d, sums, nodes, Cardinality(nodes \ first), N)
  <2>1. 0 + Cardinality(nodes) - Cardinality(first) = Cardinality(nodes \ first)
    BY <1>8
  <2> HIDE DEF nodes, first, N
  <2> QED BY <1>7, <1>9, <2>1
<1> HIDE DEF nodes, first, N
<1>11. /\ st.nodes = sums.nodes /\ st.types = sums.types /\ st.tuples = sums.tuples
       /\ st.max_depth = sums.max_depth
       /\ st.avg_child_count = Average(sums.avg_child_count, sums.nodes)
       /\ st.avg_non_leaf_child_count =
             Average(sums.avg_non_leaf_child_count, sums.non_leaf_nodes)
       /\ st.avg_tuple_size = Average(sums.avg_tuple_size, Copies("LIST", sums.types))
  <2>1. DOMAIN sums = Keys
    BY <1>10 DEF Tells
  <2> QED BY <1>2, <2>1 DEF Keys
<1>12. st.nodes = Cardinality(nodes) /\ BagCardinality(st.types) = st.nodes
  BY <1>10, <1>11 DEF Tells
<1>13. st.max_depth = Max({Level(d)[n] : n \in N})
  <2> PICK m, L : m = sums.max_depth /\ L = {Level(d)[n] : n \in N}
    OBVIOUS
  <2>1. m \in L /\ \A l \in L : l <= m
    BY <1>10 DEF Tells
  <2>2. \A l \in L : l \in Nat
    BY LevelIs DEF N
  <2>3. Max(L) \in L /\ \A l \in L : Max(L) >= l
    <3>1. \E x \in L : \A l \in L : x >= l
      BY <2>1, <2>2
    <3> QED BY <3>1 DEF Max
  <2>4. m = Max(L)
    <3>1. Max(L) <= m /\ Max(L) >= m /\ Max(L) \in Nat /\ m \in Nat
      BY ONLY <2>1, <2>2, <2>3
    <3> QED BY ONLY <3>1
  <2> QED BY <1>11, <2>4
<1>14. st.avg_child_count = [sum |-> Cardinality(nodes \ first), over |-> Cardinality(nodes)]
  BY <1>10, <1>11 DEF Tells, Average
<1>15. st.avg_non_leaf_child_count.sum >= st.avg_non_leaf_child_count.over
  BY <1>10, <1>11 DEF Tells, Average
<1>16. BagCardinality(st.tuples) <= st.avg_tuple_size.over
  BY <1>10, <1>11 DEF Tells, Average
<1> QED BY <1>12, <1>13, <1>14, <1>15, <1>16 DEF DeviceAddsUp, nodes, first, N

\* Whatever the shape of its tree, each node of each device is counted once and in one
\* type, and the depth is that of the deepest.
THEOREM DevicesAlwaysAddUp == Spec => []DevicesAddUp
<1>1. ASSUME WalkInv PROVE DevicesAddUp
  <2>1. ScoreOK(score)
    BY <1>1, Known DEF WalkInv
  <2>2. \A d \in score.devices : DeviceOK(d)
    BY <2>1 DEF ScoreOK
  <2> QED BY <2>2, AnyDeviceAddsUp DEF DevicesAddUp
<1> QED BY <1>1, WalkInvariance, PTL
=============================================================================
