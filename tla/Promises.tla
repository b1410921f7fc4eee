------------------------------ MODULE Promises ------------------------------
(***************************************************************************)
(* What the effects of Effects.tla promise, in terms of when things        *)
(* happened and not of frames: a level is a closed form of the time since  *)
(* the LED was struck or lit, in exact parts of a level; a trial happens   *)
(* at every multiple of its interval; a head is where its launch and its   *)
(* speed put it.  A promise p is what has to be remembered for that.       *)
(***************************************************************************)
EXTENDS Effects

Never == -1

\* The promise of an effect that was just reset.
Blank(e) ==
  CASE e.kind \in HitKinds -> [value |-> AllDark, at |-> 0]
    [] e.kind = "ripple" -> [live |-> {}, count |-> 0]
    [] e.kind \in RainKinds ->
         [age |-> 0, lit |-> [l \in Leds |-> Never], flow |-> 0]
    [] e.kind \in {"drops", "fractal"} -> [age |-> 0]
    [] e.kind = "cycle" -> [phase |-> 0]
    [] e.kind = "starlight" ->
         [age |-> 0, from |-> AllDark, goal |-> AllDark, since |-> AllDark]
    [] e.kind = "digital" -> [age |-> 0, from |-> Never, speed |-> 0, at |-> 0]

\* Parts of a level (e.period to a level) that are left, and the level shown.
Residue(e, parts, elapsed) == Most(0, parts - FadeScale(e) * elapsed)
LevelOf(e, parts) == (parts + e.period - 1) \div e.period

HitLevel(e, p, l, at) == LevelOf(e, Residue(e, p.value[l], at - p.at))

Struck(e, p, led, at) ==
  [value |-> [l \in Leds |->
                LET left == Residue(e, p.value[l], at - p.at)
                    added == Contribution(e, led, l)
                IN IF Adds(e) THEN left + e.period * Least(added, Peak - LevelOf(e, left))
                   ELSE e.period * added],
   at |-> at]

(***************************************************************************)
(* The presses that arrived since the last frame count at their own times, *)
(* but not before the last frame if that showed something, not before one  *)
(* another, and not after this frame.                                      *)
(***************************************************************************)
Strike(e, local, acc, ev) ==
  LET at == Least(local, Most(acc.from, ev.at))
  IN [p |-> Struck(e, acc.p, ev.led, at), from |-> at]

HitPromise(e, p, last, local, arrived) ==
  LET glows == \E l \in Leds : HitLevel(e, p, l, last) > 0
      after == FoldLeft(LAMBDA acc, ev : Strike(e, local, acc, ev),
                        [p |-> p, from |-> IF glows THEN last ELSE local], arrived).p
  IN IF \A l \in Leds : HitLevel(e, after, l, local) = 0 THEN Blank(e) ELSE after

\* The presses that ripple, each with its number.
RipplePromise(e, p, local) ==
  [p EXCEPT !.live = {press \in @ : local - press.at < e.period}]

\* The trials of a frame that ends at the given age, and of no more of them.
TrialAges(e, age, elapsed) ==
  [k \in 1 .. Least(MaxTrials, (age + elapsed) \div e.interval - age \div e.interval)
     |-> (age \div e.interval + k) * e.interval]

RainLevel(e, p, l) ==
  IF p.lit[l] = Never THEN 0
  ELSE LevelOf(e, Residue(e, Peak * e.period, p.age - p.lit[l]))

RainPromise(e, p, elapsed, picks) ==
  LET trials == TrialAges(e, p.age, elapsed)
      chosen(k) == IF e.kind = "flow" THEN (p.flow + k) % NumLeds ELSE picks[k]
      times(l) == {trials[k] : k \in {j \in DOMAIN trials : chosen(j) = l}}
      after == [age |-> p.age + elapsed,
                lit |-> [l \in Leds |-> IF times(l) = {} THEN p.lit[l]
                                        ELSE CHOOSE t \in times(l) :
                                               \A u \in times(l) : u <= t],
                flow |-> IF e.kind = "flow" THEN (p.flow + Len(trials)) % NumLeds
                         ELSE 0]
  IN [after EXCEPT !.lit = [l \in Leds |-> IF RainLevel(e, after, l) = 0
                                           THEN Never ELSE @[l]]]

StarLevel(e, p, l, age) ==
  LET moved == (Peak * (age - p.since[l])) \div e.period
  IN IF ~e.smooth \/ moved >= Abs(p.goal[l] - p.from[l]) THEN p.goal[l]
     ELSE IF p.goal[l] > p.from[l] THEN p.from[l] + moved ELSE p.from[l] - moved

\* Trial k of a frame turns the targets of the LEDs it drew on or off.
Toggled(e, trials, picks, q, k) ==
  LET drawn(l) == l \in DOMAIN picks[k]
  IN [q EXCEPT
        !.from = [l \in Leds |-> IF drawn(l) THEN StarLevel(e, q, l, trials[k]) ELSE @[l]],
        !.goal = [l \in Leds |-> IF ~drawn(l) THEN @[l]
                                 ELSE IF @[l] = 0 THEN picks[k][l] ELSE 0],
        !.since = [l \in Leds |-> IF drawn(l) THEN trials[k] ELSE @[l]]]

StarPromise(e, p, elapsed, picks) ==
  LET trials == TrialAges(e, p.age, elapsed)
      after == FoldLeft(LAMBDA q, k : Toggled(e, trials, picks, q, k), p,
                        [k \in DOMAIN trials |-> k])
      age == p.age + elapsed
      settled(l) == StarLevel(e, after, l, age) = after.goal[l]
  IN [after EXCEPT !.age = age,
                   !.from = [l \in Leds |-> IF settled(l) THEN after.goal[l] ELSE @[l]],
                   !.since = [l \in Leds |-> IF settled(l) THEN 0 ELSE @[l]]]

(***************************************************************************)
(* A head that was launched falls until it is past the end and is launched *)
(* again in that millisecond; after MaxTrials launches in one frame it     *)
(* goes on around a ring of span places.                                   *)
(***************************************************************************)
HeadAt(p) == p.from + p.speed * (p.age - p.at)

\* A head that passes the end by the given age is launched again.
Launched(e, age, q, pick) ==
  LET past == {t \in q.at + 1 .. age : q.from + q.speed * (t - q.at) > e.recycle}
  IN IF past = {} THEN q
     ELSE [q EXCEPT !.from = pick[1], !.speed = pick[2],
                    !.at = CHOOSE t \in past : \A u \in past : t <= u]

\* The place on the ring of a head that is past the end.
Around(e, place) ==
  LET span == e.recycle - e.restart + 1
  IN CHOOSE h \in e.restart .. e.recycle : (place - h) % span = 0

ColumnPromise(e, p, elapsed, picks, seed) ==
  LET age == p.age + elapsed
      first == IF p.speed # 0 THEN p
               ELSE [p EXCEPT !.from = seed[1], !.speed = seed[2]]
      after == [FoldLeft(LAMBDA q, pick : Launched(e, age, q, pick), first, picks)
                  EXCEPT !.age = age]
  IN IF HeadAt(after) <= e.recycle THEN after
     ELSE [after EXCEPT !.at = age, !.from = Around(e, HeadAt(after))]

-----------------------------------------------------------------------------

\* A press that reaches the effect outside a frame.
Heard(e, p, ev) ==
  IF e.kind # "ripple" \/ ~ev.pressed \/ Cardinality(p.live) = Triggers THEN p
  ELSE [live |-> p.live \cup {[at |-> ev.at, number |-> p.count]},
        count |-> p.count + 1]

Promised(e, p, frame, last, arrived, roll) ==
  CASE e.kind \in HitKinds -> HitPromise(e, p, last, frame.local, arrived)
    [] e.kind = "ripple" -> RipplePromise(e, p, frame.local)
    [] e.kind \in RainKinds -> RainPromise(e, p, frame.elapsed, roll.picks)
    [] e.kind \in {"drops", "fractal"} -> [p EXCEPT !.age = @ + frame.elapsed]
    [] e.kind = "cycle" -> [phase |-> frame.clock % e.period]
    [] e.kind = "starlight" -> StarPromise(e, p, frame.elapsed, roll.picks)
    [] e.kind = "digital" -> ColumnPromise(e, p, frame.elapsed, roll.picks, roll.seed)

\* The data of a hit effect are what its promise says at its last frame.
HitKept(e, d, p, last) ==
  IF e.kind = "ripple"
  THEN \A start \in Range(d.start) \cup {press.at : press \in p.live} : start # Unused =>
         Cardinality({t \in DOMAIN d.start : d.start[t] = start})
           = Cardinality({press \in p.live : press.at = start})
  ELSE \A l \in Leds : d.level[l] = HitLevel(e, p, l, last)

TrialKept(e, d, p) ==
  CASE e.kind \in RainKinds -> /\ d.step = p.age % e.interval
                               /\ d.flow = p.flow
                               /\ \A l \in Leds : d.level[l] = RainLevel(e, p, l)
    [] e.kind = "drops" -> /\ d.drop = (DropRate * p.age) % e.period
                           /\ \A l \in Leds : d.hue[l] \in 0 .. HueMax - 1
    [] e.kind = "fractal" -> d.phase = p.age % e.period
    [] e.kind = "starlight" ->
         /\ d.step = p.age % e.interval
         /\ \A l \in Leds : d.level[l] = StarLevel(e, p, l, p.age)
    [] e.kind = "digital" -> d.seeded => /\ d.head = HeadAt(p)
                                         /\ d.head \in e.restart .. e.recycle
    [] OTHER -> TRUE
=============================================================================
