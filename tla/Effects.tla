------------------------------- MODULE Effects -------------------------------
(***************************************************************************)
(* The effects that keep state from frame to frame, as operators: what one *)
(* frame, one key event and one reset make of an effect's data.  An effect *)
(* is a record e: e.kind names its file, the other fields are its          *)
(* devicetree properties; rain's modes count as kinds.  A frame has the    *)
(* local time of the pass and the time that passed since the effect's last *)
(* frame (zero when the effect was not animating).  What is drawn from the *)
(* random generator is an argument: the frame's steps take any.            *)
(***************************************************************************)
EXTENDS Integers, SequencesExt

CONSTANTS Coord,        \* the LEDs' coordinates: a function from 0 .. n-1
          Peak,         \* full level of a LED, 255 in the code
          PendingCap,   \* KP_RGB_EFFECT_PENDING_EVENTS
          Triggers,     \* KP_RIPPLE_TRIGGERS
          MaxTrials     \* the most trials or restarts a frame catches up on

Leds == DOMAIN Coord
NumLeds == Cardinality(Leds)
NoLed == NumLeds        \* the answer of kp_rgb_led_for_position for no LED
Unused == -1            \* a ripple trigger that is not in use
AllDark == [l \in Leds |-> 0]

ASSUME CoordAssumption ==
  /\ NumLeds \in Nat \ {0} /\ Leds = 0 .. NumLeds - 1
  /\ \A l \in Leds : Coord[l] \in [x : Nat, y : Nat]
ASSUME SizesAssumption ==
  Peak \in Nat \ {0} /\ PendingCap \in Nat /\ Triggers \in Nat /\ MaxTrials \in Nat

Least(a, b) == IF a <= b THEN a ELSE b
Most(a, b) == IF a >= b THEN a ELSE b
Abs(n) == IF n < 0 THEN -n ELSE n
Clamp(n, low, high) == Most(low, Least(n, high))

Offset(a, b) == <<Coord[b].x - Coord[a].x, Coord[b].y - Coord[a].y>>
Squared(d) == d[1] * d[1] + d[2] * d[2]

\* kp_rgb_coord_distance: the integer square root.
Distance(squared) ==
  CHOOSE r \in 0 .. squared : r * r <= squared /\ (r + 1) * (r + 1) > squared

(***************************************************************************)
(* kp_rgb_decay_u8: the loss of a level over a slice of time, in parts of  *)
(* divisor; what does not make a whole level is carried in the remainder.  *)
(***************************************************************************)
DecayBug(level, rem, scaled, divisor) ==
  IF (scaled + rem) \div divisor >= level
  THEN [level |-> 0, rem |-> 0]
  ELSE [level |-> level - (scaled + rem) \div divisor, rem |-> scaled % divisor]
Decay(level, rem, scaled, divisor) ==
  LET total == scaled + rem
      loss == total \div divisor
  IN IF loss >= level
     THEN [level |-> 0, rem |-> 0]
     ELSE [level |-> level - loss, rem |-> total % divisor]

\* Every LED loses scaled/divisor.
Faded(d, scaled, divisor) ==
  LET faded == [l \in Leds |-> Decay(d.level[l], d.rem[l], scaled, divisor)]
  IN [d EXCEPT !.level = [l \in Leds |-> faded[l].level],
               !.rem = [l \in Leds |-> faded[l].rem]]

-----------------------------------------------------------------------------
(***************************************************************************)
(* Reactive and heatmap.  Key events are kept until the next frame, which  *)
(* replays them at their times: fade to the event, strike, and so on to    *)
(* the time of the frame.                                                  *)
(***************************************************************************)

\* The share of whole that reaches a LED at offset d: none from the radius on.
Falloff(e, whole, d) ==
  LET squared == Squared(d)
  IN IF squared >= e.radius * e.radius THEN 0
     ELSE (whole * (e.radius - Distance(squared))) \div e.radius

\* kp_reactive_shape: what a hit of key led adds to the LED l.
ReactiveShape(e, led, l) ==
  LET d == Offset(led, l)
      ax == Abs(d[1])
      ay == Abs(d[2])
  IN CASE e.spread = "point" -> IF ax = 0 /\ ay = 0 THEN Peak ELSE 0
       [] e.spread = "disc"  -> Falloff(e, Peak, d)
       [] e.spread = "cross" -> IF ax < e.tol \/ ay < e.tol THEN Peak ELSE 0
       [] e.spread = "nexus" ->
            LET reach == Least(ax, ay) - e.tol
            IN IF reach < 0 \/ reach >= e.radius THEN 0
               ELSE (Peak * (e.radius - reach)) \div e.radius

\* kp_eff_heatmap_apply: the struck key, and less for its neighbours.
HeatShape(e, led, l) ==
  IF l = led THEN e.step ELSE Least(e.limit, Falloff(e, e.step, Offset(led, l)))

Contribution(e, led, l) ==
  IF e.kind = "heatmap" THEN HeatShape(e, led, l) ELSE ReactiveShape(e, led, l)

\* The fade of a hit effect: Peak levels in a period, or one in a delay.
FadeScale(e) == IF e.kind = "heatmap" THEN 1 ELSE Peak
FadeSpan(e) == IF e.kind = "heatmap" THEN Peak * e.period ELSE e.period

\* heatmap always adds; reactive's other mode keeps the latest hit only.
Adds(e) == e.kind = "heatmap" \/ e.multi

HitAdvance(e, d, elapsed) ==
  IF elapsed = 0 THEN d
  ELSE Faded(d, FadeScale(e) * Least(elapsed, FadeSpan(e)), e.period)

HitApply(e, d, led) ==
  LET base == IF Adds(e) THEN d
              ELSE [d EXCEPT !.level = AllDark, !.rem = AllDark]
      added == [l \in Leds |-> Contribution(e, led, l)]
  IN [base EXCEPT !.level =
        [l \in Leds |-> Least(Peak, base.level[l] + added[l])]]

HitEvent(e, d, ev) ==
  IF ~ev.pressed \/ (e.kind = "heatmap" /\ e.step = 0)
     \/ Len(d.pending) = PendingCap
  THEN [data |-> d, changed |-> FALSE]
  ELSE [data |-> [d EXCEPT !.pending = Append(@, ev)], changed |-> TRUE]

\* One pending event of a frame that ends at time local.
Replayed(e, local, acc, ev) ==
  LET at == Clamp(ev.at, acc.cursor, local)
  IN [data |-> HitApply(e, HitAdvance(e, acc.data, at - acc.cursor), ev.led),
      cursor |-> at]

HitRender(e, d, local, elapsed) ==
  LET acc == FoldLeft(LAMBDA a, ev : Replayed(e, local, a, ev),
                      [data |-> d, cursor |-> local - Least(local, elapsed)],
                      d.pending)
      full == HitAdvance(e, acc.data, local - acc.cursor)
  IN [full EXCEPT !.pending = <<>>]

-----------------------------------------------------------------------------
(***************************************************************************)
(* Ripple.  A press takes the first free trigger; only a frame frees one.  *)
(***************************************************************************)

RippleEvent(e, d, ev) ==
  LET free == {t \in DOMAIN d.start : d.start[t] = Unused}
      first == CHOOSE t \in free : \A u \in free : t <= u
  IN IF ~ev.pressed \/ free = {}
     THEN [data |-> d, changed |-> FALSE]
     ELSE [data |-> [d EXCEPT !.start[first] = ev.at], changed |-> TRUE]

RippleRender(e, d, local) ==
  [d EXCEPT !.start = [t \in DOMAIN d.start |->
     IF d.start[t] # Unused /\ Most(0, local - d.start[t]) >= e.period
     THEN Unused ELSE d.start[t]]]

-----------------------------------------------------------------------------
(***************************************************************************)
(* Rain.  In three modes ("pixel" and "jellybean", alike but for the       *)
(* colours, and "flow") a trial every e.interval may light one LED, and    *)
(* all fade; "drops" gives a LED another hue at a rate tied to the period; *)
(* "fractal" is a pulse with a phase of its own.                           *)
(***************************************************************************)

Lit(d, l) == [d EXCEPT !.level[l] = Peak, !.rem[l] = 0]

\* pick: the LED the random draws light, NoLed for none.  Flow draws none.
RainTrial(e, d, pick) ==
  LET next == (d.flow + 1) % NumLeds
  IN IF e.kind = "flow" THEN Lit([d EXCEPT !.flow = next], next)
     ELSE IF pick = NoLed THEN d ELSE Lit(d, pick)

RainSlice(e, acc, pick) ==
  IF acc.remaining < acc.until THEN acc
  ELSE [data |-> RainTrial(e, [Faded(acc.data, Peak * acc.until, e.period)
                                 EXCEPT !.step = 0], pick),
        remaining |-> acc.remaining - acc.until,
        until |-> e.interval]

RainSteps(e, d, elapsed, picks) ==
  LET acc == FoldLeft(LAMBDA a, pick : RainSlice(e, a, pick),
                      [data |-> d, remaining |-> elapsed,
                       until |-> e.interval - d.step], picks)
      rest == Faded(acc.data, Peak * acc.remaining, e.period)
  IN [rest EXCEPT !.step = (@ + acc.remaining) % e.interval]

\* kp_rain_drops_hue: down the wheel by 0, 1 or 2 steps of an eighth.
HueMax == 360
DropHue(base, steps) ==
  LET hue == base - (HueMax \div 8) * steps
  IN IF hue < 0 THEN hue + HueMax ELSE hue

DropRate == 64          \* KP_RAIN_DROPS_PER_PERIOD

\* picks: pairs of a LED and a number of hue steps; at most MaxTrials nudges.
RainDrops(e, d, elapsed, picks, seeds) ==
  LET hues == IF d.seeded THEN d.hue
              ELSE [l \in Leds |-> DropHue(e.hue, seeds[l])]
      progress == d.drop + elapsed * DropRate
      nudges == SubSeq(picks, 1, Least(progress \div e.period, MaxTrials))
  IN [d EXCEPT !.seeded = TRUE,
               !.drop = progress % e.period,
               !.hue = FoldLeft(LAMBDA h, p : [h EXCEPT ![p[1]] = DropHue(e.hue, p[2])],
                                hues, nudges)]

RainFractal(e, d, elapsed) == [d EXCEPT !.phase = (@ + elapsed) % e.period]

-----------------------------------------------------------------------------
(***************************************************************************)
(* Starlight.  A trial every e.interval turns some LEDs' targets on or     *)
(* off; smooth LEDs move to their targets at Peak levels in a period.      *)
(***************************************************************************)

Approach(level, goal, rem, elapsed, period) ==
  LET distance == Abs(goal - level)
      numerator == elapsed * Peak + rem
      advance == numerator \div period
  IN IF advance >= distance THEN [level |-> goal, rem |-> 0]
     ELSE [level |-> IF level < goal THEN level + advance ELSE level - advance,
           rem |-> numerator % period]

StarAdvance(e, d, elapsed) ==
  LET moved == [l \in Leds |->
                  Approach(d.level[l], d.goal[l], d.rem[l], elapsed, e.period)]
  IN IF elapsed = 0 \/ ~e.smooth THEN d
     ELSE [d EXCEPT !.level = [l \in Leds |-> moved[l].level],
                    !.rem = [l \in Leds |-> moved[l].rem]]

\* pick: the LEDs whose draw succeeds, each with the level it would get.
StarTrialBug(e, d, pick) ==
  LET goals == [l \in Leds |-> IF l \notin DOMAIN pick THEN d.goal[l]
                               ELSE IF d.goal[l] = 0 THEN pick[l] ELSE 0]
  IN [d EXCEPT !.goal = goals,
               !.level = IF e.smooth THEN @ ELSE goals]
StarTrial(e, d, pick) ==
  LET goals == [l \in Leds |-> IF l \notin DOMAIN pick THEN d.goal[l]
                               ELSE IF d.goal[l] = 0 THEN pick[l] ELSE 0]
  IN [d EXCEPT !.goal = goals,
               !.rem = [l \in Leds |-> IF l \in DOMAIN pick THEN 0 ELSE @[l]],
               !.level = IF e.smooth THEN @ ELSE goals]

StarSlice(e, acc, pick) ==
  [data |-> StarTrial(e, StarAdvance(e, acc.data, acc.until), pick),
   remaining |-> acc.remaining - acc.until,
   until |-> e.interval]

StarSteps(e, d, elapsed, picks) ==
  LET total == d.step + elapsed
      steps == Least(total \div e.interval, MaxTrials)
      acc == FoldLeft(LAMBDA a, pick : StarSlice(e, a, pick),
                      [data |-> [d EXCEPT !.step = total % e.interval],
                       remaining |-> elapsed, until |-> e.interval - d.step],
                      SubSeq(picks, 1, steps))
  IN StarAdvance(e, acc.data, acc.remaining)

-----------------------------------------------------------------------------
(***************************************************************************)
(* Digital rain, one column of it: the columns are independent and alike.  *)
(* The head falls from a random start above the board at a random speed,   *)
(* and starts again when it is past e.recycle.  picks: starts and speeds.  *)
(***************************************************************************)

Fall(e, acc, pick) ==
  LET crossing == (e.recycle - acc.data.head) \div acc.data.speed + 1
  IN IF crossing > acc.remaining \/ acc.remaining = 0 THEN acc
     ELSE [data |-> [acc.data EXCEPT !.head = pick[1], !.speed = pick[2]],
           remaining |-> acc.remaining - crossing]

Columns(e, d, elapsed, picks, seed) ==
  LET seeded == IF d.seeded THEN d
                ELSE [seeded |-> TRUE, head |-> seed[1], speed |-> seed[2]]
      acc == FoldLeft(LAMBDA a, pick : Fall(e, a, pick),
                      [data |-> seeded, remaining |-> elapsed], picks)
      head == acc.data.head + acc.data.speed * acc.remaining
      span == e.recycle - e.restart + 1
  IN [acc.data EXCEPT !.head = IF head > e.recycle
                               THEN e.restart + ((head - e.restart) % span)
                               ELSE head]

-----------------------------------------------------------------------------
(***************************************************************************)
(* Spectrum, breathe, rainbow and band keep nothing: what they show is a   *)
(* function of the phase of the clock that both halves of a keyboard       *)
(* share.                                                                  *)
(***************************************************************************)

ClockPhase(e, clock) == clock % e.period

-----------------------------------------------------------------------------
(***************************************************************************)
(* The callbacks, whatever the kind.                                       *)
(***************************************************************************)

HitKinds == {"reactive", "heatmap"}
EventKinds == HitKinds \cup {"ripple"}
RainKinds == {"pixel", "flow"}

\* Properties that the hit effects can have.
HitEffect(e) ==
  /\ e.period \in Nat \ {0} /\ e.radius \in Nat
  /\ e.kind = "heatmap" => e.step \in Nat /\ e.limit \in Nat
  /\ e.kind = "reactive" => /\ e.spread \in {"point", "disc", "cross", "nexus"}
                            /\ e.tol \in Nat /\ e.multi \in BOOLEAN

\* And those of the others; the build asserts that intervals are not zero.
TrialEffect(e) ==
  /\ e.kind \in RainKinds \cup {"drops", "fractal", "starlight"} => e.period \in Nat \ {0}
  /\ e.kind \in RainKinds \cup {"starlight"} => e.interval \in Nat \ {0}
  /\ e.kind = "drops" => e.hue \in 0 .. HueMax - 1
  /\ e.kind = "starlight" => e.smooth \in BOOLEAN /\ e.goals \subseteq Nat
  /\ e.kind = "digital" => /\ e.restart \in Int /\ e.recycle \in Int
                           /\ e.restart <= e.recycle
                           /\ e.starts \subseteq e.restart .. e.recycle
                           /\ e.speeds \subseteq Nat \ {0}

\* What a reset leaves: all data but colour and period are zero.
Zero(e) ==
  CASE e.kind \in HitKinds -> [pending |-> <<>>, level |-> AllDark, rem |-> AllDark]
    [] e.kind = "ripple" -> [start |-> [t \in 1 .. Triggers |-> Unused]]
    [] e.kind \in RainKinds ->
         [level |-> AllDark, rem |-> AllDark, step |-> 0, flow |-> 0]
    [] e.kind = "drops" -> [seeded |-> FALSE, drop |-> 0, hue |-> AllDark]
    [] e.kind = "fractal" -> [phase |-> 0]
    [] e.kind = "starlight" ->
         [level |-> AllDark, goal |-> AllDark, rem |-> AllDark, step |-> 0]
    [] e.kind = "digital" -> [seeded |-> FALSE, head |-> 0, speed |-> 0]
    [] e.kind = "cycle" -> [phase |-> 0]

\* on_event: only the effects that show key presses have one.
OnEvent(e, d, ev) ==
  CASE e.kind \in HitKinds -> HitEvent(e, d, ev)
    [] e.kind = "ripple" -> RippleEvent(e, d, ev)
    [] OTHER -> [data |-> d, changed |-> FALSE]

\* set_active(false): only these effects have one, and it is a reset.
Deactivated(e, d) == IF e.kind \in EventKinds THEN Zero(e) ELSE d

Render(e, d, frame, roll) ==
  CASE e.kind \in HitKinds -> HitRender(e, d, frame.local, frame.elapsed)
    [] e.kind = "ripple" -> RippleRender(e, d, frame.local)
    [] e.kind \in RainKinds -> RainSteps(e, d, frame.elapsed, roll.picks)
    [] e.kind = "drops" -> RainDrops(e, d, frame.elapsed, roll.picks, roll.seed)
    [] e.kind = "fractal" -> RainFractal(e, d, frame.elapsed)
    [] e.kind = "starlight" -> StarSteps(e, d, frame.elapsed, roll.picks)
    [] e.kind = "digital" -> Columns(e, d, frame.elapsed, roll.picks, roll.seed)
    [] e.kind = "cycle" -> [phase |-> ClockPhase(e, frame.clock)]

\* render's answer: is there anything left that moves by itself?
Evolving(e, d) ==
  CASE e.kind \in HitKinds -> \E l \in Leds : d.level[l] # 0
    [] e.kind = "ripple" -> \E t \in DOMAIN d.start : d.start[t] # Unused
    [] OTHER -> TRUE

\* What the random generator may answer in one trial, and to seed.
Draws(e) ==
  CASE e.kind = "pixel" -> Leds \cup {NoLed}
    [] e.kind = "drops" -> Leds \X {0, 1, 2}
    [] e.kind = "starlight" -> UNION {[lit -> e.goals] : lit \in SUBSET Leds}
    [] e.kind = "digital" -> e.starts \X e.speeds
    [] OTHER -> {0}

Seeds(e, d) ==
  CASE e.kind = "drops" /\ ~d.seeded -> [Leds -> {0, 1, 2}]
    [] e.kind = "digital" /\ ~d.seeded -> e.starts \X e.speeds
    [] OTHER -> {0}

Rolls(e, d) == [picks : [1 .. MaxTrials -> Draws(e)], seed : Seeds(e, d)]
=============================================================================
