------------------------------ MODULE MCFrames ------------------------------
EXTENDS Frames

\* Two keys that share neither row nor column.
MCCoord == [l \in 0 .. 1 |-> [x |-> l, y |-> l]]

Press(led, at) == [led |-> led, pressed |-> TRUE, at |-> at]
MCEvents == {Press(led, at) : led \in Leds, at \in 0 .. 8}
            \cup {[Press(0, 1) EXCEPT !.pressed = FALSE], Press(NoLed, 2)}

\* Entries already taken out of the ring and the frame time of an effect that
\* does not animate are not looked at again.
Observed ==
  <<head, Contents, allowed, dropped, now, fitted, posted, phase, pass, next, gate,
    resetPending, active, fx, offset, history,
    [e \in DOMAIN run |-> IF run[e].animating THEN run[e].last ELSE NoDeadline]>>

Fitting(effects, keys, presses, upsets, until) ==
  [effects |-> effects, keys |-> keys, presses |-> presses, upsets |-> upsets,
   syncs |-> 0, until |-> until]

Reactive(spread, multi) ==
  [kind |-> "reactive", period |-> 5, spread |-> spread, radius |-> 2, tol |-> 1,
   multi |-> multi]
Heatmap == [kind |-> "heatmap", period |-> 2, step |-> 2, radius |-> 2, limit |-> 1]
Ripple == [kind |-> "ripple", period |-> 3]
Pixel == [kind |-> "pixel", period |-> 5, interval |-> 2]
Flow == [kind |-> "flow", period |-> 5, interval |-> 2]
Drops == [kind |-> "drops", period |-> 100, hue |-> 60]
Fractal == [kind |-> "fractal", period |-> 5]
Starlight(smooth) ==
  [kind |-> "starlight", period |-> 4, interval |-> 2, smooth |-> smooth, goals |-> {2}]
Digital ==
  [kind |-> "digital", restart |-> -2, recycle |-> 3, starts |-> {-1, 0}, speeds |-> {2, 3}]
Cycle == [kind |-> "cycle", period |-> 5]

MCFittings ==
  {Fitting({Reactive("disc", TRUE)}, {0}, 4, 1, 4),     \* the ring is full, a pass is long
   Fitting({Reactive("disc", TRUE)}, {0, 1}, 2, 2, 6),  \* hits add up, a reset between them
   Fitting({Reactive("nexus", FALSE)}, {0, 1}, 2, 2, 5),
   Fitting({Heatmap}, {0, 1}, 2, 2, 6),
   Fitting({Ripple}, {0}, 3, 1, 5),
   Fitting({Reactive("cross", TRUE), Flow}, {0}, 1, 2, 5),  \* frames without a hit
   Fitting({Pixel}, {}, 0, 3, 6), Fitting({Flow}, {}, 0, 3, 7),
   Fitting({Drops}, {}, 0, 2, 5), Fitting({Fractal}, {}, 0, 3, 6),
   Fitting({Starlight(TRUE)}, {}, 0, 2, 7), Fitting({Starlight(FALSE)}, {}, 0, 2, 5),
   Fitting({Digital}, {}, 0, 2, 7),
   [Fitting({Cycle}, {}, 0, 1, 8) EXCEPT !.syncs = 2]}
=============================================================================
