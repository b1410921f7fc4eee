------------------------------- MODULE Frames -------------------------------
(***************************************************************************)
(* From a key press to a frame: the listener puts events into the ring of  *)
(* EventRing, a pass of the coordinator takes them out, hands them to the  *)
(* effects of Effects, paints if something asks for it and plans the next  *)
(* frame (kp_rgb_scene_pass_locked and the end of                          *)
(* kp_rgb_coordinator_handler).  The pass is seen from its inside: time    *)
(* goes on and events arrive while it runs.  Scene has the order of the    *)
(* callbacks over several overlays; here all overlays have one gate, and   *)
(* what matters is what the effects make of the times they are given.      *)
(***************************************************************************)
EXTENDS EventRing, Promises

CONSTANTS Tick,        \* CONFIG_KEYPAW_RGB_MATRIX_TICK_MS
          Fittings,    \* what is fitted: effects, the LEDs whose keys are
                       \* used, how many key events, clock commands and upsets
                       \* (switches of output or gate, resets) happen, and the
                       \* end of the model's time
          MaxLag,      \* how late an event or a clock command may come
          ClockWrap,   \* the clock counts modulo this, 2^32 in the code
          CentralAhead \* the central's uptime, less this half's

ASSUME TickAssumption == Tick \in Nat \ {0}
ASSUME ClockAssumption ==
    ClockWrap \in Nat \ {0} /\ CentralAhead \in Int /\ MaxLag \in Nat

\* A frame's events fit an effect's list of pending ones.
ASSUME EventsAssumption ==
  /\ Events \subseteq [led : Leds \cup {NoLed}, pressed : BOOLEAN, at : Nat]
  /\ PendingCap >= QueueLen
ASSUME FittingsAssumption ==
  \A f \in Fittings : \A e \in f.effects :
    /\ e.kind \in HitKinds => HitEffect(e)
    /\ e.kind = "ripple" => e.period \in Nat \ {0}
    /\ TrialEffect(e)

VARIABLES now,          \* k_uptime_get()
          fitted,       \* the member of Fittings that is built in
          posted,       \* presses, clock commands and upsets so far
          phase,        \* where the coordinator's pass is
          pass,         \* its now_ms, paint, input_changed and loop count
          next,         \* kp_rgb_next_frame_ms
          gate,         \* the overlays' condition
          resetPending, \* reset_pending
          active,       \* state.active of the overlays
          run,          \* state.animating and state.last_render_ms
          fx,           \* the effects' data
          offset,       \* kp_rgb_clock_offset_ms
          arrived,      \* history: presses delivered in this pass
          promise,      \* history: what the effects promise, see Promises
          shown,        \* history: painted since reset or activation
          lag,          \* history: how late the last clock command came
          grid          \* history: first frame of this animation, last end

frames == <<now, fitted, posted, phase, pass, next, gate, resetPending, active,
            run, fx, offset, arrived, promise, shown, lag, grid>>
vars == <<ring, frames>>
history == <<arrived, promise, shown, lag, grid>>

NoDeadline == -1        \* INT64_MAX
Unsynced == -1

NoPass == [now |-> 0, paint |-> FALSE, changed |-> FALSE, drained |-> 0]

NoGrid == [base |-> 0, done |-> 0]

Init ==
  /\ RingInit
  /\ fitted \in Fittings
  /\ now = 0 /\ posted = [presses |-> 0, syncs |-> 0, upsets |-> 0]
  /\ phase = "idle" /\ pass = NoPass
  /\ next = NoDeadline
  /\ gate = TRUE /\ resetPending = FALSE /\ active = FALSE
  /\ run = [e \in fitted.effects |-> [animating |-> FALSE, last |-> 0]]
  /\ fx = [e \in fitted.effects |-> Zero(e)]
  /\ offset = 0
  /\ arrived = <<>>
  /\ promise = [e \in fitted.effects |-> Blank(e)]
  /\ shown = FALSE /\ lag = Unsynced /\ grid = NoGrid

-----------------------------------------------------------------------------
\* Time passes at any point of a pass.
Elapse == /\ now < fitted.until
          /\ now' = now + 1
          /\ UNCHANGED <<ring, fitted, posted, phase, pass, next, gate, resetPending,
                         active, run, fx, offset, history>>

(***************************************************************************)
(* kp_rgb_matrix_event_listener, any time: only the ring changes.  The     *)
(* event's time may lie behind, as for a press that a hold-tap held back.  *)
(***************************************************************************)
KeyEvent(ev) ==
  /\ posted.presses < fitted.presses
  /\ ev.led \in fitted.keys \cup {NoLed} /\ ev.at \in now - MaxLag .. now
  /\ Push(ev)
  /\ posted' = [posted EXCEPT !.presses = @ + 1]
  /\ UNCHANGED <<now, fitted, phase, pass, next, gate, resetPending, active, run, fx,
                 offset, history>>

(***************************************************************************)
(* RGB_CLOCK_CMD, any time.  Its argument is the central's uptime when the *)
(* command was made, in as many bits as the clock has.                     *)
(***************************************************************************)
ClockCommandBug(late) ==
  /\ posted.syncs < fitted.syncs
  /\ LET argument == (now + CentralAhead - late) % ClockWrap
     IN offset' = Most(0, argument - (now % ClockWrap))
  /\ lag' = late
  /\ posted' = [posted EXCEPT !.syncs = @ + 1]
  /\ UNCHANGED <<ring, now, fitted, phase, pass, next, gate, resetPending, active, run,
                 fx, arrived, promise, shown, grid>>
ClockCommand(late) ==
  /\ posted.syncs < fitted.syncs
  /\ LET argument == (now + CentralAhead - late) % ClockWrap
     IN offset' = (argument - (now % ClockWrap)) % ClockWrap
  /\ lag' = late
  /\ posted' = [posted EXCEPT !.syncs = @ + 1]
  /\ UNCHANGED <<ring, now, fitted, phase, pass, next, gate, resetPending, active, run,
                 fx, arrived, promise, shown, grid>>

\* These hold the matrix mutex: no pass runs.
Upset == /\ phase = "idle"
         /\ posted.upsets < fitted.upsets
         /\ posted' = [posted EXCEPT !.upsets = @ + 1]

\* kp_rgb_reconcile_power_locked
SwitchOutput ==
  /\ Upset
  /\ PurgeAndSwitch
  /\ resetPending' = (resetPending \/ ~allowed)
  /\ next' = NoDeadline
  /\ grid' = NoGrid
  /\ UNCHANGED <<now, fitted, phase, pass, gate, active, run, fx, offset, arrived,
                 promise, shown, lag>>

\* The overlays' condition changes: conditions are run before a pass.
SwitchGate ==
  /\ Upset
  /\ gate' = ~gate
  /\ UNCHANGED <<ring, now, fitted, phase, pass, next, resetPending, active, run, fx,
                 offset, history>>

RequestReset ==
  /\ Upset
  /\ resetPending' = TRUE
  /\ UNCHANGED <<ring, now, fitted, phase, pass, next, gate, active, run, fx, offset,
                 history>>

-----------------------------------------------------------------------------
(***************************************************************************)
(* The beginning of a pass: overlays that are no longer wanted are         *)
(* deactivated, then reset if that is pending, then those that are wanted  *)
(* activated.  (The reset at the first activation finds zeros.)            *)
(***************************************************************************)
StartPass(repaint) ==
  LET wanted == allowed /\ gate
      leaves == active /\ ~wanted
      restarts == resetPending \/ active # wanted
  IN /\ phase = "idle"
     /\ pass' = [now |-> now, paint |-> repaint \/ (next # NoDeadline /\ now >= next),
                 changed |-> FALSE, drained |-> 0]
     /\ fx' = [e \in fitted.effects |->
                 IF resetPending THEN Zero(e)
                 ELSE IF leaves THEN Deactivated(e, fx[e]) ELSE fx[e]]
     /\ run' = [e \in fitted.effects |->
                  IF restarts THEN [run[e] EXCEPT !.animating = FALSE] ELSE run[e]]
     /\ active' = wanted
     /\ resetPending' = FALSE
     /\ phase' = "input"
     /\ promise' = [e \in fitted.effects |->
                      IF resetPending \/ (leaves /\ e.kind \in EventKinds)
                      THEN Blank(e) ELSE promise[e]]
     /\ shown' = (shown /\ ~restarts)
     /\ arrived' = <<>>
     /\ UNCHANGED <<ring, now, fitted, posted, next, gate, offset, lag, grid>>

\* The pass after one more event, which may ask for a frame.
Drained(asks) == [now |-> pass.now, paint |-> pass.paint,
                  changed |-> pass.changed \/ asks, drained |-> pass.drained + 1]

\* One round of the delivery loop and kp_rgb_deliver_position.
Deliver ==
  /\ phase = "input" /\ pass.drained < QueueLen
  /\ Pop
  /\ LET ev == slots[tail]
         heard == gate /\ active /\ ev.led # NoLed
         answer == [e \in fitted.effects |-> OnEvent(e, fx[e], ev)]
     IN IF heard
        THEN /\ fx' = [e \in fitted.effects |-> answer[e].data]
             /\ pass' = Drained(\E e \in fitted.effects : answer[e].changed)
             /\ promise' = [e \in fitted.effects |-> Heard(e, promise[e], ev)]
             /\ arrived' = IF ev.pressed THEN Append(arrived, Contents[1]) ELSE arrived
        ELSE /\ pass' = Drained(FALSE)
             /\ UNCHANGED <<fx, promise, arrived>>
  /\ UNCHANGED <<now, fitted, posted, phase, next, gate, resetPending, active, run,
                 offset, shown, lag, grid>>

\* local_ms, clock_ms and kp_rgb_callbacks_render's elapsed_ms.
Clock == (now + offset) % ClockWrap
FrameFor(e) ==
  [local |-> pass.now, clock |-> Clock,
   elapsed |-> IF run[e].animating THEN Most(0, pass.now - run[e].last) ELSE 0]

\* The promise's frame: the time since the last one, if that was shown, and
\* the central's clock when the last clock command's delay is taken off.
PromiseFrame(e) ==
  [local |-> pass.now,
   elapsed |-> IF shown THEN pass.now - run[e].last ELSE 0,
   clock |-> IF lag = Unsynced THEN Clock ELSE (now + CentralAhead - lag) % ClockWrap]

Painting == allowed /\ (pass.paint \/ pass.changed)

(***************************************************************************)
(* The end of the delivery loop, and the frame if there is one: every      *)
(* overlay behind an open gate renders.                                    *)
(***************************************************************************)
Paint ==
  /\ phase = "input" /\ (pass.drained = QueueLen \/ ~Available)
  /\ Painting
  /\ phase' = "painted"
  /\ IF gate
     THEN \E roll \in [fitted.effects -> UNION {Rolls(e, fx[e]) : e \in fitted.effects}] :
            /\ \A e \in fitted.effects : roll[e] \in Rolls(e, fx[e])
            /\ LET data == [e \in fitted.effects |-> Render(e, fx[e], FrameFor(e), roll[e])]
               IN /\ fx' = data
                  /\ run' = [e \in fitted.effects |->
                               [animating |-> Evolving(e, data[e]), last |-> pass.now]]
            /\ promise' = [e \in fitted.effects |->
                 Promised(e, promise[e], PromiseFrame(e), run[e].last, arrived, roll[e])]
            /\ shown' = TRUE
     ELSE UNCHANGED <<fx, run, promise, shown>>
  /\ arrived' = <<>>
  /\ UNCHANGED <<ring, now, fitted, posted, pass, next, gate, resetPending, active,
                 offset, lag, grid>>

\* The loop ends with nothing to paint.
Skip ==
  /\ phase = "input" /\ (pass.drained = QueueLen \/ ~Available)
  /\ ~Painting
  /\ phase' = "idle" /\ pass' = NoPass /\ arrived' = <<>>
  /\ UNCHANGED <<ring, now, fitted, posted, next, gate, resetPending, active, run, fx,
                 offset, promise, shown, lag, grid>>

\* kp_rgb_scene_animating
SceneAnimating == gate /\ \E e \in fitted.effects : run[e].animating

(***************************************************************************)
(* The strip has been written, finished_ms is now: the deadline moves by   *)
(* whole periods until it lies ahead.                                      *)
(***************************************************************************)
AdvancedBug(deadline, finished) ==
  IF deadline > finished THEN deadline ELSE finished + Tick
Advanced(deadline, finished) ==
  IF deadline > finished THEN deadline
  ELSE deadline + ((finished - deadline) \div Tick + 1) * Tick

FinishFrame ==
  /\ phase = "painted"
  /\ next' = IF SceneAnimating
             THEN Advanced(IF next = NoDeadline THEN pass.now ELSE next, now)
             ELSE NoDeadline
  /\ grid' = IF ~SceneAnimating THEN NoGrid
             ELSE [base |-> IF next = NoDeadline THEN pass.now ELSE grid.base,
                   done |-> now]
  /\ phase' = "idle" /\ pass' = NoPass
  /\ UNCHANGED <<ring, now, fitted, posted, gate, resetPending, active, run, fx, offset,
                 arrived, promise, shown, lag>>

\* kp_rgb_pending_take_dropped, for the log.
ReportDropped == phase = "idle" /\ dropped > 0 /\ TakeDropped /\ UNCHANGED frames

Next == \/ Elapse
        \/ \E ev \in Events : KeyEvent(ev)
        \/ \E late \in 0 .. MaxLag : ClockCommand(late)
        \/ SwitchOutput \/ SwitchGate \/ RequestReset
        \/ \E repaint \in BOOLEAN : StartPass(repaint)
        \/ Deliver \/ Paint \/ Skip \/ FinishFrame
        \/ ReportDropped

Spec == Init /\ [][Next]_vars

-----------------------------------------------------------------------------
(***************************************************************************)
(* Whatever frames there were, late ones, extra ones and none, reactive    *)
(* and heatmap show every LED at the level that its hits and the time      *)
(* since give, to the part of a level: no time is lost or counted twice in *)
(* the slices, no hit that was delivered is lost for want of room in       *)
(* pending, and ripple has a trigger in use for the presses that are       *)
(* younger than the period, no other.                                      *)
(***************************************************************************)
HitsExact ==
  \A e \in fitted.effects : e.kind \in EventKinds =>
    /\ HitKept(e, fx[e], promise[e], run[e].last)
    /\ e.kind \in HitKinds /\ phase # "input" => fx[e].pending = <<>>

(***************************************************************************)
(* The random effects' trials happen at the multiples of their interval of *)
(* the time they were shown, and what a trial lit fades from its own time, *)
(* also when the frame came late and trials were left out.                 *)
(***************************************************************************)
TrialsExact ==
  \A e \in fitted.effects : e.kind \notin EventKinds => TrialKept(e, fx[e], promise[e])

(***************************************************************************)
(* Frames are planned on a grid that starts at the first one of an         *)
(* animation: an extra frame for a key or a repaint, or a slow one, does   *)
(* not shift the later ones, none is planned for a time that is over, and  *)
(* something that evolves always has one planned (rgb_matrix.c:447-459).   *)
(***************************************************************************)
FramesPaced ==
  /\ next # NoDeadline => /\ next > grid.done
                          /\ next <= grid.done + Tick
                          /\ (next - grid.base) % Tick = 0
  /\ phase = "idle" /\ allowed /\ active /\ ~resetPending
       /\ (\E e \in fitted.effects : Evolving(e, fx[e]) /\ shown) => next # NoDeadline

(***************************************************************************)
(* The effects of the shared clock show on this half the phase they show   *)
(* on the central, but for the delay of the last clock command, across the *)
(* wrap of either half's clock (rgb_matrix.h:107-111).                     *)
(***************************************************************************)
HalvesInStep ==
  \A e \in fitted.effects : e.kind = "cycle" => fx[e].phase = promise[e].phase

(***************************************************************************)
(* What that rests on: once a clock command has come, the offset is what   *)
(* the central was ahead when the command was made, whenever that was.     *)
(***************************************************************************)
OffsetHolds ==
  lag # Unsynced => /\ lag \in 0 .. MaxLag
                    /\ offset = (CentralAhead - lag) % ClockWrap
=============================================================================
