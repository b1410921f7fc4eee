------------------------------- MODULE Scene -------------------------------
(***************************************************************************)
(* The scene (src/rgb_matrix.c, kp_rgb_scene_pass_locked), its             *)
(* participants' callback helpers (src/rgb_instance.c) and composition     *)
(* overlays with several effects (src/overlays/overlay.c).                 *)
(*                                                                         *)
(* A pass runs under the matrix mutex, as do the operations of the other   *)
(* threads, so these fall between passes.  A pass is one action per loop   *)
(* over the overlays: overlays do not touch each other's state, so a loop  *)
(* is one simultaneous update of all of them.  What a callback finds and   *)
(* leaves at the participant that receives it is recorded beside the       *)
(* engine's bookkeeping, and compared with what the callbacks are promised *)
(* in include/zmk/rgb_matrix.h.                                            *)
(***************************************************************************)
EXTENDS Composite

CONSTANTS
    NumOverlays, \* in composition order, later ones on top
    Choosing,    \* overlays with a selector; the others have a single effect
    Covering,    \* overlays that replace every pixel at full opacity
    NumSlots     \* effects of each selector

Overlays == 1..NumOverlays
Slots == 1..NumSlots
NoSlot == 0       \* SIZE_MAX as a slot
NoOverlay == 0    \* SIZE_MAX as an overlay

ASSUME OverlaysAssumption == NumOverlays \in Nat /\ NumSlots \in Nat /\ NumSlots > 0
ASSUME KindsAssumption == Choosing \subseteq Overlays /\ Covering \subseteq Overlays

VARIABLES
    scene,     \* an overlay's runtime and the state of its selector
    gate, allowed,
    repaint,   \* KP_RGB_REQUEST_REPAINT is requested
    animating, \* kp_rgb_scene_animating
    \* locals of the pass
    phase, paint, inputChanged,
    strips     \* the pixels of each child of the strip

control == <<gate, allowed>>
vars == <<scene, control, repaint, animating, phase, paint, inputChanged, strips>>

-----------------------------------------------------------------------------
(* A participant: kp_rgb_callback_state, and the history of its callbacks. *)
(* known is what set_active() has told it, "new" before its first reset;   *)
(* owed is a reset it has still to see; running says that its last frame   *)
(* asked for another and that nothing has interrupted its animation since; *)
(* breaches are the promises that were broken.                             *)
Breaches == {"order", "repeated", "inactive", "owed", "clock", "selection"}
Participants ==
    [initialized : BOOLEAN, active : BOOLEAN, animating : BOOLEAN,
     known : {"new", "off", "on"}, owed : BOOLEAN, running : BOOLEAN,
     breaches : SUBSET Breaches]

Unborn == [initialized |-> FALSE, active |-> FALSE, animating |-> FALSE,
           known |-> "new", owed |-> FALSE, running |-> FALSE, breaches |-> {}]

Breach(p, kind, broken) ==
    IF broken THEN [p EXCEPT !.breaches = @ \cup {kind}] ELSE p

(* The callbacks as the participant sees them *)
SeesReset(p) ==
    [p EXCEPT !.known = IF @ = "new" THEN "off" ELSE @, !.owed = FALSE, !.running = FALSE]

SeesActivity(p, on) ==
    LET ordered == Breach(Breach(p, "order", p.known = "new"), "owed", on /\ p.owed)
        told == Breach(ordered, "repeated", (p.known = "on") = on)
    IN [told EXCEPT !.known = IF on THEN "on" ELSE "off", !.running = FALSE]

SeesInput(p) == Breach(Breach(p, "inactive", p.known # "on"), "owed", p.owed)

(* late: this frame is later than the last painted one.  Elapsed time has  *)
(* to be what passed since the frame that asked for this one.              *)
SeesFrame(p, elapsed, late, again) ==
    LET timed == Breach(SeesInput(p), "clock", elapsed # (late /\ p.running))
    IN [timed EXCEPT !.running = again]

(* kp_rgb_callbacks_reset() *)
CallbacksReset(p) == [SeesReset(p) EXCEPT !.initialized = TRUE, !.animating = FALSE]

(* kp_rgb_callbacks_set_active() *)
ActiveAnimatingBug(p) == p.animating
ActiveAnimating(p) == FALSE

CallbacksSetActiveBug(p, on) ==
    LET ready == IF on /\ ~p.initialized THEN CallbacksReset(p) ELSE p
    IN [SeesActivity(ready, on) EXCEPT !.active = on, !.animating = FALSE]
CallbacksSetActive(p, on) ==
    IF p.active = on THEN p
    ELSE LET ready == IF on /\ ~p.initialized THEN CallbacksReset(p) ELSE p
         IN [SeesActivity(ready, on) EXCEPT
                !.active = on, !.animating = ActiveAnimating(ready)]

(* kp_rgb_callbacks_on_event(), kp_rgb_callbacks_render(): nothing reaches *)
(* an inactive participant.                                                *)
CallbacksOnEvent(p) == IF p.active THEN SeesInput(p) ELSE p
CallbacksRender(p, elapsed, late, again) ==
    IF p.active THEN [SeesFrame(p, elapsed, late, again) EXCEPT !.animating = again] ELSE p

-----------------------------------------------------------------------------
(* Selectors: kp_selector_data.  An instance, its pending reset, and the   *)
(* overlay's own participant with its kp_rgb_scene_runtime.                *)
Instances == [part : Participants, pending : BOOLEAN]
Scenes ==
    [part : Participants, wanted : BOOLEAN, resetPending : BOOLEAN,
     active : BOOLEAN, index : Slots, live : Slots \cup {NoSlot},
     resetRequested : BOOLEAN, instances : [Slots -> Instances]]

InitialScene ==
    [part |-> Unborn, wanted |-> FALSE, resetPending |-> FALSE,
     active |-> FALSE, index |-> 1, live |-> NoSlot, resetRequested |-> FALSE,
     instances |-> [s \in Slots |-> [part |-> Unborn, pending |-> FALSE]]]

(* kp_selector_reconcile(), in its three steps *)
Selected(x) == IF x.active THEN x.index ELSE NoSlot

RetireLive(x) ==
    IF x.live = NoSlot \/ x.live = Selected(x) THEN x
    ELSE [x EXCEPT !.instances[x.live].part = CallbacksSetActive(@, FALSE),
                   !.live = NoSlot]

MarkResetsBug(x) == [x EXCEPT !.resetRequested = FALSE, !.instances[x.index].pending =
                                 @ \/ x.resetRequested]
MarkResets(x) ==
    [x EXCEPT !.resetRequested = FALSE,
              !.instances = [s \in Slots |->
                  [part |-> @[s].part, pending |-> @[s].pending \/ x.resetRequested]]]

Enliven(x) ==
    IF Selected(x) = NoSlot THEN x
    ELSE LET s == Selected(x)
             child == x.instances[s]
             ready == IF child.pending THEN CallbacksReset(child.part) ELSE child.part
         IN [x EXCEPT !.live = s,
                      !.instances[s] = [part |-> CallbacksSetActive(ready, TRUE),
                                        pending |-> FALSE]]

Reconcile(x) == Enliven(MarkResets(RetireLive(x)))

(* The callbacks of a composition overlay: with one effect they are passed *)
(* on, and the overlay is that effect's participant.                       *)
ResetOwner(o, x) ==
    IF o \in Choosing THEN Reconcile([x EXCEPT !.resetRequested = TRUE]) ELSE x

ResetOverlay(o, x) == [ResetOwner(o, x) EXCEPT !.part = CallbacksReset(@)]

ActivateOverlay(o, x, on) ==
    LET owner == IF o \in Choosing /\ x.part.active # on
                 THEN Reconcile([x EXCEPT !.active = on]) ELSE x
    IN [owner EXCEPT !.part = CallbacksSetActive(@, on)]

(* A participant the user should not see records a breach of selection.    *)
SeesAsLive(x, p) == Breach(p, "selection", x.live # x.index)

ReconcileForEventBug(x) == x
ReconcileForEvent(x) == Reconcile(x)

InputToOverlay(o, x) ==
    IF ~x.part.active THEN x
    ELSE IF o \notin Choosing THEN [x EXCEPT !.part = CallbacksOnEvent(@)]
    ELSE LET y == ReconcileForEvent(x)
         IN [y EXCEPT !.part = CallbacksOnEvent(@),
                      !.instances[y.live].part = SeesAsLive(y, CallbacksOnEvent(@))]

(* Without elapsed time at the owner its effect starts afresh too:         *)
(* kp_rgb_effect_instance_restart_clock().                                 *)
RestartClock(p, elapsed) == [p EXCEPT !.animating = @ /\ elapsed]

RenderOverlay(o, x, late, again) ==
    LET elapsed == x.part.animating /\ late
        rendered == [x EXCEPT !.part = CallbacksRender(@, elapsed, late, again)]
        y == Reconcile(rendered)
        child == RestartClock(y.instances[y.live].part, elapsed)
    IN IF ~x.part.active THEN x
       ELSE IF o \notin Choosing THEN rendered
       ELSE [y EXCEPT !.instances[y.live].part =
                SeesAsLive(y, CallbacksRender(child, child.animating /\ late, late, again))]

-----------------------------------------------------------------------------
(* What a frame is composed of: the effect in each overlay that shows; and *)
(* the pixels of a frame.                                                  *)
EffectOf(o, x) == IF o \in Choosing THEN x.live ELSE 1
Pictures == [Overlays -> Slots \cup {NoSlot}]
Nothing == [o \in Overlays |-> NoSlot]
PixelsOf(picture) == [k \in 1..CompositeLength |-> [picture |-> picture, led |-> k]]

EngineTypes ==
    /\ scene \in [Overlays -> Scenes]
    /\ gate \in [Overlays -> BOOLEAN] /\ allowed \in BOOLEAN
    /\ repaint \in BOOLEAN /\ animating \in BOOLEAN
    /\ phase \in {"idle", "deactivate", "reset", "activate", "input"}
    /\ paint \in BOOLEAN /\ inputChanged \in BOOLEAN
TypeOK ==
    /\ EngineTypes
    /\ strips \in [Children -> Seq([picture : Pictures, led : 1..CompositeLength])]

Init ==
    /\ scene = [o \in Overlays |-> InitialScene]
    /\ gate = [o \in Overlays |-> FALSE] /\ allowed = FALSE
    /\ repaint = FALSE /\ animating = FALSE
    /\ phase = "idle" /\ paint = FALSE /\ inputChanged = FALSE
    /\ strips = [c \in Children |-> Unspecified]

-----------------------------------------------------------------------------
(* Operations between passes, each under the mutex.                        *)
Operation ==
    /\ phase = "idle"
    /\ repaint' = TRUE
    /\ UNCHANGED <<phase, paint, inputChanged, strips>>

(* kp_rgb_overlay_set_word() and kp_rgb_overlay_refresh() *)
SetGate(o) ==
    /\ Operation
    /\ gate' = [gate EXCEPT ![o] = ~@]
    /\ UNCHANGED <<scene, allowed, animating>>

(* kp_rgb_selector_overlay_select_locked() *)
SelectSlot(o, s) ==
    /\ Operation
    /\ scene[o].index # s
    /\ scene' = [scene EXCEPT ![o].index = s]
    /\ UNCHANGED <<control, animating>>

(* Every effect of a selector owes its user a reset, shown or not.         *)
Owing(x) ==
    [x EXCEPT !.instances = [s \in Slots |-> [@[s] EXCEPT !.part.owed = TRUE]]]
AllOwing(o, x) ==
    IF o \in Choosing THEN [Owing(x) EXCEPT !.part.owed = TRUE]
    ELSE [x EXCEPT !.part.owed = TRUE]

(* kp_rgb_selector_overlay_reset_locked() *)
ResetSelector(o) ==
    /\ Operation
    /\ \E s \in Slots : scene' = [scene EXCEPT
           ![o] = [Owing(@) EXCEPT !.index = s, !.resetRequested = TRUE]]
    /\ UNCHANGED <<control, animating>>

(* kp_rgb_request_runtime_reset_locked() *)
RuntimeReset ==
    [o \in Overlays |-> [AllOwing(o, scene[o]) EXCEPT !.resetPending = TRUE]]

(* kp_rgb_reset_state() resets every selector as well. *)
ResetState ==
    /\ Operation
    /\ \E initial \in [Choosing -> Slots] :
           scene' = [o \in Overlays |->
               IF o \in Choosing
               THEN [RuntimeReset[o] EXCEPT !.index = initial[o], !.resetRequested = TRUE]
               ELSE RuntimeReset[o]]
    /\ UNCHANGED <<control, animating>>

(* kp_rgb_reconcile_power_locked(), when it changes the permission *)
ResumedScene == RuntimeReset
ResumedSceneBug == [o \in Overlays |-> AllOwing(o, scene[o])]
SwitchOutput ==
    /\ Operation
    /\ allowed' = ~allowed
    /\ IF allowed THEN /\ animating' = FALSE
                       /\ UNCHANGED scene
       ELSE /\ scene' = ResumedScene
            /\ UNCHANGED animating
    /\ UNCHANGED gate

-----------------------------------------------------------------------------
(* kp_rgb_scene_pass_locked() *)

(* kp_last_covering_overlay() *)
LastCoveringBug ==
    LET covers == {o \in Covering : gate[o]}
    IN IF covers = {} THEN NoOverlay ELSE CHOOSE o \in covers : \A c \in covers : o <= c
LastCovering ==
    LET covers == {o \in Covering : gate[o]}
    IN IF covers = {} THEN NoOverlay ELSE CHOOSE o \in covers : \A c \in covers : c <= o
First == IF allowed THEN LastCovering ELSE NoOverlay

WantedBug(o) == allowed /\ gate[o]
Wanted(o) == allowed /\ o >= First /\ gate[o]

(* A repaint is wanted, or the next frame of an animation is due. *)
StartPass ==
    /\ phase = "idle"
    /\ phase' = "deactivate"
    /\ \E due \in BOOLEAN : /\ due => animating
                            /\ paint' = (repaint \/ due)
    /\ repaint' = FALSE
    /\ inputChanged' = FALSE
    /\ scene' = [o \in Overlays |-> [scene[o] EXCEPT !.wanted = Wanted(o)]]
    /\ UNCHANGED <<control, animating, strips>>

InPass(from, to) ==
    /\ phase = from
    /\ phase' = to
    /\ UNCHANGED <<control, repaint, animating, paint, inputChanged, strips>>

Deactivate ==
    /\ InPass("deactivate", "reset")
    /\ scene' = [o \in Overlays |->
           IF scene[o].wanted THEN scene[o] ELSE ActivateOverlay(o, scene[o], FALSE)]

NeedsResetBug(x) == ~x.part.initialized /\ x.wanted
NeedsReset(x) == x.resetPending \/ (~x.part.initialized /\ x.wanted)

Reset ==
    /\ InPass("reset", "activate")
    /\ scene' = [o \in Overlays |->
           IF NeedsReset(scene[o])
           THEN [ResetOverlay(o, scene[o]) EXCEPT !.resetPending = FALSE] ELSE scene[o]]

Activate ==
    /\ InPass("activate", "input")
    /\ scene' = [o \in Overlays |->
           IF scene[o].wanted THEN ActivateOverlay(o, scene[o], TRUE) ELSE scene[o]]

(* kp_rgb_deliver_position(): some of the participants ask for a repaint.  *)
(* Input is only kept while output is allowed.                             *)
InputChanged(asked) == inputChanged \/ asked # {}

DeliverInput ==
    /\ phase = "input" /\ allowed
    /\ scene' = [o \in Overlays |->
           IF gate[o] THEN InputToOverlay(o, scene[o]) ELSE scene[o]]
    /\ \E asked \in SUBSET {o \in Overlays : gate[o] /\ scene[o].part.active} :
           inputChanged' = InputChanged(asked)
    /\ UNCHANGED <<control, repaint, animating, phase, paint, strips>>

(* The frame is composed and submitted; or nothing is painted. *)
Rendered == {o \in Overlays : o >= First /\ gate[o]}

Composed(rendered) ==
    [o \in Overlays |->
        IF o \in Rendered /\ rendered[o].part.active THEN EffectOf(o, rendered[o])
        ELSE NoSlot]

SceneAnimating(again) == \E o \in Rendered : again[o]

Paint ==
    /\ phase = "input" /\ allowed /\ (paint \/ inputChanged)
    /\ \E late \in BOOLEAN, again \in [Rendered -> BOOLEAN] :
           /\ scene' = [o \in Overlays |->
                  IF o \in Rendered THEN RenderOverlay(o, scene[o], late, again[o])
                  ELSE scene[o]]
           /\ animating' = SceneAnimating(again)
    /\ \E failing \in SUBSET Children :
           strips' = CompositeUpdate(PixelsOf(Composed(scene')), failing)
    /\ phase' = "idle"
    /\ UNCHANGED <<control, repaint, paint, inputChanged>>

LeaveUnpainted ==
    /\ phase = "input" /\ ~(allowed /\ (paint \/ inputChanged))
    /\ phase' = "idle"
    /\ UNCHANGED <<scene, control, repaint, animating, paint, inputChanged, strips>>

ClientNext ==
    \/ \E o \in Overlays : SetGate(o)
    \/ \E o \in Choosing : ResetSelector(o) \/ \E s \in Slots : SelectSlot(o, s)
    \/ ResetState
    \/ SwitchOutput
PassNext == \/ StartPass \/ Deactivate \/ Reset \/ Activate
            \/ DeliverInput \/ Paint \/ LeaveUnpainted
Next == ClientNext \/ PassNext

Spec == Init /\ [][Next]_vars

-----------------------------------------------------------------------------
(* Properties *)

Everyone == {scene[o].part : o \in Overlays}
              \cup {scene[o].instances[s].part : o \in Overlays, s \in Slots}

(* Every participant is reset before anything else, hears of each change   *)
(* of its activity once, and gets input and frames only while active: "set *)
(* active runs only on sampled activity changes", "reset runs before first *)
(* activation", through any sequence of gates, selections and resets.      *)
CallbacksOrdered ==
    \A p \in Everyone : p.breaches \cap {"order", "repeated", "inactive"} = {}

(* A reset (of a selector, of everything, or on resuming output) reaches   *)
(* every effect before it is next activated, gets input or draws, however  *)
(* long it was hidden or unselected and whatever else was asked meanwhile. *)
ResetsReach == \A p \in Everyone : "owed" \notin p.breaches

(* A frame's elapsed time is that since the frame which asked for it; an   *)
(* activation, a reset or a settled frame in between makes it zero.        *)
TimeKept == \A p \in Everyone : "clock" \notin p.breaches

(* Input and frames go to the effect that is selected when they do, though *)
(* the change of effect is only carried out then.                          *)
SelectionFollowed == \A p \in Everyone : "selection" \notin p.breaches

(* What should be seen: each gated overlay that no covering overlay above  *)
(* it hides, with its selected effect.                                     *)
Visible(o) == allowed /\ gate[o] /\ \A c \in Covering : gate[c] => c <= o
Composition ==
    [o \in Overlays |-> IF ~Visible(o) THEN NoSlot
                        ELSE IF o \in Choosing THEN scene[o].index ELSE 1]

(* When nothing is left to repaint, each child of the strip whose last     *)
(* update did not fail shows its own part of what should be seen, whatever *)
(* passes for input or animations came in between, and whichever other     *)
(* children failed.                                                        *)
PictureShown ==
    \A c \in Children :
       \/ strips[c] = Unspecified
       \/ strips[c] = [k \in 1..ChildLengths[c] |->
                         [picture |-> Composition, led |-> LengthUpTo[c - 1] + k]]
PictureCurrent == phase = "idle" /\ allowed /\ ~repaint => PictureShown

(* "Fully occluded participants are inactive: they receive no input and    *)
(* cannot sustain animation": when input is delivered, and in what remains *)
(* of the pass, exactly those that show are active; and the next frame is  *)
(* planned exactly when one of them asked for it.                          *)
OccludedInactive == phase = "input" => \A o \in Overlays : scene[o].part.active = Visible(o)
AnimationSustained ==
    phase = "idle" /\ allowed /\ ~repaint
        => animating = (\E o \in Overlays : Visible(o) /\ scene[o].part.running)
OnlyVisibleServed == OccludedInactive /\ AnimationSustained

(* Why these hold.  The engine's bookkeeping agrees with what its          *)
(* participant has seen, and no promise is broken.                         *)
Sound(p) ==
    /\ p.active = (p.known = "on") /\ p.initialized = (p.known # "new")
    /\ p.animating = p.running /\ (p.running => p.active)
    /\ p.breaches = {}

(* A selector's live instance is its only active one and it has one only   *)
(* under an active owner, whose clock runs with its instance's; a reset an *)
(* instance owes is pending somewhere.                                     *)
Coherent(x) ==
    /\ x.active = x.part.active /\ x.active = (x.live # NoSlot)
    /\ \A s \in Slots :
          /\ x.instances[s].part.active = (x.live = s)
          /\ x.instances[s].part.running => x.part.running
          /\ x.instances[s].part.owed =>
                x.resetPending \/ x.resetRequested \/ x.instances[s].pending
Living(o, x) ==
    /\ Sound(x.part) /\ (x.part.owed => x.resetPending)
    /\ \A s \in Slots : Sound(x.instances[s].part)
    /\ o \in Choosing => Coherent(x)

(* A pass carries out what it sampled, one loop after the other.           *)
PassInv ==
    /\ phase # "idle" => ~repaint /\ \A o \in Overlays : scene[o].wanted = Wanted(o)
    /\ phase \in {"reset", "activate"} =>
          \A o \in Overlays : scene[o].part.active => scene[o].wanted
    /\ phase \in {"activate", "input"} => \A o \in Overlays : ~scene[o].resetPending
    /\ phase = "input" => \A o \in Overlays : scene[o].part.active = scene[o].wanted

(* While no repaint is wanted, the overlays that show stay as they are and *)
(* the next frame is planned for them.                                     *)
SettledInv ==
    allowed /\ ~repaint /\ (phase = "idle" \/ ~paint) =>
        /\ \A o \in Overlays : scene[o].part.active = Visible(o) /\ ~scene[o].resetPending
        /\ animating = (\E o \in Overlays : Visible(o) /\ scene[o].part.running)

PictureInv == allowed /\ ~repaint /\ (phase = "idle" \/ ~paint) => PictureShown

SceneInv == (\A o \in Overlays : Living(o, scene[o])) /\ PassInv /\ SettledInv

=============================================================================
