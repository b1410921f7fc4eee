---------------------------- MODULE Coordinator ----------------------------
(***************************************************************************)
(* The RGB coordinator (src/rgb_matrix.c, src/rgb_conditions.c): one       *)
(* delayable work item on the RGB work queue evaluates conditions, renders *)
(* the scene and drives the strip, while any other thread may change the   *)
(* state it works from and ask it to run.                                  *)
(*                                                                         *)
(* Two locks are modelled.  The scheduling spinlock (and the ring's) are   *)
(* held for a single step of this specification.  The matrix mutex spans   *)
(* steps: a client holds it while it is in  holding , the worker while its *)
(* control point is "scene" or "finish".                                   *)
(*                                                                         *)
(* Control epochs are compared for equality only and never decrease, so    *)
(* the two comparisons the code makes are kept instead of the counters:    *)
(* evaluatedCurrent is kp_rgb_evaluated_epoch = kp_rgb_control_epoch, and  *)
(* snapshotCurrent is the handler's local epoch = kp_rgb_control_epoch.    *)
(* Time is kept as far as the code compares it: a frame is not scheduled,  *)
(* waiting or due.                                                         *)
(***************************************************************************)
EXTENDS Naturals, FiniteSets

CONSTANTS
    Clients,      \* threads other than the RGB work queue's
    Levels,       \* renderer parameters: brightness, colours, battery charge
    InitialLevel, \* kp_rgb_config.initial_brightness
    InitialOn,    \* kp_rgb_config.initial_on
    QueueLen,     \* KP_RGB_EVENT_QUEUE_LEN
    HasLeds,      \* KP_LED_COUNT > 0
    IdleCap,      \* idle_brightness, at most a non-zero max_brightness ("full")
    StripFaults,  \* may led_strip_update_rgb() return an error?
    Ops           \* the operations the clients use

ASSUME LevelsAssumption == InitialLevel \in Levels
ASSUME InitialOnAssumption == InitialOn \in BOOLEAN
ASSUME QueueLenAssumption == QueueLen \in Nat /\ QueueLen >= 2
ASSUME HasLedsAssumption == HasLeds \in BOOLEAN
ASSUME StripFaultsAssumption == StripFaults \in BOOLEAN
ASSUME IdleCapAssumption == IdleCap \in {"zero", "low", "full"}

VARIABLES
    \* guarded by the scheduling spinlock
    reasons, enabled, evaluated, evaluatedCurrent, snapshotCurrent,
    \* the delayable work item: submitted to its queue, delay running
    queued, timer,
    \* the handler's control point and locals
    wpc, sample, paint, changed, left, more,
    \* the other threads: pending coordinator request, mutex, raised event
    call, holding, announce,
    \* guarded by the matrix mutex
    userOn, level, activity, inhibited, ready, black, frame, gate, strip,
    \* guarded by the ring's spinlock (allowed also by the mutex)
    allowed, ring,
    \* owned by the rest of the firmware
    zmkActivity, source

schedVars  == <<reasons, enabled, evaluated, evaluatedCurrent, snapshotCurrent>>
workVars   == <<queued, timer>>
localVars  == <<wpc, sample, paint, changed, left, more>>
clientVars == <<call, holding, announce>>
intentVars == <<userOn, activity, inhibited, ready>>
powerVars  == <<allowed, ring, frame, black>>
worldVars  == <<zmkActivity, source>>
vars == <<schedVars, workVars, localVars, clientVars, intentVars, powerVars,
          level, gate, strip, worldVars>>

Reason == {"control", "repaint", "input", "output"}
Activity == {"active", "idle", "sleep"}
Cap(a) == IF a = "active" THEN "full" ELSE IdleCap

(* What the strip shows: never written, all off, or a composed scene. *)
Unknown == [kind |-> "unknown"]
Dark    == [kind |-> "dark"]
Scene(g, l, c) == [kind |-> "scene", gate |-> g, level |-> l, cap |-> c]
Looks == {Unknown, Dark} \cup
         {Scene(g, l, c) : g \in BOOLEAN, l \in Levels, c \in {"zero", "low", "full"}}
CurrentLook == Scene(gate, level, Cap(activity))

TypeOK ==
    /\ reasons \subseteq Reason
    /\ enabled \in BOOLEAN /\ evaluated \in BOOLEAN
    /\ evaluatedCurrent \in BOOLEAN /\ snapshotCurrent \in BOOLEAN
    /\ queued \in BOOLEAN /\ timer \in BOOLEAN
    /\ wpc \in {"idle", "start", "sample", "refresh", "publish", "admit",
                "scene", "finish"}
    /\ sample \in BOOLEAN /\ paint \in BOOLEAN /\ changed \in BOOLEAN
    /\ left \in 0..QueueLen /\ more \in BOOLEAN
    /\ call \in [Clients -> SUBSET (Reason \cup {"start"})]
    /\ holding \subseteq Clients /\ announce \subseteq Clients
    /\ userOn \in BOOLEAN /\ level \in Levels /\ activity \in Activity
    /\ inhibited \in BOOLEAN /\ ready \in BOOLEAN /\ black \in BOOLEAN
    /\ frame \in {"none", "waiting", "due"}
    /\ gate \in BOOLEAN /\ strip \in Looks
    /\ allowed \in BOOLEAN /\ ring \in 0..(QueueLen - 1)
    /\ zmkActivity \in Activity /\ source \in BOOLEAN

(* kp_rgb_coordinator_active *)
Active == wpc \notin {"idle", "start"}
WorkerHoldsLock == wpc \in {"scene", "finish"}
LockFree == holding = {} /\ ~WorkerHoldsLock
(* A thread that is not in the middle of an operation. *)
Ready(c) == call[c] = {} /\ c \notin announce

Fresh == /\ enabled /\ evaluated /\ evaluatedCurrent
         /\ "control" \notin reasons

(* Definitions named ...Bug are plausible mistakes in the definition that  *)
(* follows them; the project substitutes them to see a property fail.      *)
RunnableBug == \/ enabled /\ "control" \in reasons
               \/ Fresh /\ "repaint" \in reasons
               \/ "output" \in reasons

Runnable == \/ enabled /\ "control" \in reasons
            \/ Fresh /\ reasons \cap {"repaint", "input"} # {}
            \/ "output" \in reasons

-----------------------------------------------------------------------------
(* Boot: statically initialised state, the matrix not yet initialised.     *)
Init ==
    /\ reasons = {} /\ enabled = FALSE /\ evaluated = FALSE
    /\ evaluatedCurrent = TRUE /\ snapshotCurrent = FALSE
    /\ queued = FALSE /\ timer = FALSE
    /\ wpc = "idle" /\ sample = FALSE /\ paint = FALSE /\ changed = FALSE
    /\ left = 0 /\ more = FALSE
    /\ call = [c \in Clients |-> {}] /\ holding = {} /\ announce = {}
    /\ userOn = InitialOn /\ level = InitialLevel /\ activity = "active"
    /\ inhibited = FALSE /\ ready = FALSE /\ black = FALSE
    /\ frame = "none" /\ gate = FALSE /\ strip = Unknown
    /\ allowed = FALSE /\ ring = 0
    /\ zmkActivity = "active" /\ source \in BOOLEAN

-----------------------------------------------------------------------------
(* Requests.  A locked operation makes all its requests before it releases *)
(* the mutex, and nothing that could consume REPAINT, INPUT or OUTPUT runs *)
(* in between, so they are made together; "start" in r stands for          *)
(* kp_rgb_coordinator_start().                                             *)
StartReasonsBug == {"repaint"}
StartReasons == {"control", "repaint"}

Request(r) ==
    LET starting == "start" \in r /\ ~enabled
        added == (r \ {"start"}) \cup (IF starting THEN StartReasons ELSE {})
    IN /\ reasons' = reasons \cup added
       /\ enabled' = (enabled \/ starting)
       /\ evaluatedCurrent' = (evaluatedCurrent /\ "control" \notin added)
       /\ snapshotCurrent' = (snapshotCurrent /\ "control" \notin added)
       /\ UNCHANGED evaluated
       /\ queued' = (queued \/ (~Active /\ Runnable'))
       /\ timer' = (timer /\ ~(~Active /\ Runnable'))

(* The second half of a client's operation: its request, then unlock. *)
MakeRequest(c) ==
    /\ call[c] # {}
    /\ Request(call[c])
    /\ call' = [call EXCEPT ![c] = {}]
    /\ holding' = holding \ {c}
    /\ UNCHANGED <<localVars, announce, intentVars, powerVars, level, gate,
                   strip, worldVars>>

(* An operation ends its first half holding the mutex iff it has to make a *)
(* request before it unlocks.                                              *)
LockedCall(c, r) ==
    /\ call' = [call EXCEPT ![c] = r]
    /\ holding' = IF r = {} THEN holding ELSE holding \cup {c}

-----------------------------------------------------------------------------
(* Output permission *)
LogicalOn == /\ userOn
             /\ activity = "active" \/ (activity = "idle" /\ IdleCap # "zero")
ShouldAllow == ready /\ HasLeds /\ LogicalOn /\ ~inhibited

(* led_strip_update_rgb(): an error leaves unspecified pixels. *)
Submit(look) ==
    strip' \in {look} \cup (IF StripFaults THEN {Unknown} ELSE {})

PowerReasons == IF ShouldAllow' = allowed THEN {}
                ELSE IF ShouldAllow' THEN {"control", "repaint"}
                ELSE {"output", "repaint"}

BlackAfterBug == ShouldAllow' = allowed /\ black
BlackAfter == IF ShouldAllow' = allowed THEN black
              ELSE ~ShouldAllow' /\ ready' /\ HasLeds

(* kp_rgb_reconcile_power_locked() except black_pending and the request;   *)
(* purging the ring and switching admission are one critical section.      *)
SwitchOutput ==
    IF ShouldAllow' = allowed
    THEN UNCHANGED <<allowed, ring, frame>>
    ELSE allowed' = ShouldAllow' /\ ring' = 0 /\ frame' = "none"

ReconcilePower ==
    /\ SwitchOutput
    /\ black' = BlackAfter

-----------------------------------------------------------------------------
(* Operations of the other threads, up to their request. *)

(* kp_rgb_matrix_init(): fails for good when the strip is not ready. *)
MatrixInit(c) ==
    /\ Ready(c) /\ LockFree /\ ~ready
    /\ ready' = TRUE
    /\ activity' = zmkActivity
    /\ UNCHANGED <<userOn, inhibited>>
    /\ ReconcilePower
    /\ IF HasLeds THEN Submit(Dark) ELSE UNCHANGED strip
    /\ LockedCall(c, PowerReasons)
    /\ UNCHANGED <<schedVars, workVars, localVars, announce, level, gate, worldVars>>

(* kp_rgb_control_commit(): every commit restores staged settings (intent, *)
(* brightness, selections), if any, and flushes; the first one starts the  *)
(* coordinator.                                                            *)
Commit(c, on, l) ==
    /\ "commit" \in Ops /\ Ready(c) /\ LockFree
    /\ userOn' = on /\ level' = l
    /\ source' \in BOOLEAN
    /\ UNCHANGED <<activity, inhibited, ready>>
    /\ ReconcilePower
    /\ LockedCall(c, PowerReasons \cup {"repaint"} \cup
                     (IF source' # source THEN {"control"} ELSE {}) \cup
                     (IF enabled THEN {} ELSE {"start"}))
    /\ UNCHANGED <<schedVars, workVars, localVars, announce, gate, strip, zmkActivity>>

(* zmk_rgb_matrix_on/off/toggle() *)
SetUserOn(c, on) ==
    /\ "user" \in Ops /\ Ready(c) /\ LockFree
    /\ userOn' = on
    /\ UNCHANGED <<activity, inhibited, ready>>
    /\ ReconcilePower
    /\ LockedCall(c, PowerReasons)
    /\ UNCHANGED <<schedVars, workVars, localVars, announce, level, gate, strip, worldVars>>

(* zmk_rgb_matrix_set_inhibited() *)
SetInhibited(c, on) ==
    /\ "inhibit" \in Ops /\ Ready(c) /\ LockFree
    /\ inhibited # on
    /\ inhibited' = on
    /\ UNCHANGED <<userOn, activity, ready>>
    /\ ReconcilePower
    /\ LockedCall(c, PowerReasons)
    /\ UNCHANGED <<schedVars, workVars, localVars, announce, level, gate, strip, worldVars>>

(* A changed brightness, colour or period: stored and flushed under lock. *)
SetLevel(c, l) ==
    /\ "level" \in Ops /\ Ready(c) /\ LockFree
    /\ level # l
    /\ level' = l
    /\ LockedCall(c, {"repaint"})
    /\ UNCHANGED <<schedVars, workVars, localVars, announce, intentVars, powerVars,
                   gate, strip, worldVars>>

(* The battery overlay's input: changed elsewhere, then flushed unlocked. *)
ChangeCharge(c, l) ==
    /\ "charge" \in Ops /\ Ready(c)
    /\ level # l
    /\ level' = l
    /\ call' = [call EXCEPT ![c] = {"repaint"}]
    /\ UNCHANGED <<schedVars, workVars, localVars, holding, announce, intentVars,
                   powerVars, gate, strip, worldVars>>

(* A condition provider's state (a layer, caps lock, a latch, a battery):  *)
(* changed by its owner, then invalidated by the listener, unlocked.       *)
ChangeSource(c) ==
    /\ "source" \in Ops /\ Ready(c)
    /\ source' = ~source
    /\ call' = [call EXCEPT ![c] = {"control"}]
    /\ UNCHANGED <<schedVars, workVars, localVars, holding, announce, intentVars,
                   powerVars, level, gate, strip, zmkActivity>>

(* Selecting another effect changes what is painted and what an            *)
(* effect-selected condition samples, under the mutex.                     *)
SelectEffect(c, l) ==
    /\ "select" \in Ops /\ Ready(c) /\ LockFree /\ enabled
    /\ level # l
    /\ level' = l
    /\ source' = ~source
    /\ LockedCall(c, {"control", "repaint"})
    /\ UNCHANGED <<schedVars, workVars, localVars, announce, intentVars, powerVars,
                   gate, strip, zmkActivity>>

(* kp_rgb_reset_state(): global and selector defaults, runtime reset. *)
ResetState(c) ==
    /\ "reset" \in Ops /\ Ready(c) /\ LockFree
    /\ userOn' = InitialOn /\ level' = InitialLevel
    /\ UNCHANGED <<activity, inhibited, ready>>
    /\ ReconcilePower
    /\ \/ UNCHANGED source /\ LockedCall(c, PowerReasons \cup {"repaint"})
       \/ /\ enabled /\ source' = ~source
          /\ LockedCall(c, PowerReasons \cup {"control", "repaint"})
    /\ UNCHANGED <<schedVars, workVars, localVars, announce, gate, strip, zmkActivity>>

(* kp_rgb_matrix_event_listener(), a key event: kp_rgb_pending_push()      *)
(* refuses it while output is blocked and drops it when the ring is full.  *)
Room == ring < QueueLen - 1

KeyEvent(c) ==
    /\ "key" \in Ops /\ Ready(c)
    /\ allowed /\ Room
    /\ ring' = ring + 1
    /\ call' = [call EXCEPT ![c] = {"input"}]
    /\ UNCHANGED <<schedVars, workVars, localVars, holding, announce, intentVars,
                   allowed, frame, black, level, gate, strip, worldVars>>

(* ZMK changes its activity state, then raises the event in that thread. *)
ZmkActivity(c, a) ==
    /\ "activity" \in Ops /\ Ready(c)
    /\ zmkActivity # a
    /\ zmkActivity' = a
    /\ announce' = announce \cup {c}
    /\ UNCHANGED <<schedVars, workVars, localVars, call, holding, intentVars,
                   powerVars, level, gate, strip, source>>

(* kp_rgb_matrix_event_listener(), an activity event: it adopts the state  *)
(* ZMK is in by now, not the event's, and on SLEEP blackens synchronously. *)
SleepBlackBug == activity' # activity /\ activity' = "sleep" /\ allowed
SleepBlack == activity' # activity /\ activity' = "sleep" /\ ready /\ HasLeds

ActivityListener(c) ==
    /\ c \in announce /\ LockFree
    /\ announce' = announce \ {c}
    /\ activity' = zmkActivity
    /\ UNCHANGED <<userOn, inhibited, ready>>
    /\ SwitchOutput
    /\ IF SleepBlack
       THEN black' = FALSE /\ Submit(Dark)
       ELSE black' = BlackAfter /\ UNCHANGED strip
    /\ LockedCall(c, PowerReasons \cup
          (IF allowed' /\ Cap(activity) # Cap(activity') THEN {"repaint"} ELSE {}))
    /\ UNCHANGED <<schedVars, workVars, localVars, level, gate, worldVars>>

-----------------------------------------------------------------------------
(* The work queue (Zephyr, external). *)
TakeWork ==
    /\ wpc = "idle" /\ queued
    /\ queued' = FALSE
    /\ wpc' = "start"
    /\ UNCHANGED <<schedVars, timer, sample, paint, changed, left, more, clientVars,
                   intentVars, powerVars, level, gate, strip, worldVars>>

(* The delay runs out.  It may have been armed for an earlier frame than   *)
(* the one planned now, so the present frame need not be due.              *)
TimerExpires ==
    /\ timer
    /\ timer' = FALSE
    /\ queued' = TRUE
    /\ UNCHANGED <<schedVars, localVars, clientVars, intentVars, powerVars, level,
                   gate, strip, worldVars>>

(* The clock reaches kp_rgb_next_frame_ms. *)
FrameComesDue ==
    /\ frame = "waiting"
    /\ frame' = "due"
    /\ UNCHANGED <<schedVars, workVars, localVars, clientVars, intentVars, allowed,
                   ring, black, level, gate, strip, worldVars>>

-----------------------------------------------------------------------------
(* kp_rgb_coordinator_handler(), one action per critical section. *)
StartPass ==
    /\ wpc = "start"
    /\ IF enabled /\ "control" \in reasons
       THEN /\ reasons' = reasons \ {"control"}
            /\ snapshotCurrent' = TRUE
            /\ wpc' = "sample"
       ELSE /\ UNCHANGED <<reasons, snapshotCurrent>>
            /\ wpc' = "admit"
    /\ UNCHANGED <<enabled, evaluated, evaluatedCurrent, workVars, sample, paint,
                   changed, left, more, clientVars, intentVars, powerVars, level, gate,
                   strip, worldVars>>

(* evaluate(): the provider is sampled without any lock. *)
SampleCondition ==
    /\ wpc = "sample"
    /\ sample' = source
    /\ wpc' = "refresh"
    /\ UNCHANGED <<schedVars, workVars, paint, changed, left, more, clientVars,
                   intentVars, powerVars, level, gate, strip, worldVars>>

(* kp_rgb_overlay_refresh(), and the flush of a changed gate.  Trigger     *)
(* actions run next, on this thread and unlocked: they take the same path  *)
(* as a client's operations, which may be interleaved here.                *)
RefreshGates ==
    /\ wpc = "refresh" /\ LockFree
    /\ gate' = sample
    /\ reasons' = reasons \cup (IF gate # sample THEN {"repaint"} ELSE {})
    /\ sample' = FALSE
    /\ wpc' = "publish"
    /\ UNCHANGED <<enabled, evaluated, evaluatedCurrent, snapshotCurrent, workVars,
                   paint, changed, left, more, clientVars, intentVars, powerVars, level,
                   strip, worldVars>>

(* The pass counts as evaluated only if nothing was invalidated meanwhile. *)
UndisturbedBug == TRUE
Undisturbed == snapshotCurrent /\ "control" \notin reasons

PublishEvaluation ==
    /\ wpc = "publish"
    /\ IF Undisturbed
       THEN evaluatedCurrent' = TRUE /\ evaluated' = TRUE
       ELSE UNCHANGED <<evaluatedCurrent, evaluated>>
    /\ snapshotCurrent' = FALSE
    /\ wpc' = "admit"
    /\ UNCHANGED <<reasons, enabled, workVars, sample, paint, changed, left, more,
                   clientVars, intentVars, powerVars, level, gate, strip, worldVars>>

ServedBug == {"output", "repaint", "input"}
Served == {"output"} \cup (IF Fresh THEN {"repaint", "input"} ELSE {})

(* kp_rgb_attempt_black_locked(), whether control is fresh or not. *)
DeliverBlackBug == black /\ Fresh
DeliverBlack == black

(* Takes the mutex, consumes the requests it is going to serve, delivers a *)
(* pending blackout and admits the scene if control is fresh.              *)
AdmitScene ==
    /\ wpc = "admit" /\ LockFree
    /\ reasons' = reasons \ Served
    /\ black' = (black /\ ~DeliverBlack)
    /\ IF DeliverBlack THEN Submit(Dark) ELSE UNCHANGED strip
    /\ IF Fresh
       THEN /\ wpc' = "scene"
            /\ paint' = ("repaint" \in reasons \/ frame = "due")
            /\ left' = QueueLen
            /\ UNCHANGED more
       ELSE /\ wpc' = "finish"
            /\ more' = (allowed /\ ring > 0)
            /\ UNCHANGED <<paint, left>>
    /\ UNCHANGED <<enabled, evaluated, evaluatedCurrent, snapshotCurrent, workVars,
                   sample, changed, clientVars, intentVars, allowed, ring, frame, level,
                   gate, worldVars>>

(* kp_rgb_deliver_position(): an active overlay may ask for a repaint. *)
DeliverInput ==
    /\ wpc = "scene" /\ left > 0 /\ ring > 0
    /\ ring' = ring - 1
    /\ left' = left - 1
    /\ changed' \in {changed, TRUE}
    /\ UNCHANGED <<schedVars, workVars, wpc, sample, paint, more, clientVars,
                   intentVars, allowed, frame, black, level, gate, strip, worldVars>>

(* Paints if asked to, submits, and plans the next animation frame. *)
PaintScene ==
    /\ wpc = "scene" /\ (left = 0 \/ ring = 0)
    /\ IF allowed /\ (paint \/ changed)
       THEN /\ Submit(CurrentLook)
            /\ frame' \in {"none", "waiting"}
       ELSE UNCHANGED <<strip, frame>>
    /\ more' = (allowed /\ ring > 0)
    /\ paint' = FALSE /\ changed' = FALSE /\ left' = 0
    /\ wpc' = "finish"
    /\ UNCHANGED <<schedVars, workVars, sample, clientVars, intentVars, allowed, ring,
                   black, level, gate, worldVars>>

(* kp_rgb_finish_pass(): requests made meanwhile did not schedule, so the  *)
(* pass reschedules itself for them, else for input, else for the frame.   *)
RunAgainBug == Fresh /\ allowed /\ (more \/ frame = "due")
RunAgainFrameBug == Runnable \/ (Fresh /\ allowed /\ more)
RunAgain == Runnable \/ (Fresh /\ allowed /\ (more \/ frame = "due"))
RunLater == Fresh /\ allowed /\ frame = "waiting"

FinishPass ==
    /\ wpc = "finish"
    /\ queued' = (queued \/ RunAgain)
    /\ timer' = (~RunAgain /\ (timer \/ RunLater))
    /\ more' = FALSE
    /\ wpc' = "idle"
    /\ UNCHANGED <<schedVars, sample, paint, changed, left, clientVars, intentVars,
                   powerVars, level, gate, strip, worldVars>>

-----------------------------------------------------------------------------
Operation(c) ==
    \/ MatrixInit(c)
    \/ \E on \in BOOLEAN, l \in Levels : Commit(c, on, l)
    \/ \E on \in BOOLEAN : SetUserOn(c, on)
    \/ \E on \in BOOLEAN : SetInhibited(c, on)
    \/ ResetState(c)
    \/ \E l \in Levels : SetLevel(c, l)
    \/ \E l \in Levels : ChangeCharge(c, l)
    \/ \E l \in Levels : SelectEffect(c, l)
    \/ ChangeSource(c)
    \/ KeyEvent(c)
    \/ \E a \in Activity : ZmkActivity(c, a)

Environment == \E c \in Clients : Operation(c)

LockedPass == RefreshGates \/ AdmitScene
UnlockedPass == \/ StartPass \/ SampleCondition \/ PublishEvaluation
                \/ DeliverInput \/ PaintScene \/ FinishPass

Next ==
    \/ Environment
    \/ \E c \in Clients : MakeRequest(c) \/ ActivityListener(c)
    \/ TakeWork \/ TimerExpires \/ FrameComesDue
    \/ LockedPass \/ UnlockedPass

(* The work queue's thread, the timers and a thread inside an operation    *)
(* keep running; nobody is obliged to begin an operation.  The mutex is    *)
(* handed to a waiter when it is unlocked, hence SF for those who wait.    *)
Fairness ==
    /\ WF_vars(TakeWork) /\ WF_vars(TimerExpires) /\ WF_vars(FrameComesDue)
    /\ WF_vars(UnlockedPass) /\ SF_vars(LockedPass)
    /\ \A c \in Clients : WF_vars(MakeRequest(c)) /\ SF_vars(ActivityListener(c))

Spec == Init /\ [][Next]_vars
FairSpec == Spec /\ Fairness

-----------------------------------------------------------------------------
(* Properties *)

(* Some thread has changed state but not yet made request r for it. *)
Announced(r) == \E c \in Clients : r \in call[c]

(* No lost wakeup: a request made while the handler was active, or in the  *)
(* moment before it became active, never waits for another request         *)
(* (kp_rgb_coordinator_request, kp_rgb_finish_pass).                       *)
NoLostWakeup == (Runnable /\ ~Active) => queued \/ wpc = "start"

(* An invalidation interrupting an evaluation is not forgotten: while the  *)
(* published evaluation is missing or stale, another one is asked for or   *)
(* under way from a current snapshot (the epoch test of the handler).      *)
EvaluationPending ==
    (enabled /\ ~(evaluated /\ evaluatedCurrent)) =>
        \/ "control" \in reasons
        \/ wpc \in {"sample", "refresh", "publish"} /\ snapshotCurrent

(* Fresh means fresh: scenes are admitted under gates sampled from the     *)
(* providers' present state, but for a provider that has not called        *)
(* kp_rgb_condition_invalidate() yet.                                      *)
FreshGates == Fresh => gate = source \/ Announced("control")

(* Why it does (the inductive invariant): a control request invalidates    *)
(* the published evaluation at once, and while an evaluation is under way  *)
(* what it has sampled and gated is current as long as its snapshot is.    *)
EvaluationInv ==
    /\ \A c \in announce : call[c] = {}
    /\ ("control" \in reasons \/ wpc \in {"sample", "refresh", "publish"})
          => ~evaluatedCurrent
    /\ (wpc = "refresh" /\ snapshotCurrent) => sample = source \/ Announced("control")
    /\ (wpc = "publish" /\ snapshotCurrent) => gate = source \/ Announced("control")
    /\ FreshGates

(* A key event left in the ring has a pass coming: events pushed while a   *)
(* pass drains the ring, or drained events' late requests, lose nothing.   *)
InputServed ==
    (Fresh /\ ring > 0 /\ ~Active) => queued \/ wpc = "start" \/ Announced("input")

(* Why: input the handler leaves behind when it is about to finish was     *)
(* either counted by kp_rgb_pending_available() or is requested anew.      *)
BacklogInv ==
    /\ (wpc = "finish" /\ ring > 0) =>
          more \/ "input" \in reasons \/ Announced("input")
    /\ InputServed

(* An animation never stalls: a planned frame has its wakeup armed.  *)
AnimationArmed ==
    (Fresh /\ allowed /\ frame # "none" /\ ~Active) => queued \/ timer \/ wpc = "start"

(* A lit strip is blackened when output is blocked, and the blackout owed  *)
(* is requested of the coordinator (reconcile, black_pending).             *)
DarkWhenBlocked ==
    (ready /\ ~allowed) =>
        \/ strip \in {Dark, Unknown}
        \/ black /\ ("output" \in reasons \/ Announced("output"))

(* Its inductive form: before initialisation the strip is not driven. *)
BlackoutInv == DarkWhenBlocked /\ (~ready => strip = Unknown /\ ~black)

(* Once the listener has returned for SLEEP the strip is dark and stays so *)
(* ("attempts black synchronously ... even when already OFF or inhibited") *)
SleepDark == (activity = "sleep" /\ ready) => strip \in {Dark, Unknown}

(* With output allowed and no repaint owed, the strip shows the scene made *)
(* of the present gates, parameters and brightness cap.                    *)
PaintedCurrent ==
    allowed /\ Fresh /\ "repaint" \notin reasons /\ ~Announced("repaint")
            /\ ~(wpc = "scene" /\ paint)
        => strip \in {CurrentLook, Unknown}

(* Their inductive forms.  A strip without LEDs shows no scene; and before *)
(* control is fresh, too, whatever makes the strip stale owes a repaint,   *)
(* while no blackout is owed with output allowed.                          *)
SleepInv == SleepDark /\ (~HasLeds => strip \in {Dark, Unknown})
PaintInv ==
    /\ allowed => ~black
    /\ allowed /\ "repaint" \notin reasons /\ ~Announced("repaint")
               /\ ~(wpc = "scene" /\ paint)
         => strip \in {CurrentLook, Unknown}

(* The policy the permission implements, and no input from before it. *)
PermissionMatches == allowed = ShouldAllow /\ (~allowed => ring = 0)

(* A blackout is delivered although invalidations never stop arriving.     *)
BlackoutDelivered ==
    (ready /\ ~allowed) ~> (allowed \/ strip \in {Dark, Unknown})

(* Once nobody starts another operation, the engine settles on the present *)
(* state: evaluated, drained and showing the current scene or darkness.    *)
Settled ==
    /\ activity = zmkActivity
    /\ enabled => gate = source /\ Fresh /\ ring = 0
    /\ (enabled /\ allowed) => strip \in {CurrentLook, Unknown}
    /\ (ready /\ ~allowed) => strip \in {Dark, Unknown}

Settles == <>[][~Environment]_vars => <>[]Settled

=============================================================================
