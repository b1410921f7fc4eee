------------------------- MODULE CoordinatorProofs -------------------------
(* Proofs about the coordinator, for every value of its constants. *)
EXTENDS Coordinator, TLAPS

-----------------------------------------------------------------------------
(* The parts operations are built from *)

LEMMA CapType == \A a : Cap(a) \in {"zero", "low", "full"}
BY IdleCapAssumption DEF Cap

LEMMA LookTypes == Dark \in Looks /\ Unknown \in Looks
BY DEF Looks

LEMMA CurrentLookType ==
    ASSUME level \in Levels, gate \in BOOLEAN
    PROVE  CurrentLook \in Looks
BY CapType DEF CurrentLook, Looks

LEMMA SubmitType ==
    ASSUME NEW look \in Looks, Submit(look)
    PROVE  strip' \in Looks
BY LookTypes DEF Submit

LEMMA ShouldAllowType == ShouldAllow \in BOOLEAN
BY DEF ShouldAllow

LEMMA PowerReasonsType == PowerReasons \subseteq {"control", "repaint", "output"}
BY DEF PowerReasons

LEMMA BlackAfterType ==
    ASSUME black \in BOOLEAN
    PROVE  BlackAfter \in BOOLEAN
BY DEF BlackAfter

LEMMA SwitchTypes ==
    ASSUME SwitchOutput, allowed \in BOOLEAN, ring \in 0..(QueueLen - 1),
           frame \in {"none", "waiting", "due"}
    PROVE  /\ allowed' \in BOOLEAN /\ ring' \in 0..(QueueLen - 1)
           /\ frame' \in {"none", "waiting", "due"}
<1>1. CASE ShouldAllow' = allowed
  BY <1>1 DEF SwitchOutput
<1>2. CASE ShouldAllow' # allowed
  <2>1. allowed' = ShouldAllow' /\ ring' = 0 /\ frame' = "none"
    BY <1>2 DEF SwitchOutput
  <2>2. allowed' \in BOOLEAN
    BY <2>1 DEF ShouldAllow
  <2>3. 0 \in 0..(QueueLen - 1)
    BY QueueLenAssumption
  <2>. QED BY <2>1, <2>2, <2>3
<1>. QED BY <1>1, <1>2

LEMMA LockedCallTypes ==
    ASSUME NEW c \in Clients, NEW r \in SUBSET (Reason \cup {"start"}),
           call \in [Clients -> SUBSET (Reason \cup {"start"})],
           holding \subseteq Clients, LockedCall(c, r)
    PROVE  /\ call' \in [Clients -> SUBSET (Reason \cup {"start"})]
           /\ holding' \subseteq Clients
BY DEF LockedCall

-----------------------------------------------------------------------------
(* Type correctness *)

(* An operation's first half keeps the types: what it will request are     *)
(* reasons, and what it submits is a look.                                 *)
LEMMA OperationTypes ==
    ASSUME TypeOK, NEW c \in Clients, Operation(c)
    PROVE  TypeOK'
<1>. USE DEF TypeOK, Reason, Activity, schedVars, workVars, localVars,
            clientVars, intentVars, powerVars, worldVars
<1>1. CASE MatrixInit(c)
  BY <1>1, SwitchTypes, BlackAfterType, PowerReasonsType, LockedCallTypes,
     SubmitType, LookTypes
  DEF MatrixInit, ReconcilePower
<1>2. ASSUME NEW on \in BOOLEAN, NEW l \in Levels, Commit(c, on, l)
      PROVE  TypeOK'
  BY <1>2, SwitchTypes, BlackAfterType, PowerReasonsType, LockedCallTypes
  DEF Commit, ReconcilePower
<1>3. ASSUME NEW on \in BOOLEAN, SetUserOn(c, on) PROVE TypeOK'
  BY <1>3, SwitchTypes, BlackAfterType, PowerReasonsType, LockedCallTypes
  DEF SetUserOn, ReconcilePower
<1>4. ASSUME NEW on \in BOOLEAN, SetInhibited(c, on) PROVE TypeOK'
  BY <1>4, SwitchTypes, BlackAfterType, PowerReasonsType, LockedCallTypes
  DEF SetInhibited, ReconcilePower
<1>5. CASE ResetState(c)
  <2>1. /\ call' \in [Clients -> SUBSET (Reason \cup {"start"})]
        /\ holding' \subseteq Clients
    BY <1>5, LockedCallTypes, PowerReasonsType DEF ResetState
  <2>2. source' \in BOOLEAN /\ black' \in BOOLEAN
    BY <1>5, BlackAfterType DEF ResetState, ReconcilePower
  <2>3. /\ allowed' \in BOOLEAN /\ ring' \in 0..(QueueLen - 1)
        /\ frame' \in {"none", "waiting", "due"}
    BY <1>5, SwitchTypes DEF ResetState, ReconcilePower
  <2>4. userOn' \in BOOLEAN /\ level' \in Levels
    BY <1>5, InitialOnAssumption, LevelsAssumption DEF ResetState
  <2>. QED
    BY <1>5, <2>1, <2>2, <2>3, <2>4 DEF ResetState
<1>6. ASSUME NEW l \in Levels, SetLevel(c, l) PROVE TypeOK'
  BY <1>6, LockedCallTypes DEF SetLevel
<1>7. ASSUME NEW l \in Levels, ChangeCharge(c, l) PROVE TypeOK'
  BY <1>7 DEF ChangeCharge
<1>8. ASSUME NEW l \in Levels, SelectEffect(c, l) PROVE TypeOK'
  BY <1>8, LockedCallTypes DEF SelectEffect
<1>9. CASE ChangeSource(c)
  BY <1>9 DEF ChangeSource
<1>10. CASE KeyEvent(c)
  BY <1>10, QueueLenAssumption DEF KeyEvent, Room
<1>11. ASSUME NEW a \in Activity, ZmkActivity(c, a) PROVE TypeOK'
  BY <1>11 DEF ZmkActivity
<1>. QED
  BY <1>1, <1>2, <1>3, <1>4, <1>5, <1>6, <1>7, <1>8, <1>9, <1>10, <1>11
  DEF Operation

(* So do the second half and the listener. *)
LEMMA ClientTypes ==
    ASSUME TypeOK, NEW c \in Clients, MakeRequest(c) \/ ActivityListener(c)
    PROVE  TypeOK'
<1>. USE DEF TypeOK, Reason, Activity, schedVars, workVars, localVars,
            clientVars, intentVars, powerVars, worldVars
<1>1. CASE MakeRequest(c)
  <2>1. /\ enabled' \in BOOLEAN /\ evaluatedCurrent' \in BOOLEAN
        /\ snapshotCurrent' \in BOOLEAN
        /\ queued' \in BOOLEAN /\ timer' \in BOOLEAN
    BY <1>1, Zenon DEF MakeRequest, Request
  <2>2. reasons' \subseteq Reason
    BY <1>1 DEF MakeRequest, Request, StartReasons
  <2>3. /\ call' \in [Clients -> SUBSET (Reason \cup {"start"})]
        /\ holding' \subseteq Clients
    BY <1>1 DEF MakeRequest
  <2>4. UNCHANGED <<evaluated, localVars, announce, intentVars, powerVars,
                    level, gate, strip, worldVars>>
    BY <1>1 DEF MakeRequest, Request
  <2>. QED
    BY <2>1, <2>2, <2>3, <2>4
<1>2. CASE ActivityListener(c)
  <2>1. /\ call' \in [Clients -> SUBSET (Reason \cup {"start"})]
        /\ holding' \subseteq Clients
    BY <1>2, LockedCallTypes, PowerReasonsType DEF ActivityListener
  <2>2. black' \in BOOLEAN
    BY <1>2, BlackAfterType DEF ActivityListener
  <2>3. strip' \in Looks
    BY <1>2, LookTypes, SubmitType DEF ActivityListener
  <2>4. /\ allowed' \in BOOLEAN /\ ring' \in 0..(QueueLen - 1)
        /\ frame' \in {"none", "waiting", "due"}
    BY <1>2, SwitchTypes DEF ActivityListener
  <2>. QED
    BY <1>2, <2>1, <2>2, <2>3, <2>4 DEF ActivityListener
<1>. QED
  BY <1>1, <1>2

(* The handler's critical sections.  Truth values are typed in a step of   *)
(* their own.                                                              *)
LEMMA PassTypes ==
    ASSUME TypeOK, LockedPass \/ UnlockedPass
    PROVE  TypeOK'
<1>. USE DEF TypeOK, Reason, Activity, schedVars, workVars, localVars,
            clientVars, intentVars, powerVars, worldVars
<1>1. CASE StartPass
  <2>1. snapshotCurrent' \in BOOLEAN
    BY <1>1, Zenon DEF StartPass
  <2>2. /\ reasons' \subseteq Reason /\ wpc' \in {"sample", "admit"}
        /\ UNCHANGED <<enabled, evaluated, evaluatedCurrent, workVars, sample,
              paint, changed, left, more, clientVars, intentVars, powerVars,
              level, gate, strip, worldVars>>
    BY <1>1 DEF StartPass
  <2>. QED
    BY <2>1, <2>2
<1>2. CASE SampleCondition
  BY <1>2 DEF SampleCondition
<1>3. CASE RefreshGates
  <2>1. sample' \in BOOLEAN
    BY <1>3, Zenon DEF RefreshGates
  <2>. QED
    BY <1>3, <2>1 DEF RefreshGates
<1>4. CASE PublishEvaluation
  <2>1. /\ evaluated' \in BOOLEAN /\ evaluatedCurrent' \in BOOLEAN
        /\ snapshotCurrent' \in BOOLEAN
    BY <1>4, Zenon DEF PublishEvaluation
  <2>. QED
    BY <1>4, <2>1 DEF PublishEvaluation
<1>5. CASE AdmitScene
  <2>1. more' \in BOOLEAN /\ paint' \in BOOLEAN /\ black' \in BOOLEAN
    BY <1>5, Zenon DEF AdmitScene
  <2>2. strip' \in Looks
    BY <1>5, SubmitType, LookTypes DEF AdmitScene
  <2>3. left' \in 0..QueueLen
    BY <1>5, QueueLenAssumption DEF AdmitScene
  <2>4. reasons' \subseteq Reason
    BY <1>5 DEF AdmitScene
  <2>5. /\ wpc' \in {"scene", "finish"}
        /\ UNCHANGED <<enabled, evaluated, evaluatedCurrent, snapshotCurrent,
              workVars, sample, changed, clientVars, intentVars, allowed, ring,
              frame, level, gate, worldVars>>
    BY <1>5 DEF AdmitScene
  <2>. QED
    BY <2>1, <2>2, <2>3, <2>4, <2>5
<1>6. CASE DeliverInput
  <2>1. changed' \in BOOLEAN
    BY <1>6, Zenon DEF DeliverInput
  <2>. QED
    BY <1>6, <2>1, QueueLenAssumption DEF DeliverInput
<1>7. CASE PaintScene
  <2>1. more' \in BOOLEAN /\ paint' \in BOOLEAN /\ changed' \in BOOLEAN
    BY <1>7, Zenon DEF PaintScene
  <2>2. strip' \in Looks
    BY <1>7, SubmitType, CurrentLookType DEF PaintScene
  <2>3. frame' \in {"none", "waiting", "due"} /\ left' \in 0..QueueLen
    BY <1>7, QueueLenAssumption DEF PaintScene
  <2>. QED
    BY <1>7, <2>1, <2>2, <2>3 DEF PaintScene
<1>8. CASE FinishPass
  <2>1. queued' \in BOOLEAN /\ timer' \in BOOLEAN /\ more' \in BOOLEAN
    BY <1>8, Zenon DEF FinishPass
  <2>. QED
    BY <1>8, <2>1 DEF FinishPass
<1>. QED
  BY <1>1, <1>2, <1>3, <1>4, <1>5, <1>6, <1>7, <1>8
  DEF LockedPass, UnlockedPass

LEMMA QueueTypes ==
    ASSUME TypeOK, TakeWork \/ TimerExpires \/ FrameComesDue
    PROVE  TypeOK'
<1>. USE DEF TypeOK, schedVars, workVars, localVars, clientVars, intentVars,
            powerVars, worldVars
<1>1. queued' \in BOOLEAN /\ timer' \in BOOLEAN
  BY Zenon DEF TakeWork, TimerExpires, FrameComesDue
<1>2. CASE TakeWork
  BY <1>1, <1>2 DEF TakeWork
<1>3. CASE TimerExpires
  BY <1>1, <1>3 DEF TimerExpires
<1>4. CASE FrameComesDue
  BY <1>4 DEF FrameComesDue
<1>. QED
  BY <1>2, <1>3, <1>4

LEMMA InitTypes == Init => TypeOK
<1>. SUFFICES ASSUME Init PROVE TypeOK
  OBVIOUS
<1>1. /\ enabled \in BOOLEAN /\ evaluated \in BOOLEAN
      /\ evaluatedCurrent \in BOOLEAN /\ snapshotCurrent \in BOOLEAN
      /\ queued \in BOOLEAN /\ timer \in BOOLEAN
      /\ sample \in BOOLEAN /\ paint \in BOOLEAN /\ changed \in BOOLEAN
      /\ more \in BOOLEAN /\ inhibited \in BOOLEAN /\ ready \in BOOLEAN
      /\ black \in BOOLEAN /\ gate \in BOOLEAN /\ allowed \in BOOLEAN
  BY Zenon DEF Init
<1>2. userOn \in BOOLEAN /\ level \in Levels /\ strip \in Looks
  BY InitialOnAssumption, LevelsAssumption, LookTypes DEF Init
<1>3. left \in 0..QueueLen /\ ring \in 0..(QueueLen - 1)
  BY QueueLenAssumption DEF Init
<1>. QED
  BY <1>1, <1>2, <1>3 DEF Init, TypeOK, Activity

THEOREM TypeCorrect == Spec => []TypeOK
<1>1. TypeOK /\ [Next]_vars => TypeOK'
  <2>. SUFFICES ASSUME TypeOK, [Next]_vars PROVE TypeOK'
    OBVIOUS
  <2>1. CASE Next
    BY <2>1, OperationTypes, ClientTypes, QueueTypes, PassTypes
    DEF Next, Environment
  <2>2. CASE UNCHANGED vars
    BY <2>2 DEF vars, TypeOK, schedVars, workVars, localVars, clientVars,
                intentVars, powerVars, worldVars
  <2>. QED
    BY <2>1, <2>2
<1>. QED
  BY InitTypes, <1>1, PTL DEF Spec

-----------------------------------------------------------------------------
(* What a step leaves alone *)

(* Another thread's first half neither runs the worker nor touches what    *)
(* the spinlock guards; it can only add to the announced requests, and it  *)
(* announces an invalidation whenever it changes what conditions sample.   *)
LEMMA FirstHalfFrame ==
    ASSUME TypeOK, \A d \in announce : call[d] = {},
           NEW c \in Clients, Operation(c) \/ ActivityListener(c)
    PROVE  /\ UNCHANGED <<reasons, enabled, evaluated, evaluatedCurrent,
                 snapshotCurrent, queued, timer, wpc, sample, paint, changed,
                 left, more, gate>>
           /\ \A d \in Clients : call[d] \subseteq call'[d]
           /\ source' # source => "control" \in call'[c]
           /\ \A d \in announce' : call'[d] = {}
<1>. USE DEF TypeOK, schedVars, workVars, localVars, clientVars, intentVars,
            powerVars, worldVars, Ready, LockedCall
<1>. DEFINE Frame ==
           /\ UNCHANGED <<reasons, enabled, evaluated, evaluatedCurrent,
                 snapshotCurrent, queued, timer, wpc, sample, paint, changed,
                 left, more, gate>>
           /\ \A d \in Clients : call[d] \subseteq call'[d]
           /\ source' # source => "control" \in call'[c]
           /\ \A d \in announce' : call'[d] = {}
<1>1. CASE MatrixInit(c)
  BY <1>1 DEF MatrixInit
<1>2. ASSUME NEW on \in BOOLEAN, NEW l \in Levels, Commit(c, on, l) PROVE Frame
  BY <1>2 DEF Commit
<1>3. ASSUME NEW on \in BOOLEAN, SetUserOn(c, on) PROVE Frame
  BY <1>3 DEF SetUserOn
<1>4. ASSUME NEW on \in BOOLEAN, SetInhibited(c, on) PROVE Frame
  BY <1>4 DEF SetInhibited
<1>5. CASE ResetState(c)
  BY <1>5 DEF ResetState
<1>6. ASSUME NEW l \in Levels, SetLevel(c, l) PROVE Frame
  BY <1>6 DEF SetLevel
<1>7. ASSUME NEW l \in Levels, ChangeCharge(c, l) PROVE Frame
  BY <1>7 DEF ChangeCharge
<1>8. ASSUME NEW l \in Levels, SelectEffect(c, l) PROVE Frame
  BY <1>8 DEF SelectEffect
<1>9. CASE ChangeSource(c)
  BY <1>9 DEF ChangeSource
<1>10. CASE KeyEvent(c)
  BY <1>10 DEF KeyEvent
<1>11. ASSUME NEW a \in Activity, ZmkActivity(c, a) PROVE Frame
  BY <1>11 DEF ZmkActivity
<1>12. CASE ActivityListener(c)
  BY <1>12 DEF ActivityListener
<1>. QED
  BY <1>1, <1>2, <1>3, <1>4, <1>5, <1>6, <1>7, <1>8, <1>9, <1>10, <1>11, <1>12
  DEF Operation

-----------------------------------------------------------------------------
(* Evaluation *)

(* While another thread only adds to the announced requests, what holds    *)
(* "unless an invalidation is announced" keeps holding.                    *)
LEMMA AnnouncedGrows ==
    ASSUME NEW r, NEW c \in Clients, \A d \in Clients : call[d] \subseteq call'[d],
           source' # source => "control" \in call'[c]
    PROVE  /\ Announced(r) => Announced(r)'
           /\ source' # source => Announced("control")'
BY DEF Announced

LEMMA EvaluationInvStep ==
    ASSUME TypeOK, EvaluationInv, [Next]_vars
    PROVE  EvaluationInv'
<1>. USE DEF EvaluationInv, FreshGates, Fresh
<1>1. ASSUME NEW c \in Clients, Operation(c) \/ ActivityListener(c)
      PROVE  EvaluationInv'
  <2>1. /\ UNCHANGED <<reasons, enabled, evaluated, evaluatedCurrent,
              snapshotCurrent, wpc, sample, gate>>
        /\ Announced("control") => Announced("control")'
        /\ source' # source => Announced("control")'
        /\ \A d \in announce' : call'[d] = {}
    BY <1>1, FirstHalfFrame, AnnouncedGrows
  <2>. QED
    BY <2>1
<1>2. ASSUME NEW c \in Clients, MakeRequest(c) PROVE EvaluationInv'
  <2>1. /\ UNCHANGED <<wpc, sample, gate, source, announce, evaluated>>
        /\ \A d \in announce' : call'[d] = {}
    BY <1>2 DEF MakeRequest, Request, localVars, worldVars, TypeOK
  <2>2. CASE "control" \in call[c] \/ ("start" \in call[c] /\ ~enabled)
    <3>1. "control" \in reasons' /\ ~evaluatedCurrent' /\ ~snapshotCurrent'
      BY <1>2, <2>2 DEF MakeRequest, Request, StartReasons
    <3>. QED
      BY <2>1, <3>1
  <2>3. CASE ~("control" \in call[c] \/ ("start" \in call[c] /\ ~enabled))
    <3>1. Announced("control") => Announced("control")'
      BY <1>2, <2>3 DEF MakeRequest, Announced, TypeOK
    <3>2. /\ "control" \in reasons' <=> "control" \in reasons
          /\ enabled' <=> enabled
          /\ evaluatedCurrent' <=> evaluatedCurrent
          /\ snapshotCurrent' <=> snapshotCurrent
      BY <1>2, <2>3 DEF MakeRequest, Request, StartReasons
    <3>. QED
      BY <2>1, <3>1, <3>2
  <2>. QED
    BY <2>2, <2>3
<1>3. CASE TakeWork \/ TimerExpires \/ FrameComesDue
  BY <1>3 DEF TakeWork, TimerExpires, FrameComesDue, schedVars, localVars,
              clientVars, worldVars, Announced
<1>4. CASE StartPass
  BY <1>4 DEF StartPass, clientVars, worldVars, Announced
<1>5. CASE SampleCondition
  BY <1>5 DEF SampleCondition, schedVars, clientVars, worldVars, Announced
<1>6. CASE RefreshGates
  BY <1>6 DEF RefreshGates, clientVars, worldVars, Announced
<1>7. CASE PublishEvaluation
  BY <1>7 DEF PublishEvaluation, Undisturbed, clientVars, worldVars, Announced
<1>8. CASE AdmitScene
  BY <1>8 DEF AdmitScene, Served, clientVars, worldVars, Announced
<1>9. CASE DeliverInput \/ PaintScene \/ FinishPass
  <2>1. /\ UNCHANGED <<schedVars, clientVars, sample, gate, source>>
        /\ wpc' \notin {"refresh", "publish", "sample"}
    BY <1>9 DEF DeliverInput, PaintScene, FinishPass, worldVars
  <2>. QED
    BY <2>1 DEF schedVars, clientVars, Announced
<1>10. CASE UNCHANGED vars
  BY <1>10 DEF vars, schedVars, localVars, clientVars, worldVars, Announced
<1>. QED
  BY <1>1, <1>2, <1>3, <1>4, <1>5, <1>6, <1>7, <1>8, <1>9, <1>10
  DEF Next, Environment, LockedPass, UnlockedPass

THEOREM EvaluationSound == Spec => []EvaluationInv
<1>1. Init => EvaluationInv
  BY DEF Init, EvaluationInv, FreshGates, Fresh
<1>. QED
  BY <1>1, EvaluationInvStep, TypeCorrect, PTL DEF Spec

(* A coordinator that admits scenes admits them under gates that agree     *)
(* with the condition providers, but for a provider that changed and has   *)
(* not called kp_rgb_condition_invalidate() yet.                           *)
THEOREM GatesFresh == Spec => []FreshGates
<1>1. EvaluationInv => FreshGates
  BY DEF EvaluationInv
<1>. QED
  BY <1>1, EvaluationSound, PTL

-----------------------------------------------------------------------------
(* Scheduling *)

(* Whatever makes the coordinator runnable while it is not active, a pass  *)
(* is queued or about to start: no request waits for another one.          *)
THEOREM NoWakeupLost == Spec => []NoLostWakeup
<1>1. Init => NoLostWakeup
  BY DEF Init, NoLostWakeup, Runnable, Fresh
<1>2. TypeOK /\ EvaluationInv /\ NoLostWakeup /\ [Next]_vars => NoLostWakeup'
  <2>. SUFFICES ASSUME TypeOK, EvaluationInv, NoLostWakeup, [Next]_vars
                PROVE  NoLostWakeup'
    OBVIOUS
  <2>. USE DEF NoLostWakeup, Active
  <2>1. ASSUME NEW c \in Clients, Operation(c) \/ ActivityListener(c)
        PROVE  NoLostWakeup'
    BY <2>1, FirstHalfFrame DEF Runnable, Fresh, EvaluationInv
  <2>2. ASSUME NEW c \in Clients, MakeRequest(c) PROVE NoLostWakeup'
    BY <2>2 DEF MakeRequest, Request, localVars
  <2>3. CASE TakeWork \/ TimerExpires \/ FrameComesDue
    BY <2>3 DEF TakeWork, TimerExpires, FrameComesDue, schedVars, workVars,
                localVars, Runnable, Fresh
  <2>4. CASE StartPass \/ SampleCondition \/ RefreshGates \/ PublishEvaluation
    BY <2>4 DEF StartPass, SampleCondition, RefreshGates, PublishEvaluation
  <2>5. CASE AdmitScene \/ DeliverInput \/ PaintScene
    BY <2>5 DEF AdmitScene, DeliverInput, PaintScene
  <2>6. CASE FinishPass
    BY <2>6 DEF FinishPass, RunAgain, Runnable, Fresh, schedVars
  <2>7. CASE UNCHANGED vars
    BY <2>7 DEF vars, schedVars, workVars, localVars, Runnable, Fresh
  <2>. QED
    BY <2>1, <2>2, <2>3, <2>4, <2>5, <2>6, <2>7
    DEF Next, Environment, LockedPass, UnlockedPass
<1>. QED
  BY <1>1, <1>2, TypeCorrect, EvaluationSound, PTL DEF Spec

(* An invalidation that interrupts an evaluation is not forgotten: until   *)
(* an evaluation is published for the present epoch, one is asked for or   *)
(* under way from a current snapshot.                                      *)
THEOREM EvaluationNotForgotten == Spec => []EvaluationPending
<1>1. Init => EvaluationPending
  BY DEF Init, EvaluationPending
<1>2. TypeOK /\ EvaluationInv /\ EvaluationPending /\ [Next]_vars
         => EvaluationPending'
  <2>. SUFFICES ASSUME TypeOK, EvaluationInv, EvaluationPending, [Next]_vars
                PROVE  EvaluationPending'
    OBVIOUS
  <2>. USE DEF EvaluationPending
  <2>1. ASSUME NEW c \in Clients, Operation(c) \/ ActivityListener(c)
        PROVE  EvaluationPending'
    BY <2>1, FirstHalfFrame DEF EvaluationInv
  <2>2. ASSUME NEW c \in Clients, MakeRequest(c) PROVE EvaluationPending'
    BY <2>2 DEF MakeRequest, Request, StartReasons, localVars
  <2>3. CASE TakeWork \/ TimerExpires \/ FrameComesDue
    BY <2>3 DEF TakeWork, TimerExpires, FrameComesDue, schedVars, localVars
  <2>4. CASE StartPass
    BY <2>4 DEF StartPass
  <2>5. CASE SampleCondition \/ RefreshGates
    BY <2>5 DEF SampleCondition, RefreshGates, schedVars
  <2>6. CASE PublishEvaluation
    BY <2>6 DEF PublishEvaluation, Undisturbed
  <2>7. CASE AdmitScene
    BY <2>7 DEF AdmitScene, Served
  <2>8. CASE DeliverInput \/ PaintScene \/ FinishPass
    BY <2>8 DEF DeliverInput, PaintScene, FinishPass, schedVars
  <2>9. CASE UNCHANGED vars
    BY <2>9 DEF vars, schedVars, localVars
  <2>. QED
    BY <2>1, <2>2, <2>3, <2>4, <2>5, <2>6, <2>7, <2>8, <2>9
    DEF Next, Environment, LockedPass, UnlockedPass
<1>. QED
  BY <1>1, <1>2, TypeCorrect, EvaluationSound, PTL DEF Spec

-----------------------------------------------------------------------------
(* Output permission *)

(* What reconciling does to the permission and the ring. *)
LEMMA SwitchMatches ==
    ASSUME SwitchOutput, ~allowed => ring = 0
    PROVE  PermissionMatches'
<1>1. CASE ShouldAllow' = allowed
  <2>1. allowed' = allowed /\ ring' = ring
    BY <1>1 DEF SwitchOutput
  <2>. QED
    BY <1>1, <2>1, Zenon DEF PermissionMatches
<1>2. CASE ShouldAllow' # allowed
  BY <1>2 DEF SwitchOutput, PermissionMatches
<1>. QED
  BY <1>1, <1>2

LEMMA PermissionUnchanged ==
    ASSUME PermissionMatches,
           UNCHANGED <<allowed, ring, ready, userOn, activity, inhibited>>
    PROVE  PermissionMatches'
<1>1. ShouldAllow' = ShouldAllow
  BY DEF ShouldAllow, LogicalOn
<1>. QED
  BY <1>1, Zenon DEF PermissionMatches

(* The permission is the policy's answer, and an event pushed before       *)
(* output was blocked is not delivered after it is allowed again.          *)
THEOREM PermissionFollows == Spec => []PermissionMatches
<1>1. Init => PermissionMatches
  BY Zenon DEF Init, PermissionMatches, ShouldAllow
<1>2. TypeOK /\ PermissionMatches /\ [Next]_vars => PermissionMatches'
  <2>. SUFFICES ASSUME TypeOK, PermissionMatches, [Next]_vars
                PROVE  PermissionMatches'
    OBVIOUS
  <2>0. ~allowed => ring = 0
    BY DEF PermissionMatches
  <2>1. ASSUME NEW c \in Clients, Operation(c) \/ ActivityListener(c)
        PROVE  PermissionMatches'
    <3>1. ASSUME SwitchOutput PROVE PermissionMatches'
      BY <2>0, <3>1, SwitchMatches
    <3>2. CASE \/ MatrixInit(c) \/ ResetState(c) \/ ActivityListener(c)
               \/ \E on \in BOOLEAN, l \in Levels : Commit(c, on, l)
               \/ \E on \in BOOLEAN : SetUserOn(c, on) \/ SetInhibited(c, on)
      BY <3>1, <3>2 DEF MatrixInit, ResetState, ActivityListener, Commit,
                        SetUserOn, SetInhibited, ReconcilePower
    <3>3. CASE KeyEvent(c)
      <4>1. allowed /\ allowed' = allowed /\ ShouldAllow' = ShouldAllow
        BY <3>3 DEF KeyEvent, ShouldAllow, LogicalOn, intentVars
      <4>. QED
        BY <4>1, Zenon DEF PermissionMatches
    <3>4. CASE \/ ChangeSource(c)
               \/ \E l \in Levels : SetLevel(c, l) \/ ChangeCharge(c, l)
                                      \/ SelectEffect(c, l)
               \/ \E a \in Activity : ZmkActivity(c, a)
      BY <3>4, PermissionUnchanged
      DEF ChangeSource, SetLevel, ChangeCharge, SelectEffect, ZmkActivity,
          intentVars, powerVars
    <3>. QED
      BY <2>1, <3>2, <3>3, <3>4 DEF Operation
  <2>2. CASE DeliverInput
    <3>1. allowed' = allowed /\ ShouldAllow' = ShouldAllow
      BY <2>2 DEF DeliverInput, ShouldAllow, LogicalOn, intentVars
    <3>2. ring # 0
      <4>1. ring > 0
        BY <2>2 DEF DeliverInput
      <4>. QED
        BY <4>1
    <3>. QED
      BY <2>0, <3>1, <3>2, Zenon DEF PermissionMatches
  <2>3. CASE \/ \E c \in Clients : MakeRequest(c)
             \/ TakeWork \/ TimerExpires \/ FrameComesDue
             \/ StartPass \/ SampleCondition \/ RefreshGates
             \/ PublishEvaluation \/ AdmitScene \/ PaintScene \/ FinishPass
             \/ UNCHANGED vars
    <3>1. UNCHANGED <<allowed, ring, ready, userOn, activity, inhibited>>
      BY <2>3 DEF MakeRequest, TakeWork, TimerExpires, FrameComesDue,
           StartPass, SampleCondition, RefreshGates, PublishEvaluation,
           AdmitScene, PaintScene, FinishPass, vars, intentVars, powerVars
    <3>. QED
      BY <3>1, PermissionUnchanged
  <2>. QED
    BY <2>1, <2>2, <2>3 DEF Next, Environment, LockedPass, UnlockedPass
<1>. QED
  BY <1>1, <1>2, TypeCorrect, PTL DEF Spec

(* A strip showing a scene when output is blocked is owed a blackout, and  *)
(* the coordinator has been or is being asked to deliver it.               *)
LEMMA BlackoutInvStep ==
    ASSUME TypeOK, EvaluationInv, PermissionMatches, BlackoutInv, [Next]_vars
    PROVE  BlackoutInv'
<1>. USE DEF BlackoutInv, DarkWhenBlocked
<1>0. allowed => HasLeds /\ ready
  BY DEF PermissionMatches, ShouldAllow
<1>1. ASSUME NEW c \in Clients, Operation(c) \/ ActivityListener(c)
      PROVE  BlackoutInv'
  <2>0. /\ reasons' = reasons
        /\ Announced("output") => Announced("output")'
    BY <1>1, FirstHalfFrame, AnnouncedGrows DEF EvaluationInv
  <2>1. ASSUME SwitchOutput, UNCHANGED <<ready, strip>>, black' = BlackAfter,
               NEW r, LockedCall(c, PowerReasons \cup r)
        PROVE  BlackoutInv'
    <3>1. CASE allowed' /\ ready'
      BY <3>1
    <3>2. CASE ~ready
      BY <2>1, <3>2 DEF BlackAfter
    <3>3. CASE ShouldAllow' = allowed
      BY <2>0, <2>1, <3>3 DEF SwitchOutput, BlackAfter
    <3>4. CASE ShouldAllow' # allowed /\ ~allowed' /\ ready
      <4>1. ~ShouldAllow'
        BY <2>1, <3>4 DEF SwitchOutput
      <4>2. allowed
        BY <3>4, <4>1 DEF TypeOK, ShouldAllow
      <4>3. black'
        BY <2>1, <3>4, <4>1, <4>2, <1>0 DEF BlackAfter
      <4>4. "output" \in PowerReasons
        BY <3>4, <4>1 DEF PowerReasons
      <4>5. Announced("output")'
        BY <2>1, <4>4 DEF LockedCall, Announced, TypeOK
      <4>. QED
        BY <2>1, <3>4, <4>3, <4>5
    <3>. QED
      BY <2>1, <3>1, <3>2, <3>3, <3>4
  <2>2. CASE MatrixInit(c)
    BY <2>2 DEF MatrixInit, Submit
  <2>3. CASE ActivityListener(c)
    <3>1. CASE SleepBlack
      BY <2>3, <3>1 DEF ActivityListener, SleepBlack, Submit
    <3>2. CASE ~SleepBlack
      BY <2>1, <2>3, <3>2 DEF ActivityListener
    <3>. QED
      BY <3>1, <3>2
  <2>4. CASE \/ ResetState(c)
             \/ \E on \in BOOLEAN, l \in Levels : Commit(c, on, l)
             \/ \E on \in BOOLEAN : SetUserOn(c, on) \/ SetInhibited(c, on)
    <3>1. /\ SwitchOutput /\ black' = BlackAfter /\ UNCHANGED <<ready, strip>>
          /\ \E r : LockedCall(c, PowerReasons \cup r)
      BY <2>4 DEF ResetState, Commit, SetUserOn, SetInhibited, ReconcilePower
    <3>. QED
      BY <2>1, <3>1
  <2>5. CASE \/ ChangeSource(c) \/ KeyEvent(c)
             \/ \E l \in Levels : SetLevel(c, l) \/ ChangeCharge(c, l)
                                    \/ SelectEffect(c, l)
             \/ \E a \in Activity : ZmkActivity(c, a)
    <3>1. UNCHANGED <<ready, strip, black, allowed>>
      BY <2>5 DEF ChangeSource, KeyEvent, SetLevel, ChangeCharge, SelectEffect,
                  ZmkActivity, intentVars, powerVars
    <3>. QED
      BY <2>0, <3>1
  <2>. QED
    BY <1>1, <2>2, <2>3, <2>4, <2>5 DEF Operation
<1>2. ASSUME NEW c \in Clients, MakeRequest(c) PROVE BlackoutInv'
  <2>1. UNCHANGED <<ready, strip, black, allowed>>
    BY <1>2 DEF MakeRequest, intentVars, powerVars
  <2>2. ("output" \in reasons \/ Announced("output"))
           => ("output" \in reasons' \/ Announced("output")')
    BY <1>2 DEF MakeRequest, Request, Announced, TypeOK
  <2>. QED
    BY <2>1, <2>2
<1>3. CASE AdmitScene
  <2>1. /\ UNCHANGED <<ready, allowed>> /\ ~black'
        /\ black => strip' \in {Dark, Unknown}
        /\ ~black => strip' = strip
    BY <1>3 DEF AdmitScene, DeliverBlack, Submit, intentVars
  <2>. QED
    BY <2>1
<1>4. CASE PaintScene
  BY <1>0, <1>4 DEF PaintScene, schedVars, clientVars, intentVars, Announced
<1>5. CASE \/ StartPass \/ RefreshGates \/ SampleCondition \/ PublishEvaluation
           \/ DeliverInput \/ FinishPass
           \/ TakeWork \/ TimerExpires \/ FrameComesDue \/ UNCHANGED vars
  <2>1. /\ UNCHANGED <<ready, strip, black, allowed, call>>
        /\ "output" \in reasons => "output" \in reasons'
    BY <1>5 DEF StartPass, RefreshGates, SampleCondition, PublishEvaluation,
         DeliverInput, FinishPass, TakeWork, TimerExpires, FrameComesDue, vars,
         schedVars, clientVars, intentVars, powerVars
  <2>. QED
    BY <2>1 DEF Announced
<1>. QED
  BY <1>1, <1>2, <1>3, <1>4, <1>5
  DEF Next, Environment, LockedPass, UnlockedPass

THEOREM DarkOnceBlocked == Spec => []DarkWhenBlocked
<1>1. Init => BlackoutInv
  BY DEF Init, BlackoutInv, DarkWhenBlocked
<1>2. BlackoutInv => DarkWhenBlocked
  BY DEF BlackoutInv
<1>. QED
  BY <1>1, <1>2, BlackoutInvStep, TypeCorrect, EvaluationSound,
     PermissionFollows, PTL
  DEF Spec

-----------------------------------------------------------------------------
(* What the strip shows *)

LEMMA SleepInvStep ==
    ASSUME TypeOK, PermissionMatches, BlackoutInv, SleepInv, [Next]_vars
    PROVE  SleepInv'
<1>. USE DEF SleepInv, SleepDark
<1>1. allowed => HasLeds /\ activity # "sleep"
  BY DEF PermissionMatches, ShouldAllow, LogicalOn
<1>2. ASSUME NEW c \in Clients, MatrixInit(c) PROVE SleepInv'
  BY <1>2 DEF MatrixInit, Submit, BlackoutInv
<1>3. ASSUME NEW c \in Clients, ActivityListener(c) PROVE SleepInv'
  <2>1. CASE SleepBlack
    BY <1>3, <2>1 DEF ActivityListener, Submit
  <2>2. CASE ~SleepBlack
    BY <1>3, <2>2 DEF ActivityListener, SleepBlack
  <2>. QED
    BY <2>1, <2>2
<1>4. CASE PaintScene
  <2>1. UNCHANGED <<ready, activity>>
    BY <1>4 DEF PaintScene, intentVars
  <2>2. strip' = strip \/ allowed
    BY <1>4 DEF PaintScene
  <2>. QED
    BY <1>1, <2>1, <2>2
<1>5. CASE AdmitScene
  BY <1>5 DEF AdmitScene, Submit, intentVars
<1>6. CASE UNCHANGED <<ready, activity, strip>>
  BY <1>6
<1>7. ASSUME NEW c \in Clients, Operation(c), ~MatrixInit(c) PROVE SleepInv'
  <2>1. UNCHANGED <<ready, activity, strip>>
    BY <1>7 DEF Operation, Commit, SetUserOn, SetInhibited, ResetState, SetLevel,
                ChangeCharge, SelectEffect, ChangeSource, KeyEvent, ZmkActivity, intentVars
  <2>. QED
    BY <1>6, <2>1
<1>8. CASE \/ \E c \in Clients : MakeRequest(c)
           \/ StartPass \/ RefreshGates \/ SampleCondition \/ PublishEvaluation
           \/ DeliverInput \/ FinishPass
           \/ TakeWork \/ TimerExpires \/ FrameComesDue \/ UNCHANGED vars
  <2>1. UNCHANGED <<ready, activity, strip>>
    BY <1>8 DEF MakeRequest, StartPass, RefreshGates, SampleCondition, PublishEvaluation,
         DeliverInput, FinishPass, TakeWork, TimerExpires, FrameComesDue, vars, intentVars
  <2>. QED
    BY <1>6, <2>1
<1>. QED
  BY <1>2, <1>3, <1>4, <1>5, <1>7, <1>8
  DEF Next, Environment, LockedPass, UnlockedPass

(* Once the listener has returned for SLEEP, no pass lights the strip      *)
(* again, whatever it was doing when the listener came.                    *)
THEOREM SleepStaysDark == Spec => []SleepDark
<1>1. Init => SleepInv /\ BlackoutInv
  BY DEF Init, SleepInv, SleepDark, BlackoutInv, DarkWhenBlocked
<1>2. SleepInv => SleepDark
  BY DEF SleepInv
<1>. QED
  BY <1>1, <1>2, SleepInvStep, BlackoutInvStep, TypeCorrect, EvaluationSound,
     PermissionFollows, PTL
  DEF Spec

(* An operation that switches the output on owes a repaint, and settles    *)
(* any blackout.                                                           *)
LEMMA SwitchOwesRepaint ==
    ASSUME TypeOK, SwitchOutput, allowed'
    PROVE  /\ allowed \/ "repaint" \in PowerReasons
           /\ BlackAfter => allowed /\ black
<1>1. CASE ShouldAllow' = allowed
  BY <1>1 DEF SwitchOutput, BlackAfter
<1>2. CASE ShouldAllow' # allowed
  <2>1. ShouldAllow'
    BY <1>2 DEF SwitchOutput
  <2>2. PowerReasons = {"control", "repaint"}
    BY <1>2, <2>1 DEF PowerReasons
  <2>. QED
    BY <1>2, <2>1, <2>2 DEF BlackAfter
<1>. QED
  BY <1>1, <1>2

LEMMA PaintInvStep ==
    ASSUME TypeOK, EvaluationInv, PermissionMatches, PermissionMatches', PaintInv,
           [Next]_vars
    PROVE  PaintInv'
<1>. USE DEF PaintInv
<1>1. ASSUME NEW c \in Clients, Operation(c) \/ ActivityListener(c)
      PROVE  PaintInv'
  <2>1. /\ UNCHANGED <<reasons, wpc, paint, gate>>
        /\ Announced("repaint") => Announced("repaint")'
    BY <1>1, FirstHalfFrame, AnnouncedGrows DEF EvaluationInv
  <2>2. ASSUME UNCHANGED <<allowed, black, level, activity, strip>> PROVE PaintInv'
    BY <2>1, <2>2 DEF CurrentLook
  <2>3. ASSUME "repaint" \in call'[c], allowed' => ~black' PROVE PaintInv'
    BY <2>3 DEF Announced
  <2>4. ASSUME NEW r, LockedCall(c, r) PROVE call'[c] = r
    BY <2>4 DEF LockedCall, TypeOK
  <2>5. ASSUME SwitchOutput, black' = BlackAfter, NEW r, LockedCall(c, PowerReasons \cup r),
               "repaint" \in r \/ UNCHANGED <<level, activity, strip>>
        PROVE  PaintInv'
    <3>1. allowed' => ~black'
      BY <2>5, SwitchOwesRepaint
    <3>2. CASE "repaint" \in PowerReasons \cup r
      BY <2>3, <2>4, <2>5, <3>1, <3>2
    <3>3. CASE "repaint" \notin PowerReasons \cup r
      <4>1. allowed' => allowed
        BY <2>5, <3>3, SwitchOwesRepaint
      <4>2. UNCHANGED <<level, activity, strip>>
        BY <2>5, <3>3
      <4>. QED
        BY <2>1, <3>1, <4>1, <4>2 DEF CurrentLook
    <3>. QED
      BY <3>2, <3>3
  <2>6. CASE MatrixInit(c)
    <3>1. /\ SwitchOutput /\ black' = BlackAfter /\ LockedCall(c, PowerReasons)
          /\ ~ready
      BY <2>6 DEF MatrixInit, ReconcilePower
    <3>2. ~allowed
      BY <3>1 DEF PermissionMatches, ShouldAllow
    <3>3. CASE ~allowed'
      BY <3>3
    <3>4. CASE allowed'
      BY <2>3, <2>4, <3>1, <3>2, <3>4, SwitchOwesRepaint
    <3>. QED
      BY <3>3, <3>4
  <2>7. CASE \/ ResetState(c)
             \/ \E on \in BOOLEAN, l \in Levels : Commit(c, on, l)
             \/ \E on \in BOOLEAN : SetUserOn(c, on) \/ SetInhibited(c, on)
    <3>1. CASE ResetState(c)
      BY <2>5, <3>1 DEF ResetState, ReconcilePower
    <3>2. ASSUME NEW on \in BOOLEAN, NEW l \in Levels, Commit(c, on, l) PROVE PaintInv'
      <4>1. PICK r : LockedCall(c, PowerReasons \cup ({"repaint"} \cup r))
        BY <3>2 DEF Commit
      <4>. QED
        BY <2>5, <3>2, <4>1 DEF Commit, ReconcilePower
    <3>3. ASSUME NEW on \in BOOLEAN, SetUserOn(c, on) \/ SetInhibited(c, on) PROVE PaintInv'
      <4>1. LockedCall(c, PowerReasons \cup {})
        BY <3>3 DEF SetUserOn, SetInhibited
      <4>. QED
        BY <2>5, <3>3, <4>1 DEF SetUserOn, SetInhibited, ReconcilePower
    <3>. QED
      BY <2>7, <3>1, <3>2, <3>3
  <2>8. CASE ActivityListener(c)
    <3>. DEFINE r == IF allowed' /\ Cap(activity) # Cap(activity') THEN {"repaint"} ELSE {}
    <3>1. SwitchOutput /\ level' = level /\ LockedCall(c, PowerReasons \cup r)
      BY <2>8 DEF ActivityListener
    <3>2. CASE SleepBlack
      <4>1. ~allowed'
        BY <3>2 DEF SleepBlack, PermissionMatches, ShouldAllow, LogicalOn
      <4>. QED
        BY <4>1
    <3>3. CASE ~SleepBlack
      <4>1. black' = BlackAfter /\ UNCHANGED strip
        BY <2>8, <3>3 DEF ActivityListener
      <4>2. allowed' => ~black'
        BY <3>1, <4>1, SwitchOwesRepaint
      <4>3. CASE "repaint" \in PowerReasons \cup r
        BY <2>3, <2>4, <3>1, <4>2, <4>3
      <4>4. CASE "repaint" \notin PowerReasons \cup r
        <5>1. allowed' => allowed /\ Cap(activity') = Cap(activity)
          BY <3>1, <4>4, SwitchOwesRepaint
        <5>. QED
          BY <2>1, <3>1, <4>1, <4>2, <5>1 DEF CurrentLook
      <4>. QED
        BY <4>3, <4>4
    <3>. QED
      BY <3>2, <3>3
  <2>9. CASE \/ ChangeSource(c) \/ KeyEvent(c)
             \/ \E a \in Activity : ZmkActivity(c, a)
    BY <2>2, <2>9 DEF ChangeSource, KeyEvent, ZmkActivity, intentVars, powerVars
  <2>10. ASSUME NEW l \in Levels, SetLevel(c, l) \/ ChangeCharge(c, l) \/ SelectEffect(c, l)
         PROVE  PaintInv'
    <3>1. UNCHANGED <<allowed, black>>
      BY <2>10 DEF SetLevel, ChangeCharge, SelectEffect, powerVars
    <3>2. "repaint" \in call'[c]
      BY <2>10 DEF SetLevel, ChangeCharge, SelectEffect, LockedCall, TypeOK
    <3>. QED
      BY <2>3, <3>1, <3>2
  <2>. QED
    BY <1>1, <2>6, <2>7, <2>8, <2>9, <2>10 DEF Operation
<1>2. ASSUME NEW c \in Clients, MakeRequest(c) PROVE PaintInv'
  <2>1. UNCHANGED <<allowed, black, level, gate, activity, strip, wpc, paint>>
    BY <1>2 DEF MakeRequest, localVars, intentVars, powerVars
  <2>2. ("repaint" \in reasons \/ Announced("repaint"))
           => ("repaint" \in reasons' \/ Announced("repaint")')
    BY <1>2 DEF MakeRequest, Request, Announced, TypeOK
  <2>. QED
    BY <2>1, <2>2 DEF CurrentLook
<1>3. CASE RefreshGates
  <2>1. /\ UNCHANGED <<allowed, black, level, activity, strip, call>>
        /\ wpc = "refresh" /\ gate' = sample
        /\ reasons' = reasons \cup (IF gate # sample THEN {"repaint"} ELSE {})
    BY <1>3 DEF RefreshGates, clientVars, intentVars, powerVars
  <2>. QED
    BY <2>1 DEF Announced, CurrentLook
<1>4. CASE AdmitScene
  <2>1. /\ UNCHANGED <<allowed, level, gate, activity, call>> /\ ~black' /\ wpc = "admit"
        /\ ~black => strip' = strip
    BY <1>4 DEF AdmitScene, DeliverBlack, clientVars, intentVars
  <2>2. CASE Fresh
    <3>1. wpc' = "scene" /\ ("repaint" \in reasons => paint')
      BY <1>4, <2>2 DEF AdmitScene
    <3>. QED
      BY <2>1, <3>1 DEF Announced, CurrentLook
  <2>3. CASE ~Fresh
    <3>1. "repaint" \in reasons => "repaint" \in reasons'
      BY <1>4, <2>3 DEF AdmitScene, Served
    <3>. QED
      BY <2>1, <3>1 DEF Announced, CurrentLook
  <2>. QED
    BY <2>2, <2>3
<1>5. CASE PaintScene
  <2>1. /\ UNCHANGED <<allowed, black, level, gate, activity, call, reasons>>
        /\ (allowed /\ (paint \/ changed)) => strip' \in {CurrentLook, Unknown}
        /\ ~(allowed /\ (paint \/ changed)) => strip' = strip
    BY <1>5 DEF PaintScene, Submit, schedVars, clientVars, intentVars
  <2>. QED
    BY <2>1 DEF Announced, CurrentLook
<1>6. CASE \/ StartPass \/ SampleCondition \/ PublishEvaluation \/ DeliverInput
           \/ FinishPass \/ TakeWork \/ TimerExpires \/ FrameComesDue \/ UNCHANGED vars
  <2>1. /\ UNCHANGED <<allowed, black, level, gate, activity, strip, call, paint>>
        /\ wpc = "scene" => wpc' = "scene"
        /\ "repaint" \in reasons => "repaint" \in reasons'
    BY <1>6 DEF StartPass, SampleCondition, PublishEvaluation, DeliverInput, FinishPass,
         TakeWork, TimerExpires, FrameComesDue, vars, schedVars, localVars, clientVars,
         intentVars, powerVars
  <2>. QED
    BY <2>1 DEF Announced, CurrentLook
<1>. QED
  BY <1>1, <1>2, <1>3, <1>4, <1>5, <1>6
  DEF Next, Environment, LockedPass, UnlockedPass

(* With output allowed, control fresh and no repaint requested, announced  *)
(* or being painted, the strip shows the present scene.                    *)
THEOREM PictureStaysCurrent == Spec => []PaintedCurrent
<1>1. Init => PaintInv
  BY DEF Init, PaintInv
<1>2. PaintInv => PaintedCurrent
  BY DEF PaintInv, PaintedCurrent
<1>3. Spec => [](TypeOK /\ EvaluationInv /\ PermissionMatches)
  BY TypeCorrect, EvaluationSound, PermissionFollows, PTL
<1>. QED
  BY <1>1, <1>2, <1>3, PaintInvStep, PTL DEF Spec

-----------------------------------------------------------------------------
(* Input and animation *)

(* What a client's steps do to the handler's reasons to run again: nothing *)
(* announced or requested is lost, and control does not become fresh.      *)
LEMMA RequestFrame ==
    ASSUME TypeOK, NEW c \in Clients, MakeRequest(c)
    PROVE  /\ UNCHANGED <<wpc, more, ring, allowed, frame>>
           /\ reasons \subseteq reasons'
           /\ Announced("input") => Announced("input")' \/ "input" \in reasons'
           /\ Fresh' => Fresh
           /\ ~Active /\ Runnable' => queued'
           /\ queued \/ timer => queued' \/ timer'
           /\ queued => queued'
<1>1. UNCHANGED <<wpc, more, ring, allowed, frame>>
  BY DEF MakeRequest, localVars, powerVars
<1>2. /\ reasons \subseteq reasons'
      /\ Announced("input") => Announced("input")' \/ "input" \in reasons'
  BY DEF MakeRequest, Request, Announced, TypeOK
<1>3. Fresh' => Fresh
  BY DEF MakeRequest, Request, StartReasons, Fresh
<1>4. /\ ~Active /\ Runnable' => queued'
      /\ queued \/ timer => queued' \/ timer'
      /\ queued => queued'
  BY DEF MakeRequest, Request
<1>. QED
  BY <1>1, <1>2, <1>3, <1>4

(* Only a key event fills the ring, and it announces the input it leaves;  *)
(* reconciling empties it.  Only reconciling touches the planned frame.    *)
LEMMA RingFrame ==
    ASSUME TypeOK, NEW c \in Clients, Operation(c) \/ ActivityListener(c)
    PROVE  /\ ring' <= ring \/ "input" \in call'[c]
           /\ UNCHANGED <<frame, allowed>> \/ frame' = "none"
<1>. DEFINE Goal == /\ ring' <= ring \/ "input" \in call'[c]
                    /\ UNCHANGED <<frame, allowed>> \/ frame' = "none"
<1>1. ASSUME SwitchOutput PROVE Goal
  BY <1>1, QueueLenAssumption DEF SwitchOutput, TypeOK
<1>2. CASE \/ MatrixInit(c) \/ ResetState(c) \/ ActivityListener(c)
           \/ \E on \in BOOLEAN, l \in Levels : Commit(c, on, l)
           \/ \E on \in BOOLEAN : SetUserOn(c, on) \/ SetInhibited(c, on)
  BY <1>1, <1>2 DEF MatrixInit, ResetState, ActivityListener, Commit,
                    SetUserOn, SetInhibited, ReconcilePower
<1>3. CASE KeyEvent(c)
  BY <1>3 DEF KeyEvent, TypeOK
<1>4. CASE \/ ChangeSource(c)
           \/ \E l \in Levels : SetLevel(c, l) \/ ChangeCharge(c, l)
                                  \/ SelectEffect(c, l)
           \/ \E a \in Activity : ZmkActivity(c, a)
  <2>1. UNCHANGED <<ring, frame, allowed>>
    BY <1>4 DEF ChangeSource, SetLevel, ChangeCharge, SelectEffect, ZmkActivity,
                powerVars
  <2>. QED
    BY <2>1 DEF TypeOK
<1>. QED
  BY <1>2, <1>3, <1>4 DEF Operation

LEMMA BacklogInvStep ==
    ASSUME TypeOK, EvaluationInv, PermissionMatches, BacklogInv, [Next]_vars
    PROVE  BacklogInv'
<1>. USE DEF BacklogInv, InputServed
<1>0. ring > 0 => allowed
  BY DEF PermissionMatches
<1>1. ASSUME NEW c \in Clients, Operation(c) \/ ActivityListener(c)
      PROVE  BacklogInv'
  <2>1. /\ UNCHANGED <<reasons, enabled, evaluated, evaluatedCurrent, queued,
                      wpc, more>>
        /\ Announced("input") => Announced("input")'
    BY <1>1, FirstHalfFrame, AnnouncedGrows DEF EvaluationInv
  <2>2. ring' > 0 => ring > 0 \/ Announced("input")'
    <3>1. ring' <= ring \/ "input" \in call'[c]
      BY <1>1, RingFrame
    <3>2. ring \in Nat /\ ring' \in Nat
      BY <1>1, OperationTypes, ClientTypes, QueueLenAssumption DEF TypeOK
    <3>. QED
      BY <3>1, <3>2 DEF Announced
  <2>. QED
    BY <2>1, <2>2 DEF Fresh, Active
<1>2. ASSUME NEW c \in Clients, MakeRequest(c) PROVE BacklogInv'
  <2>1. /\ UNCHANGED <<wpc, more, ring>> /\ reasons \subseteq reasons'
        /\ Announced("input") => Announced("input")' \/ "input" \in reasons'
        /\ Fresh' => Fresh
        /\ ~Active /\ Runnable' => queued'
        /\ queued => queued'
    BY <1>2, RequestFrame
  <2>2. Active' <=> Active
    BY <2>1 DEF Active
  <2>3. ("input" \in reasons' /\ Fresh') => Runnable'
    BY DEF Runnable
  <2>4. ASSUME Fresh', ring' > 0, ~Active', wpc' # "start" PROVE queued' \/ Announced("input")'
    BY <2>1, <2>2, <2>3, <2>4
  <2>. QED
    BY <2>1, <2>4
<1>3. CASE TakeWork \/ TimerExpires \/ FrameComesDue
  <2>1. /\ UNCHANGED <<reasons, enabled, evaluated, evaluatedCurrent, ring, more, call>>
        /\ \/ wpc' = "start"
           \/ wpc' = wpc /\ (queued => queued')
    BY <1>3 DEF TakeWork, TimerExpires, FrameComesDue, schedVars, workVars,
                localVars, clientVars, powerVars
  <2>. QED
    BY <2>1 DEF Fresh, Active, Announced
<1>4. CASE StartPass \/ SampleCondition \/ RefreshGates \/ PublishEvaluation
           \/ DeliverInput
  BY <1>4 DEF StartPass, SampleCondition, RefreshGates, PublishEvaluation,
              DeliverInput, Active
<1>5. CASE AdmitScene \/ PaintScene
  <2>1. /\ UNCHANGED <<ring, allowed>> /\ Active'
        /\ wpc' = "finish" => (more' <=> allowed /\ ring > 0)
    BY <1>5 DEF AdmitScene, PaintScene, Active
  <2>. QED
    BY <2>1, <1>0
<1>6. CASE FinishPass
  <2>1. /\ UNCHANGED <<schedVars, clientVars, ring>> /\ wpc' = "idle"
        /\ queued' <=> (queued \/ RunAgain)
    BY <1>6 DEF FinishPass, powerVars
  <2>2. ASSUME Fresh, ring > 0 PROVE RunAgain \/ Announced("input")
    BY <1>0, <1>6, <2>2 DEF RunAgain, Runnable, FinishPass
  <2>. QED
    BY <2>1, <2>2 DEF schedVars, clientVars, Fresh, Announced
<1>7. CASE UNCHANGED vars
  BY <1>7 DEF vars, schedVars, workVars, localVars, clientVars, powerVars,
              Fresh, Active, Announced
<1>. QED
  BY <1>1, <1>2, <1>3, <1>4, <1>5, <1>6, <1>7
  DEF Next, Environment, LockedPass, UnlockedPass

(* Input left in the ring by a finished pass has another pass coming. *)
THEOREM NoInputStranded == Spec => []InputServed
<1>1. Init => BacklogInv
  BY DEF Init, BacklogInv, InputServed
<1>2. BacklogInv => InputServed
  BY DEF BacklogInv
<1>. QED
  BY <1>1, <1>2, BacklogInvStep, TypeCorrect, EvaluationSound,
     PermissionFollows, PTL
  DEF Spec

(* A frame planned for an animation that may be shown has a wakeup armed.  *)
THEOREM AnimationNeverStalls == Spec => []AnimationArmed
<1>1. Init => AnimationArmed
  BY DEF Init, AnimationArmed
<1>2. TypeOK /\ EvaluationInv /\ AnimationArmed /\ [Next]_vars => AnimationArmed'
  <2>. SUFFICES ASSUME TypeOK, EvaluationInv, AnimationArmed, [Next]_vars
                PROVE  AnimationArmed'
    OBVIOUS
  <2>. USE DEF AnimationArmed
  <2>1. ASSUME NEW c \in Clients, Operation(c) \/ ActivityListener(c)
        PROVE  AnimationArmed'
    BY <2>1, FirstHalfFrame, RingFrame DEF EvaluationInv, Fresh, Active
  <2>2. ASSUME NEW c \in Clients, MakeRequest(c) PROVE AnimationArmed'
    BY <2>2, RequestFrame DEF Active
  <2>3. CASE TakeWork \/ TimerExpires \/ FrameComesDue
    BY <2>3 DEF TakeWork, TimerExpires, FrameComesDue, schedVars, workVars,
                localVars, powerVars, Fresh, Active
  <2>4. CASE StartPass \/ SampleCondition \/ RefreshGates \/ PublishEvaluation
    BY <2>4 DEF StartPass, SampleCondition, RefreshGates, PublishEvaluation, Active
  <2>5. CASE AdmitScene \/ DeliverInput \/ PaintScene
    BY <2>5 DEF AdmitScene, DeliverInput, PaintScene, Active
  <2>6. CASE FinishPass
    BY <2>6 DEF FinishPass, RunAgain, RunLater, schedVars, powerVars, Fresh, TypeOK
  <2>7. CASE UNCHANGED vars
    BY <2>7 DEF vars, schedVars, workVars, localVars, powerVars, Fresh, Active
  <2>. QED
    BY <2>1, <2>2, <2>3, <2>4, <2>5, <2>6, <2>7
    DEF Next, Environment, LockedPass, UnlockedPass
<1>. QED
  BY <1>1, <1>2, TypeCorrect, EvaluationSound, PTL DEF Spec

=============================================================================
