---------------------------- MODULE FramesProofs ----------------------------
(***************************************************************************)
(* Theorems about EventRing and Frames, for any effects, lengths of the    *)
(* ring and of the tick, and times: the ring is a bounded queue, each of   *)
(* its operations one of the queue's, also when events arrive inside a     *)
(* pass; frames are planned on a grid for as long as something evolves;    *)
(* the halves agree on the clock; the effects of key presses show exactly  *)
(* what the presses and the time since give; and the trials of the random  *)
(* effects happen at their times, and have their effect from then on.      *)
(***************************************************************************)
EXTENDS Frames, SequenceTheorems, FunctionTheorems, FiniteSetTheorems,
        WellFoundedInduction, TLAPS

Entries == Events \cup {NoEvent}

-----------------------------------------------------------------------------
(* Positions in the array *)

LEMMA SuccessorWraps ==
    ASSUME NEW i \in Indices
    PROVE  /\ Successor(i) \in Indices
           /\ Successor(i) = IF i + 1 = QueueLen THEN 0 ELSE i + 1
<1>. QueueLen \in Nat /\ QueueLen > 0
  BY QueueLenAssumption
<1>1. CASE i + 1 = QueueLen
  <2>1. QueueLen % QueueLen = 0
    OBVIOUS
  <2>. QED BY <1>1, <2>1 DEF Successor, Indices
<1>2. CASE i + 1 # QueueLen
  <2>1. i + 1 \in 0 .. QueueLen - 1
    BY <1>2 DEF Indices
  <2>2. (i + 1) % QueueLen = i + 1
    BY <2>1
  <2>. QED BY <1>2, <2>1, <2>2 DEF Successor, Indices
<1>. QED BY <1>1, <1>2

LEMMA CountBounds ==
    ASSUME NEW h \in Indices, NEW t \in Indices
    PROVE  /\ CountOf(h, t) \in Nat /\ CountOf(h, t) < QueueLen
           /\ Place(t, CountOf(h, t)) = h
           /\ CountOf(h, t) = 0 <=> t = h
           /\ \A k \in 0 .. CountOf(h, t) - 1 : Place(t, k) \in Indices /\ Place(t, k) # h
BY QueueLenAssumption DEF Indices, CountOf, Place

LEMMA ContentsAt ==
    ASSUME NEW s \in [Indices -> Entries], NEW h \in Indices, NEW t \in Indices
    PROVE  /\ ContentsOf(s, h, t) \in Seq(Entries)
           /\ Len(ContentsOf(s, h, t)) = CountOf(h, t)
           /\ \A i \in 1 .. CountOf(h, t) : ContentsOf(s, h, t)[i] = s[Place(t, i - 1)]
<1>1. CountOf(h, t) \in Nat
  BY CountBounds
<1>2. ASSUME NEW i \in 1 .. CountOf(h, t) PROVE s[Place(t, i - 1)] \in Entries
  <2>1. i - 1 \in 0 .. CountOf(h, t) - 1
    BY <1>1
  <2>. QED BY <2>1, CountBounds
<1>. DEFINE contents == [i \in 1 .. CountOf(h, t) |-> s[Place(t, i - 1)]]
<1>3. contents \in Seq(Entries) /\ Len(contents) = CountOf(h, t)
  BY <1>1, <1>2
<1>. QED BY <1>3 DEF ContentsOf

(* One entry stays empty: the ring has room for QueueLen - 1 events. *)
LEMMA RoomLeft ==
    ASSUME NEW h \in Indices, NEW t \in Indices
    PROVE  Successor(h) # t <=> CountOf(h, t) < QueueLen - 1
<1>1. Successor(h) = IF h + 1 = QueueLen THEN 0 ELSE h + 1
  BY SuccessorWraps
<1>. QED BY <1>1, QueueLenAssumption DEF Indices, CountOf

-----------------------------------------------------------------------------
(* What writing at the head and moving the tail make of the contents *)

LEMMA WriteAppends ==
    ASSUME NEW s \in [Indices -> Entries], NEW h \in Indices, NEW t \in Indices,
           NEW e \in Entries, Successor(h) # t
    PROVE  ContentsOf([s EXCEPT ![h] = e], Successor(h), t)
              = Append(ContentsOf(s, h, t), e)
<1>. DEFINE n == CountOf(h, t)
            old == ContentsOf(s, h, t)
            written == [s EXCEPT ![h] = e]
            new == ContentsOf(written, Successor(h), t)
<1>1. Successor(h) \in Indices /\ Successor(h) = IF h + 1 = QueueLen THEN 0 ELSE h + 1
  BY SuccessorWraps
<1>2. n < QueueLen - 1
  BY RoomLeft
<1>3. CountOf(Successor(h), t) = n + 1
  BY <1>1, <1>2, QueueLenAssumption DEF CountOf, Indices
<1>4. n \in Nat
  BY CountBounds
<1>5. written \in [Indices -> Entries]
  OBVIOUS
<1>. HIDE DEF written
<1>6. old \in Seq(Entries) /\ Len(old) = n
  BY ContentsAt
<1>7. new \in Seq(Entries) /\ Len(new) = n + 1
  BY <1>1, <1>3, <1>5, ContentsAt
<1>8. ASSUME NEW i \in 1 .. n + 1
      PROVE  new[i] = Append(old, e)[i]
  <2>1. new[i] = written[Place(t, i - 1)]
    <3>1. i \in 1 .. CountOf(Successor(h), t)
      BY <1>3
    <3>. QED BY <1>1, <1>5, <3>1, ContentsAt
  <2>2. CASE i = n + 1
    <3>1. Place(t, i - 1) = h
      BY <1>4, <2>2, CountBounds
    <3>2. new[i] = e
      BY <2>1, <3>1 DEF written
    <3>. HIDE DEF n, old, new
    <3>. QED BY <3>2, <2>2, <1>4, <1>6
  <2>3. CASE i # n + 1
    <3>1. i \in 1 .. n /\ i - 1 \in 0 .. n - 1
      BY <1>4, <2>3
    <3>2. Place(t, i - 1) # h /\ Place(t, i - 1) \in Indices
      BY <3>1, CountBounds
    <3>3. new[i] = old[i]
      <4>1. written[Place(t, i - 1)] = s[Place(t, i - 1)]
        BY <3>2 DEF written
      <4>2. old[i] = s[Place(t, i - 1)]
        BY <3>1, ContentsAt
      <4>. QED BY <2>1, <4>1, <4>2
    <3>. HIDE DEF n, old, new
    <3>. QED BY <3>1, <3>3, <1>4, <1>6
  <2>. QED BY <2>2, <2>3
<1>. HIDE DEF n, old, new
<1>9. Append(old, e) \in Seq(Entries) /\ Len(Append(old, e)) = n + 1
  BY <1>6
<1>10. new = Append(old, e)
  BY <1>7, <1>8, <1>9, SeqEqual
<1>. QED BY <1>10 DEF new, old, written

LEMMA AdvanceTakesFirst ==
    ASSUME NEW s \in [Indices -> Entries], NEW h \in Indices, NEW t \in Indices,
           t # h
    PROVE  /\ ContentsOf(s, h, t) # <<>>
           /\ ContentsOf(s, h, Successor(t)) = Tail(ContentsOf(s, h, t))
<1>. DEFINE n == CountOf(h, t)
            old == ContentsOf(s, h, t)
            new == ContentsOf(s, h, Successor(t))
<1>1. Successor(t) \in Indices /\ Successor(t) = IF t + 1 = QueueLen THEN 0 ELSE t + 1
  BY SuccessorWraps
<1>2. n \in Nat /\ n > 0
  BY CountBounds
<1>3. CountOf(h, Successor(t)) = n - 1
  BY <1>1, QueueLenAssumption DEF CountOf, Indices
<1>4. old \in Seq(Entries) /\ Len(old) = n
  BY ContentsAt
<1>5. new \in Seq(Entries) /\ Len(new) = n - 1
  BY <1>1, <1>3, ContentsAt
<1>6. old # <<>>
  <2>. HIDE DEF n, old
  <2>. QED BY <1>2, <1>4
<1>7. /\ Tail(old) \in Seq(Entries) /\ Len(Tail(old)) = n - 1
      /\ \A i \in 1 .. n - 1 : Tail(old)[i] = old[i + 1]
  <2>. HIDE DEF n, old
  <2>. QED BY <1>4, <1>6, HeadTailProperties
<1>8. ASSUME NEW i \in 1 .. n - 1
      PROVE  new[i] = Tail(old)[i]
  <2>1. new[i] = s[Place(Successor(t), i - 1)]
    BY <1>1, <1>3, ContentsAt
  <2>2. i + 1 \in 1 .. n /\ (i + 1) - 1 = i
    BY <1>2
  <2>3. old[i + 1] = s[Place(t, i)]
    <3>1. old[i + 1] = s[Place(t, (i + 1) - 1)]
      BY <2>2, ContentsAt
    <3>. QED BY <2>2, <3>1
  <2>4. n < QueueLen
    BY CountBounds
  <2>5. Place(Successor(t), i - 1) = Place(t, i)
    BY <1>1, <1>2, <2>4, QueueLenAssumption DEF Place, Indices
  <2>. QED BY <1>7, <2>1, <2>3, <2>5
<1>. HIDE DEF n, old, new
<1>9. new = Tail(old)
  BY <1>5, <1>7, <1>8, SeqEqual
<1>. QED BY <1>6, <1>9 DEF new, old

-----------------------------------------------------------------------------
(* Type correctness *)

LEMMA RingTypes == TypeOK /\ [RingNext]_ring => TypeOK'
<1>. SUFFICES ASSUME TypeOK, [RingNext]_ring PROVE TypeOK'
  OBVIOUS
<1>1. Successor(head) \in Indices /\ Successor(tail) \in Indices
  BY SuccessorWraps DEF TypeOK
<1>. USE DEF TypeOK
<1>2. ASSUME NEW e \in Events, Push(e) PROVE TypeOK'
  BY <1>1, <1>2 DEF Push
<1>3. CASE Pop
  BY <1>1, <1>3 DEF Pop
<1>4. CASE TakeDropped
  BY <1>4 DEF TakeDropped
<1>5. CASE PurgeAndSwitch
  BY <1>5 DEF PurgeAndSwitch
<1>6. CASE UNCHANGED ring
  BY <1>6 DEF ring
<1>. QED BY <1>2, <1>3, <1>4, <1>5, <1>6 DEF RingNext

LEMMA RingInitTypes == RingInit => TypeOK
<1>. SUFFICES ASSUME RingInit PROVE TypeOK
  OBVIOUS
<1>1. 0 \in Indices
  BY QueueLenAssumption DEF Indices
<1>. QED BY <1>1 DEF RingInit, TypeOK

(* The ring's indices stay within its array. *)
THEOREM RingTypeCorrect == RingSpec => []TypeOK
BY RingInitTypes, RingTypes, PTL DEF RingSpec

-----------------------------------------------------------------------------
(* The operations *)

LEMMA PushRefines ==
    ASSUME TypeOK, TypeOK', NEW e \in Events, Push(e)
    PROVE  Queue!Accept(e) \/ Queue!Refuse
<1>1. /\ Contents = ContentsOf(slots, head, tail)
      /\ Contents' = ContentsOf(slots', head', tail')
  BY DEF Contents
<1>2. /\ slots \in [Indices -> Entries] /\ head \in Indices /\ tail \in Indices
      /\ e \in Entries
  BY DEF TypeOK, Entries
<1>3. Len(Contents) = CountOf(head, tail)
  <2>1. Len(ContentsOf(slots, head, tail)) = CountOf(head, tail)
    BY <1>2, ContentsAt
  <2>. QED BY <1>1, <2>1
<1>4. CASE HasRoom
  <2>1. /\ slots' = [slots EXCEPT ![head] = e] /\ head' = Successor(head)
        /\ UNCHANGED <<tail, allowed, dropped>> /\ allowed
    BY <1>4 DEF Push
  <2>2. Successor(head) # tail
    BY <1>4 DEF HasRoom
  <2>3. Contents' = Append(Contents, e)
    BY <1>1, <1>2, <2>1, <2>2, WriteAppends
  <2>4. Len(Contents) < QueueLen - 1
    BY <1>2, <1>3, <2>2, RoomLeft
  <2>. QED BY <2>1, <2>3, <2>4 DEF Queue!Accept
<1>5. CASE ~HasRoom
  <2>1. UNCHANGED <<slots, head, tail, allowed>> /\ dropped' = dropped + 1 /\ allowed
    BY <1>5 DEF Push
  <2>2. Contents' = Contents
    BY <1>1, <2>1
  <2>3. Len(Contents) = QueueLen - 1
    <3>1. ~(CountOf(head, tail) < QueueLen - 1)
      BY <1>2, <1>5, RoomLeft DEF HasRoom
    <3>2. CountOf(head, tail) \in Nat /\ CountOf(head, tail) < QueueLen
      BY <1>2, CountBounds
    <3>. QED BY <1>3, <3>1, <3>2, QueueLenAssumption
  <2>. QED BY <2>1, <2>2, <2>3 DEF Queue!Refuse
<1>. QED BY <1>4, <1>5

LEMMA PopDelivers ==
    ASSUME TypeOK, TypeOK', Pop
    PROVE  Queue!Deliver
<1>1. /\ Contents = ContentsOf(slots, head, tail)
      /\ Contents' = ContentsOf(slots', head', tail')
  BY DEF Contents
<1>2. slots \in [Indices -> Entries] /\ head \in Indices /\ tail \in Indices
  BY DEF TypeOK, Entries
<1>3. /\ tail # head /\ tail' = Successor(tail)
      /\ UNCHANGED <<slots, head, allowed, dropped>>
  BY DEF Pop, Available
<1>4. Contents # <<>> /\ Contents' = Tail(Contents)
  BY <1>1, <1>2, <1>3, AdvanceTakesFirst
<1>. QED BY <1>3, <1>4 DEF Queue!Deliver

LEMMA PurgeSwitches ==
    ASSUME TypeOK', PurgeAndSwitch
    PROVE  Queue!Switch
<1>1. Contents' = ContentsOf(slots', head', tail')
  BY DEF Contents
<1>2. slots' \in [Indices -> Entries] /\ head' \in Indices /\ tail' = head'
  BY DEF TypeOK, Entries, PurgeAndSwitch
<1>3. Contents' \in Seq(Entries) /\ Len(Contents') = 0
  BY <1>1, <1>2, ContentsAt, CountBounds
<1>4. Contents' = <<>>
  BY <1>3, EmptySeq
<1>. QED BY <1>4 DEF PurgeAndSwitch, Queue!Switch

LEMMA StepRefines ==
    ASSUME TypeOK, TypeOK', [RingNext]_ring
    PROVE  [Queue!Next]_(Queue!vars)
<1>1. ASSUME NEW e \in Events, Push(e) PROVE Queue!Next
  BY <1>1, PushRefines DEF Queue!Next
<1>2. CASE Pop
  BY <1>2, PopDelivers DEF Queue!Next
<1>3. CASE PurgeAndSwitch
  BY <1>3, PurgeSwitches DEF Queue!Next
<1>4. CASE TakeDropped
  <2>1. Contents' = Contents
    BY <1>4 DEF TakeDropped, Contents
  <2>. QED BY <1>4, <2>1 DEF TakeDropped, Queue!TakeLost, Queue!Next
<1>5. CASE UNCHANGED ring
  <2>1. Contents' = Contents
    BY <1>5 DEF ring, Contents
  <2>. QED BY <1>5, <2>1 DEF ring, Queue!vars
<1>. QED BY <1>1, <1>2, <1>3, <1>4, <1>5 DEF RingNext

(* The ring implements the bounded queue: pushing appends or is counted as *)
(* refused exactly when QueueLen - 1 events wait, popping takes the oldest *)
(* event, and a switch of the output leaves none (rgb_matrix.c:502-565).   *)
THEOREM RingImplementsQueue == RingSpec => RingIsQueue
<1>1. RingInit => Queue!Init
  <2>. SUFFICES ASSUME RingInit PROVE Queue!Init
    OBVIOUS
  <2>1. TypeOK
    BY RingInitTypes
  <2>2. slots \in [Indices -> Entries] /\ head \in Indices /\ tail = head
    BY <2>1 DEF TypeOK, Entries, RingInit
  <2>3. Contents \in Seq(Entries) /\ Len(Contents) = 0
    BY <2>2, ContentsAt, CountBounds DEF Contents
  <2>4. Contents = <<>>
    BY <2>3, EmptySeq
  <2>. QED BY <2>4 DEF RingInit, Queue!Init
<1>. QED
  BY <1>1, RingTypeCorrect, StepRefines, PTL
     DEF RingSpec, RingIsQueue, Queue!Spec

-----------------------------------------------------------------------------
(* The ring *)

LEMMA StepsOfRing == [Next]_vars => [RingNext]_ring
<1>. SUFFICES ASSUME [Next]_vars PROVE [RingNext]_ring
  OBVIOUS
<1>1. ASSUME NEW ev \in Events, KeyEvent(ev) PROVE RingNext
  BY <1>1 DEF KeyEvent, RingNext
<1>2. CASE SwitchOutput \/ Deliver \/ ReportDropped
  BY <1>2 DEF SwitchOutput, Deliver, ReportDropped, RingNext
<1>3. ASSUME NEW late \in 0 .. MaxLag, ClockCommand(late) PROVE UNCHANGED ring
  BY <1>3 DEF ClockCommand
<1>4. ASSUME NEW repaint \in BOOLEAN, StartPass(repaint) PROVE UNCHANGED ring
  BY <1>4 DEF StartPass
<1>5. CASE Elapse \/ SwitchGate \/ RequestReset \/ Skip \/ FinishFrame
  BY <1>5 DEF Elapse, SwitchGate, RequestReset, Skip, FinishFrame
<1>6. CASE Paint
  BY <1>6 DEF Paint
<1>7. CASE UNCHANGED vars
  BY <1>7 DEF vars
<1>. QED BY <1>1, <1>2, <1>3, <1>4, <1>5, <1>6, <1>7 DEF Next

LEMMA RingInFrames == Spec => RingSpec
<1>1. Init => RingInit
  BY DEF Init
<1>. QED BY <1>1, StepsOfRing, PTL DEF Spec, RingSpec

(* Whatever a pass, a switch of the output and the listener do to it, and  *)
(* in whatever order, the ring is a queue of the events it accepted.       *)
THEOREM FramesKeepQueue == Spec => RingIsQueue
BY RingInFrames, RingImplementsQueue, PTL

-----------------------------------------------------------------------------
(* The deadline's arithmetic *)

LEMMA DivisionBounds ==
    ASSUME NEW a \in Nat
    PROVE  /\ a \div Tick \in Nat
           /\ (a \div Tick) * Tick <= a
           /\ a < (a \div Tick) * Tick + Tick
BY TickAssumption

LEMMA MultiplesRepeat ==
    ASSUME NEW a \in Int, NEW k \in Int, a % Tick = 0
    PROVE  (a + k * Tick) % Tick = 0
<1>1. Tick \in Int /\ Tick > 0
  BY TickAssumption
<1>2. PICK q \in Int : a = q * Tick
  BY <1>1
<1>3. a + k * Tick = (q + k) * Tick
  BY <1>1, <1>2
<1>4. ((q + k) * Tick) % Tick = 0
  BY <1>1
<1>. QED BY <1>3, <1>4

(* The deadline moves ahead of the time the frame was finished, by no more *)
(* than a tick if it had passed, and in whole ticks.                       *)
LEMMA AdvancedAhead ==
    ASSUME NEW deadline \in Int, NEW finished \in Int, deadline <= finished + Tick
    PROVE  /\ Advanced(deadline, finished) \in Int
           /\ Advanced(deadline, finished) > finished
           /\ Advanced(deadline, finished) <= finished + Tick
           /\ \A base \in Int : (deadline - base) % Tick = 0
                 => (Advanced(deadline, finished) - base) % Tick = 0
<1>1. CASE deadline > finished
  BY <1>1 DEF Advanced
<1>2. CASE deadline <= finished
  <2>. DEFINE steps == (finished - deadline) \div Tick
  <2>1. /\ steps \in Nat
        /\ steps * Tick <= finished - deadline
        /\ finished - deadline < steps * Tick + Tick
    BY <1>2, DivisionBounds
  <2>2. Advanced(deadline, finished) = deadline + (steps + 1) * Tick
    BY <1>2 DEF Advanced
  <2>. HIDE DEF steps
  <2>3. (steps + 1) * Tick = steps * Tick + Tick /\ steps * Tick \in Int /\ Tick \in Int
    BY <2>1, TickAssumption
  <2>4. ASSUME NEW base \in Int, (deadline - base) % Tick = 0
        PROVE  (Advanced(deadline, finished) - base) % Tick = 0
    <3>1. ((deadline - base) + (steps + 1) * Tick) % Tick = 0
      BY <2>1, <2>4, MultiplesRepeat
    <3>2. Advanced(deadline, finished) - base = (deadline - base) + (steps + 1) * Tick
      BY <2>2, <2>3
    <3>. QED BY <3>1, <3>2
  <2>. QED BY <2>1, <2>2, <2>3, <2>4
<1>. QED BY <1>1, <1>2

-----------------------------------------------------------------------------
(* Frames are planned *)

Runs == [animating : BOOLEAN, last : Int]
Passes == [now : Int, paint : BOOLEAN, changed : BOOLEAN, drained : Int]

Typed ==
    /\ now \in Nat /\ next \in Int
    /\ gate \in BOOLEAN /\ resetPending \in BOOLEAN /\ active \in BOOLEAN
    /\ allowed \in BOOLEAN /\ shown \in BOOLEAN
    /\ pass \in Passes /\ pass.now <= now
    /\ run \in [fitted.effects -> Runs]
    /\ grid \in [base : Int, done : Int] /\ grid.done <= now

(* The deadline lies on the grid of its animation. *)
OnGrid ==
    next # NoDeadline =>
        /\ next > grid.done /\ next <= grid.done + Tick
        /\ (next - grid.base) % Tick = 0

(* Within a pass the overlays are active as gate and output say, and       *)
(* something that evolves is known to, or has just asked for a frame; and  *)
(* while it is known to, its next frame is planned.                        *)
Asked == phase = "input" /\ pass.changed
Armed ==
    /\ phase # "idle" => /\ ~resetPending
                         /\ active => gate /\ allowed
    /\ phase \in {"idle", "input", "painted"}
    /\ Asked => active
    /\ shown => \A e \in fitted.effects : Evolving(e, fx[e]) => run[e].animating \/ Asked
    /\ phase # "painted" /\ allowed /\ active /\ ~resetPending
         /\ (\E e \in fitted.effects : run[e].animating) => next # NoDeadline

LEMMA EvolvingBoolean ==
    ASSUME NEW e, NEW d
    PROVE  Evolving(e, d) \in BOOLEAN
BY DEF Evolving

(* An effect whose data an event changes asks for a frame. *)
LEMMA ChangesAsk ==
    ASSUME NEW e, NEW d, NEW ev
    PROVE  /\ OnEvent(e, d, ev).changed \in BOOLEAN
           /\ OnEvent(e, d, ev).changed \/ OnEvent(e, d, ev).data = d
<1>1. /\ HitEvent(e, d, ev).changed \in BOOLEAN
      /\ HitEvent(e, d, ev).changed \/ HitEvent(e, d, ev).data = d
  BY DEF HitEvent
<1>2. /\ RippleEvent(e, d, ev).changed \in BOOLEAN
      /\ RippleEvent(e, d, ev).changed \/ RippleEvent(e, d, ev).data = d
  BY DEF RippleEvent
<1>3. CASE e.kind \in HitKinds
  BY <1>1, <1>3 DEF OnEvent, HitKinds
<1>4. CASE e.kind \notin HitKinds /\ e.kind = "ripple"
  BY <1>2, <1>4 DEF OnEvent
<1>5. CASE e.kind \notin HitKinds /\ e.kind # "ripple"
  BY <1>5 DEF OnEvent
<1>. QED BY <1>3, <1>4, <1>5

LEMMA PacedInit == Init => Typed /\ OnGrid /\ Armed
<1>. SUFFICES ASSUME Init PROVE Typed /\ OnGrid /\ Armed
  OBVIOUS
<1>. USE DEF Init
<1>1. pass \in Passes /\ pass.now = 0
  BY DEF NoPass, Passes
<1>2. grid \in [base : Int, done : Int] /\ grid.done = 0
  BY DEF NoGrid
<1>3. run \in [fitted.effects -> Runs]
  BY DEF Runs
<1>4. allowed = FALSE
  BY DEF RingInit
<1>5. Typed
  <2>. HIDE DEF Init
  <2>1. now = 0 /\ next = -1 /\ gate = TRUE /\ resetPending = FALSE /\ active = FALSE /\ shown = FALSE
    BY DEF Init, NoDeadline
  <2>2. now \in Nat /\ next \in Int
    BY <2>1
  <2>4. /\ gate \in BOOLEAN /\ resetPending \in BOOLEAN /\ active \in BOOLEAN
        /\ allowed \in BOOLEAN /\ shown \in BOOLEAN
    BY <2>1, <1>4
  <2>3. pass.now <= now /\ grid.done <= now
    BY <2>1, <1>1, <1>2
  <2>. QED BY <2>2, <2>3, <2>4, <1>1, <1>2, <1>3 DEF Typed
<1>6. OnGrid /\ Armed
  BY DEF OnGrid, Armed, Asked, RingInit
<1>. QED BY <1>5, <1>6

(* At the end of a frame after which something moves, the next one is      *)
(* planned ahead, within a tick and on the grid.                           *)
LEMMA FrameAhead ==
    ASSUME Typed, OnGrid, FinishFrame, SceneAnimating
    PROVE  /\ next' \in Int /\ next' > now /\ next' <= now + Tick
           /\ (next' - grid'.base) % Tick = 0
           /\ grid' \in [base : Int, done : Int] /\ grid'.done = now
<1>. DEFINE deadline == IF next = NoDeadline THEN pass.now ELSE next
<1>1. /\ next' = Advanced(deadline, now)
      /\ grid' = [base |-> IF next = NoDeadline THEN pass.now ELSE grid.base, done |-> now]
  BY DEF FinishFrame
<1>2. /\ deadline \in Int /\ deadline <= now + Tick
      /\ (deadline - grid'.base) % Tick = 0
      /\ grid'.base \in Int /\ grid'.done = now /\ grid' \in [base : Int, done : Int]
  <2>1. CASE next = NoDeadline
    <3>1. deadline = pass.now /\ grid'.base = pass.now /\ pass.now \in Int
      BY <1>1, <2>1 DEF Typed, Passes
    <3>2. (pass.now - pass.now) % Tick = 0
      BY <3>1, TickAssumption
    <3>. QED BY <1>1, <2>1, <3>1, <3>2, TickAssumption DEF Typed
  <2>2. CASE next # NoDeadline
    BY <1>1, <2>2, TickAssumption DEF Typed, OnGrid
  <2>. QED BY <2>1, <2>2
<1>. HIDE DEF deadline
<1>. QED BY <1>1, <1>2, AdvancedAhead DEF Typed

LEMMA PacedStep == Typed /\ OnGrid /\ [Next]_vars => Typed' /\ OnGrid'
<1>. SUFFICES ASSUME Typed, OnGrid, [Next]_vars PROVE Typed' /\ OnGrid'
  OBVIOUS
<1>. USE DEF Typed, OnGrid
<1>1. CASE Elapse
  BY <1>1 DEF Elapse, ring, history, Passes
<1>2. ASSUME NEW ev \in Events, KeyEvent(ev) PROVE Typed' /\ OnGrid'
  BY <1>2 DEF KeyEvent, Push, history
<1>3. ASSUME NEW late \in 0 .. MaxLag, ClockCommand(late) PROVE Typed' /\ OnGrid'
  BY <1>3 DEF ClockCommand, ring
<1>4. CASE SwitchOutput
  <2>1. /\ UNCHANGED <<now, fitted, pass, gate, active, run, shown>>
        /\ next' = NoDeadline /\ grid' = NoGrid
    BY <1>4 DEF SwitchOutput
  <2>2. allowed' \in BOOLEAN /\ resetPending' \in BOOLEAN
    BY <1>4 DEF SwitchOutput, PurgeAndSwitch
  <2>. QED BY <2>1, <2>2 DEF NoGrid, NoDeadline
<1>5. CASE SwitchGate
  BY <1>5 DEF SwitchGate, ring, history
<1>6. CASE RequestReset
  BY <1>6 DEF RequestReset, ring, history
<1>7. ASSUME NEW repaint \in BOOLEAN, StartPass(repaint) PROVE Typed' /\ OnGrid'
  <2>. DEFINE restarts == resetPending \/ active # (allowed /\ gate)
  <2>1. /\ UNCHANGED <<now, fitted, next, gate, allowed, grid>>
        /\ active' = (allowed /\ gate) /\ resetPending' = FALSE
        /\ shown' = (shown /\ ~restarts)
        /\ pass' = [now |-> now, paint |-> repaint \/ (next # NoDeadline /\ now >= next),
                    changed |-> FALSE, drained |-> 0]
        /\ run' = [e \in fitted.effects |->
                     IF restarts THEN [run[e] EXCEPT !.animating = FALSE] ELSE run[e]]
    BY <1>7 DEF StartPass, ring
  <2>2. pass' \in Passes /\ pass'.now <= now'
    BY <2>1 DEF Passes
  <2>3. run' \in [fitted.effects -> Runs]
    <3>1. ASSUME NEW e \in fitted.effects
          PROVE  [run[e] EXCEPT !.animating = FALSE] \in Runs
      BY DEF Runs
    <3>. HIDE DEF restarts
    <3>. QED BY <2>1, <3>1
  <2>4. active' \in BOOLEAN /\ shown' \in BOOLEAN
    BY <2>1
  <2>. QED BY <2>1, <2>2, <2>3, <2>4
<1>8. CASE Deliver
  <2>1. UNCHANGED <<now, fitted, next, gate, resetPending, active, allowed, run, shown, grid>>
    BY <1>8 DEF Deliver, Pop
  <2>2. PICK asks \in BOOLEAN : pass' = Drained(asks)
    BY <1>8 DEF Deliver
  <2>3. pass' \in Passes /\ pass'.now <= now'
    BY <2>1, <2>2 DEF Drained, Passes
  <2>. QED BY <2>1, <2>3
<1>9. CASE Paint
  <2>1. UNCHANGED <<now, fitted, pass, next, gate, resetPending, active, allowed, grid>>
    BY <1>9 DEF Paint, ring
  <2>2. run' \in [fitted.effects -> Runs] /\ shown' \in BOOLEAN
    <3>1. CASE gate
      <4>1. PICK roll :
               LET data == [e \in fitted.effects |->
                              Render(e, fx[e], FrameFor(e), roll[e])]
               IN run' = [e \in fitted.effects |->
                            [animating |-> Evolving(e, data[e]), last |-> pass.now]]
        <5>. HIDE DEF Typed, OnGrid
        <5>. QED BY <1>9, <3>1 DEF Paint
      <4>2. shown' = TRUE
        BY <1>9, <3>1 DEF Paint
      <4>. QED BY <4>1, <4>2, EvolvingBoolean DEF Runs, Passes
    <3>2. CASE ~gate
      BY <1>9, <3>2 DEF Paint
    <3>. QED BY <3>1, <3>2
  <2>. QED BY <2>1, <2>2
<1>10. CASE Skip
  <2>1. UNCHANGED <<now, fitted, next, gate, resetPending, active, allowed, run, shown, grid>>
        /\ pass' = NoPass
    BY <1>10 DEF Skip, ring
  <2>. QED BY <2>1 DEF NoPass, Passes
<1>11. CASE FinishFrame
  <2>1. /\ UNCHANGED <<now, fitted, gate, resetPending, active, allowed, run, shown>>
        /\ pass' = NoPass
        /\ ~SceneAnimating => next' = NoDeadline /\ grid' = NoGrid
    BY <1>11 DEF FinishFrame, ring
  <2>2. pass' \in Passes /\ pass'.now <= now'
    BY <2>1 DEF NoPass, Passes
  <2>3. CASE SceneAnimating
    <3>. HIDE DEF Typed, OnGrid
    <3>1. /\ next' \in Int /\ next' > now /\ next' <= now + Tick
          /\ (next' - grid'.base) % Tick = 0
          /\ grid' \in [base : Int, done : Int] /\ grid'.done = now
      BY <1>11, <2>3, FrameAhead
    <3>. QED BY <2>1, <2>2, <3>1 DEF Typed, OnGrid
  <2>4. CASE ~SceneAnimating
    BY <2>1, <2>2, <2>4 DEF NoGrid, NoDeadline
  <2>. QED BY <2>3, <2>4
<1>12. CASE ReportDropped \/ UNCHANGED vars
  BY <1>12 DEF ReportDropped, TakeDropped, frames, vars, ring, history
<1>. QED
  BY <1>1, <1>2, <1>3, <1>4, <1>5, <1>6, <1>7, <1>8, <1>9, <1>10, <1>11, <1>12 DEF Next

LEMMA ArmedStep == Typed /\ Typed' /\ OnGrid /\ Armed /\ [Next]_vars => Armed'
<1>. SUFFICES ASSUME Typed, Typed', OnGrid, Armed, [Next]_vars PROVE Armed'
  OBVIOUS
<1>1. CASE UNCHANGED <<fitted, phase, pass, next, gate, resetPending, active, allowed,
                       run, fx, shown>>
  BY <1>1 DEF Armed, Asked
<1>2. CASE Elapse
  BY <1>1, <1>2 DEF Elapse, ring, history
<1>3. ASSUME NEW ev \in Events, KeyEvent(ev) PROVE Armed'
  BY <1>1, <1>3 DEF KeyEvent, Push, history
<1>4. ASSUME NEW late \in 0 .. MaxLag, ClockCommand(late) PROVE Armed'
  BY <1>1, <1>4 DEF ClockCommand, ring
<1>5. CASE SwitchOutput
  <2>1. /\ UNCHANGED <<fitted, phase, pass, gate, active, run, fx, shown>>
        /\ phase = "idle"
        /\ resetPending' = (resetPending \/ ~allowed)
    BY <1>5 DEF SwitchOutput, Upset
  <2>2. allowed' = ~allowed
    BY <1>5 DEF SwitchOutput, PurgeAndSwitch
  <2>3. ~(allowed' /\ ~resetPending')
    BY <2>1, <2>2
  <2>. QED BY <2>1, <2>3 DEF Armed, Asked
<1>6. CASE SwitchGate
  BY <1>6 DEF SwitchGate, Upset, ring, history, Armed, Asked
<1>7. CASE RequestReset
  BY <1>7 DEF RequestReset, Upset, ring, history, Armed, Asked
<1>8. ASSUME NEW repaint \in BOOLEAN, StartPass(repaint) PROVE Armed'
  <2>. DEFINE restarts == resetPending \/ active # (allowed /\ gate)
  <2>1. /\ UNCHANGED <<fitted, next, gate, allowed>>
        /\ phase = "idle" /\ phase' = "input"
        /\ active' = (allowed /\ gate) /\ resetPending' = FALSE
        /\ shown' = (shown /\ ~restarts)
        /\ ~pass'.changed
        /\ run' = [e \in fitted.effects |->
                     IF restarts THEN [run[e] EXCEPT !.animating = FALSE] ELSE run[e]]
    BY <1>8 DEF StartPass, ring
  <2>2. CASE restarts
    <3>1. ASSUME NEW e \in fitted'.effects PROVE ~run'[e].animating
      <4>1. run[e] \in Runs
        BY <2>1 DEF Typed
      <4>2. run'[e] = [run[e] EXCEPT !.animating = FALSE]
        BY <2>1, <2>2
      <4>. QED BY <4>1, <4>2 DEF Runs
    <3>. HIDE DEF restarts
    <3>2. ~shown'
      BY <2>1, <2>2
    <3>. QED BY <2>1, <3>1, <3>2 DEF Armed, Asked
  <2>3. CASE ~restarts
    <3>1. active = (allowed /\ gate) /\ ~resetPending
      BY <2>3
    <3>2. ASSUME NEW e \in fitted'.effects PROVE fx'[e] = fx[e] /\ run'[e] = run[e]
      BY <1>8, <2>1, <2>3, <3>1 DEF StartPass
    <3>. HIDE DEF restarts
    <3>. QED BY <2>1, <3>1, <3>2 DEF Armed, Asked
  <2>. QED BY <2>2, <2>3
<1>9. CASE Deliver
  <2>1. /\ UNCHANGED <<fitted, phase, next, gate, resetPending, active, allowed, run, shown>>
        /\ phase = "input"
    BY <1>9 DEF Deliver, Pop
  <2>2. CASE gate /\ active /\ slots[tail].led # NoLed
    <3>. DEFINE answer(e) == OnEvent(e, fx[e], slots[tail])
    <3>1. /\ fx' = [e \in fitted.effects |-> answer(e).data]
          /\ pass' = Drained(\E e \in fitted.effects : answer(e).changed)
      BY <1>9, <2>2 DEF Deliver
    <3>2. pass'.changed <=> pass.changed \/ \E e \in fitted.effects : answer(e).changed
      BY <3>1 DEF Drained
    <3>3. ASSUME NEW e \in fitted.effects, ~pass'.changed PROVE fx'[e] = fx[e]
      <4>1. ~answer(e).changed
        BY <3>2, <3>3
      <4>2. answer(e).data = fx[e]
        BY <4>1, ChangesAsk
      <4>. QED BY <3>1, <4>2
    <3>4. pass.changed => pass'.changed
      BY <3>2
    <3>. HIDE DEF answer
    <3>. QED BY <2>1, <2>2, <3>3, <3>4 DEF Armed, Asked
  <2>3. CASE ~(gate /\ active /\ slots[tail].led # NoLed)
    <3>1. UNCHANGED fx /\ pass' = Drained(FALSE)
      BY <1>9, <2>3 DEF Deliver
    <3>2. pass'.changed <=> pass.changed
      BY <3>1 DEF Drained
    <3>. QED BY <2>1, <3>1, <3>2 DEF Armed, Asked
  <2>. QED BY <2>2, <2>3
<1>10. CASE Paint
  <2>1. /\ UNCHANGED <<fitted, pass, next, gate, resetPending, active, allowed>>
        /\ phase = "input" /\ phase' = "painted"
    BY <1>10 DEF Paint, ring
  <2>2. CASE gate
    <3>1. PICK roll :
            /\ fx' = [e \in fitted.effects |-> Render(e, fx[e], FrameFor(e), roll[e])]
            /\ run' = [e \in fitted.effects |->
                         [animating |-> Evolving(e, Render(e, fx[e], FrameFor(e), roll[e])),
                          last |-> pass.now]]
      BY <1>10, <2>2 DEF Paint
    <3>2. ASSUME NEW e \in fitted.effects, Evolving(e, fx'[e]) PROVE run'[e].animating
      BY <3>1, <3>2
    <3>. QED BY <2>1, <3>2 DEF Armed, Asked
  <2>3. CASE ~gate
    <3>1. UNCHANGED <<fx, run, shown>>
      BY <1>10, <2>3 DEF Paint
    <3>2. ~Asked
      BY <2>1, <2>3 DEF Armed
    <3>. QED BY <2>1, <3>1, <3>2 DEF Armed, Asked
  <2>. QED BY <2>2, <2>3
<1>11. CASE Skip
  <2>1. /\ UNCHANGED <<fitted, next, gate, resetPending, active, allowed, run, fx, shown>>
        /\ phase = "input" /\ phase' = "idle" /\ ~Painting
    BY <1>11 DEF Skip, ring
  <2>2. ~Asked
    BY <2>1 DEF Armed, Asked, Painting
  <2>. QED BY <2>1, <2>2 DEF Armed, Asked
<1>12. CASE FinishFrame
  <2>1. /\ UNCHANGED <<fitted, gate, resetPending, active, allowed, run, fx, shown>>
        /\ phase = "painted" /\ phase' = "idle"
    BY <1>12 DEF FinishFrame, ring
  <2>2. ASSUME active, NEW e \in fitted.effects, run[e].animating
        PROVE  next' # NoDeadline
    <3>1. SceneAnimating
      BY <2>1, <2>2 DEF Armed, SceneAnimating
    <3>2. next' \in Int /\ next' > now
      BY <1>12, <3>1, FrameAhead
    <3>. QED BY <3>2 DEF Typed, NoDeadline
  <2>. QED BY <2>1, <2>2 DEF Armed, Asked
<1>13. CASE ReportDropped \/ UNCHANGED vars
  BY <1>1, <1>13 DEF ReportDropped, TakeDropped, frames, vars, ring, history
<1>. QED
  BY <1>2, <1>3, <1>4, <1>5, <1>6, <1>7, <1>8, <1>9, <1>10, <1>11, <1>12, <1>13 DEF Next

(* The deadline stays on its animation's grid, ahead of the last frame and *)
(* within a tick of it, and whatever evolves has its next frame planned,   *)
(* whenever keys, repaints, slow frames and switches come.                 *)
THEOREM FramesStayPaced == Spec => []FramesPaced
<1>1. Typed /\ OnGrid /\ Armed /\ [Next]_vars => (Typed /\ OnGrid /\ Armed)'
  BY PacedStep, ArmedStep
<1>2. Typed /\ OnGrid /\ Armed => FramesPaced
  BY DEF OnGrid, Armed, Asked, FramesPaced
<1>. QED BY PacedInit, <1>1, <1>2, PTL DEF Spec

-----------------------------------------------------------------------------
(* The clock that the halves share *)

LEMMA RemainderUnique ==
    ASSUME NEW W \in Nat \ {0}, NEW q \in Int, NEW r \in 0 .. W - 1
    PROVE  (q * W + r) % W = r
OBVIOUS

LEMMA RemainderSplits ==
    ASSUME NEW W \in Nat \ {0}, NEW a \in Int
    PROVE  /\ a % W \in 0 .. W - 1
           /\ \E q \in Int : a = q * W + (a % W)
<1>1. a % W \in 0 .. W - 1 /\ a \div W \in Int /\ a = W * (a \div W) + (a % W)
  OBVIOUS
<1>2. W * (a \div W) = (a \div W) * W
  BY <1>1
<1>. QED BY <1>1, <1>2

(* Adding a multiple of the wrap makes no difference. *)
LEMMA RemainderShifts ==
    ASSUME NEW W \in Nat \ {0}, NEW a \in Int, NEW q \in Int
    PROVE  (a + q * W) % W = a % W
<1>1. PICK p \in Int : a = p * W + (a % W)
  BY RemainderSplits
<1>. DEFINE r == a % W
<1>2. r \in 0 .. W - 1 /\ a = p * W + r
  BY <1>1, RemainderSplits
<1>. HIDE DEF r
<1>3. a + q * W = (p + q) * W + r
  BY <1>2
<1>4. ((p + q) * W + r) % W = r
  BY <1>2, RemainderUnique
<1>. QED BY <1>3, <1>4 DEF r

(* The wrap of the parts of a sum makes no difference. *)
LEMMA RemainderOfSum ==
    ASSUME NEW W \in Nat \ {0}, NEW a \in Int, NEW b \in Int
    PROVE  /\ (a + (b % W)) % W = (a + b) % W
           /\ ((a % W) - (b % W)) % W = (a - b) % W
<1>1. PICK p \in Int : a = p * W + (a % W)
  BY RemainderSplits
<1>2. PICK q \in Int : b = q * W + (b % W)
  BY RemainderSplits
<1>. DEFINE r == a % W
            t == b % W
<1>3. r \in Int /\ t \in Int /\ a = p * W + r /\ b = q * W + t
  BY <1>1, <1>2, RemainderSplits
<1>. HIDE DEF r, t
<1>4. a + b = (a + t) + q * W /\ a - b = (r - t) + (p - q) * W
  BY <1>3
<1>. DEFINE sum == a + t
            difference == r - t
            turns == p - q
<1>5. sum \in Int /\ difference \in Int /\ turns \in Int
  BY <1>3
<1>. HIDE DEF sum, difference, turns
<1>6. (sum + q * W) % W = sum % W /\ (difference + turns * W) % W = difference % W
  BY <1>5, RemainderShifts
<1>. QED BY <1>4, <1>6 DEF r, t, sum, difference, turns

OffsetTyped == offset \in Int /\ lag \in Int

(* With the offset of a clock command, this half's clock is the central's  *)
(* less the command's delay.                                               *)
LEMMA ClockFollows ==
    ASSUME OffsetTyped, OffsetHolds, now \in Int
    PROVE  Clock = IF lag = Unsynced THEN Clock ELSE (now + CentralAhead - lag) % ClockWrap
<1>1. CASE lag # Unsynced
  <2>1. /\ offset = (CentralAhead - lag) % ClockWrap /\ CentralAhead - lag \in Int
    BY <1>1, ClockAssumption DEF OffsetHolds, OffsetTyped
  <2>. DEFINE ahead == CentralAhead - lag
  <2>2. (now + (ahead % ClockWrap)) % ClockWrap = (now + ahead) % ClockWrap
    BY <2>1, ClockAssumption, RemainderOfSum
  <2>3. now + ahead = now + CentralAhead - lag
    BY ClockAssumption DEF OffsetTyped
  <2>. QED BY <1>1, <2>1, <2>2, <2>3 DEF Clock
<1>. QED BY <1>1

LEMMA OffsetSet ==
    ASSUME Typed, NEW late \in 0 .. MaxLag, ClockCommand(late)
    PROVE  OffsetTyped' /\ OffsetHolds'
<1>. DEFINE told == now + CentralAhead - late
<1>1. told \in Int /\ now \in Int /\ late \in Int /\ ClockWrap \in Nat \ {0}
  BY ClockAssumption DEF Typed
<1>2. offset' = ((told % ClockWrap) - (now % ClockWrap)) % ClockWrap /\ lag' = late
  BY DEF ClockCommand
<1>. HIDE DEF told
<1>3. offset' = (told - now) % ClockWrap
  BY <1>1, <1>2, RemainderOfSum
<1>4. told - now = CentralAhead - late
  BY <1>1, ClockAssumption DEF told
<1>5. (CentralAhead - late) % ClockWrap \in Int
  BY <1>1, ClockAssumption
<1>. QED BY <1>1, <1>2, <1>3, <1>4, <1>5 DEF OffsetTyped, OffsetHolds

InStep == OffsetTyped /\ OffsetHolds /\ HalvesInStep

LEMMA InStepInit == Init => InStep
<1>1. ASSUME NEW e, e.kind = "cycle" PROVE Zero(e) = [phase |-> 0] /\ Blank(e) = [phase |-> 0]
  BY <1>1 DEF Zero, Blank, HitKinds, RainKinds
<1>. QED BY <1>1 DEF Init, InStep, OffsetTyped, OffsetHolds, HalvesInStep, Unsynced

LEMMA InStepStep == Typed /\ InStep /\ [Next]_vars => InStep'
<1>. SUFFICES ASSUME Typed, InStep, [Next]_vars PROVE InStep'
  OBVIOUS
<1>. USE DEF InStep
<1>1. CASE UNCHANGED <<fitted, fx, promise, offset, lag>>
  BY <1>1 DEF OffsetTyped, OffsetHolds, HalvesInStep
<1>2. ASSUME NEW late \in 0 .. MaxLag, ClockCommand(late) PROVE InStep'
  <2>1. UNCHANGED <<fitted, fx, promise>>
    BY <1>2 DEF ClockCommand
  <2>. QED BY <1>2, <2>1, OffsetSet DEF HalvesInStep
<1>3. ASSUME NEW repaint \in BOOLEAN, StartPass(repaint) PROVE InStep'
  <2>1. UNCHANGED <<fitted, offset, lag>>
    BY <1>3 DEF StartPass
  <2>2. ASSUME NEW e \in fitted.effects, e.kind = "cycle"
        PROVE  fx'[e].phase = promise'[e].phase
    <3>1. /\ fx'[e] = IF resetPending THEN Zero(e) ELSE fx[e]
          /\ promise'[e] = IF resetPending THEN Blank(e) ELSE promise[e]
      BY <1>3, <2>2 DEF StartPass, Deactivated, EventKinds, HitKinds
    <3>2. Zero(e) = [phase |-> 0] /\ Blank(e) = [phase |-> 0]
      BY <2>2 DEF Zero, Blank, HitKinds, RainKinds
    <3>. QED BY <2>2, <3>1, <3>2 DEF HalvesInStep
  <2>. QED BY <2>1, <2>2 DEF OffsetTyped, OffsetHolds, HalvesInStep
<1>4. CASE Deliver
  <2>1. UNCHANGED <<fitted, offset, lag>>
    BY <1>4 DEF Deliver
  <2>2. ASSUME NEW e \in fitted.effects, e.kind = "cycle"
        PROVE  fx'[e] = fx[e] /\ promise'[e] = promise[e]
    <3>1. OnEvent(e, fx[e], slots[tail]).data = fx[e]
      BY <2>2 DEF OnEvent, HitKinds
    <3>2. Heard(e, promise[e], slots[tail]) = promise[e]
      BY <2>2 DEF Heard
    <3>. QED BY <1>4, <2>2, <3>1, <3>2 DEF Deliver
  <2>. QED BY <2>1, <2>2 DEF OffsetTyped, OffsetHolds, HalvesInStep
<1>5. CASE Paint
  <2>1. UNCHANGED <<fitted, offset, lag>>
    BY <1>5 DEF Paint
  <2>2. CASE ~gate
    BY <1>1, <1>5, <2>1, <2>2 DEF Paint
  <2>3. CASE gate
    <3>1. PICK roll :
            /\ fx' = [e \in fitted.effects |-> Render(e, fx[e], FrameFor(e), roll[e])]
            /\ promise' = [e \in fitted.effects |->
                 Promised(e, promise[e], PromiseFrame(e), run[e].last, arrived, roll[e])]
      BY <1>5, <2>3 DEF Paint
    <3>2. ASSUME NEW e \in fitted.effects, e.kind = "cycle"
          PROVE  fx'[e].phase = promise'[e].phase
      <4>1. fx'[e].phase = FrameFor(e).clock % e.period
        BY <3>1, <3>2 DEF Render, ClockPhase, HitKinds, RainKinds
      <4>2. promise'[e].phase = PromiseFrame(e).clock % e.period
        BY <3>1, <3>2 DEF Promised, HitKinds, RainKinds
      <4>3. FrameFor(e).clock = Clock
        BY DEF FrameFor
      <4>4. PromiseFrame(e).clock = Clock
        BY ClockFollows DEF PromiseFrame, Typed
      <4>. QED BY <4>1, <4>2, <4>3, <4>4
    <3>. QED BY <2>1, <3>2 DEF OffsetTyped, OffsetHolds, HalvesInStep
  <2>. QED BY <2>2, <2>3
<1>6. CASE Elapse
  BY <1>1, <1>6 DEF Elapse, history
<1>7. ASSUME NEW ev \in Events, KeyEvent(ev) PROVE InStep'
  BY <1>1, <1>7 DEF KeyEvent, history
<1>8. CASE SwitchOutput
  BY <1>1, <1>8 DEF SwitchOutput
<1>9. CASE SwitchGate \/ RequestReset
  BY <1>1, <1>9 DEF SwitchGate, RequestReset, history
<1>10. CASE Skip \/ FinishFrame
  BY <1>1, <1>10 DEF Skip, FinishFrame
<1>11. CASE ReportDropped \/ UNCHANGED vars
  BY <1>1, <1>11 DEF ReportDropped, frames, vars
<1>. QED
  BY <1>2, <1>3, <1>4, <1>5, <1>6, <1>7, <1>8, <1>9, <1>10, <1>11 DEF Next

(* The effects of the shared clock show the central's phase less the last  *)
(* clock command's delay, across the wrap of either clock.                 *)
THEOREM ClocksAgree == Spec => []HalvesInStep
<1>1. Typed /\ OnGrid /\ InStep /\ [Next]_vars => (Typed /\ OnGrid /\ InStep)'
  BY PacedStep, InStepStep
<1>2. InStep => HalvesInStep
  BY DEF InStep
<1>. QED BY PacedInit, InStepInit, <1>1, <1>2, PTL DEF Spec

-----------------------------------------------------------------------------
(* Induction over numbers, for a set *)

LEMMA AllNumbers ==
    ASSUME NEW S, \A n \in Nat : (\A m \in Nat : m < n => m \in S) => n \in S,
           NEW k \in Nat
    PROVE  k \in S
<1>. DEFINE below == {pair \in Nat \X Nat : pair[1] < pair[2]}
            rest == Nat \ S
<1>1. IsWellFoundedOn(below, Nat)
  BY NatLessThanWellFounded DEF OpToRel
<1>2. ASSUME rest # {} PROVE FALSE
  <2>1. PICK n \in rest : \A m \in rest : <<m, n>> \notin below
    <3>. HIDE DEF below
    <3>1. rest \subseteq Nat
      OBVIOUS
    <3>. HIDE DEF rest
    <3>. QED BY <1>1, <1>2, <3>1, WFMin
  <2>2. \A m \in Nat : m < n => m \in S
    BY <2>1
  <2>. QED BY <2>2
<1>. QED BY <1>2

-----------------------------------------------------------------------------
(* Distances and shares *)

LEMMA QuotientBound ==
    ASSUME NEW x \in Nat, NEW w \in Nat, NEW r \in Nat \ {0}, x <= w * r
    PROVE  x \div r \in 0 .. w
<1>. DEFINE q == x \div r
<1>1. q \in Nat /\ q * r <= x
  OBVIOUS
<1>2. ASSUME q > w PROVE FALSE
  <2>. HIDE DEF q
  <2>1. PICK k \in Nat : q = w + 1 + k
    <3>1. q - (w + 1) \in Nat /\ q = w + 1 + (q - (w + 1))
      BY <1>1, <1>2
    <3>. QED BY <3>1
  <2>2. q * r = w * r + r + k * r /\ k * r \in Nat
    BY <2>1
  <2>. QED BY <1>1, <2>2
<1>. HIDE DEF q
<1>3. q \in 0 .. w
  BY <1>1, <1>2
<1>. QED BY <1>3 DEF q

LEMMA RootExists ==
    ASSUME NEW n \in Nat
    PROVE  \E r \in 0 .. n : r * r <= n /\ (r + 1) * (r + 1) > n
<1>. DEFINE S == {m \in Nat : \E r \in 0 .. m : r * r <= m /\ (r + 1) * (r + 1) > m}
<1>1. ASSUME NEW m \in Nat, \A k \in Nat : k < m => k \in S PROVE m \in S
  <2>1. CASE m = 0
    BY <2>1
  <2>2. CASE m # 0
    <3>1. m - 1 \in S
      <4>. HIDE DEF S
      <4>. QED BY <1>1, <2>2
    <3>2. PICK r \in 0 .. (m - 1) : r * r <= m - 1 /\ (r + 1) * (r + 1) > m - 1
      BY <3>1
    <3>3. CASE (r + 1) * (r + 1) > m
      BY <3>2, <3>3
    <3>4. CASE (r + 1) * (r + 1) <= m
      <4>1. (r + 1 + 1) * (r + 1 + 1) = (r + 1) * (r + 1) + 2 * r + 3
        BY <3>2
      <4>2. r + 1 \in 0 .. m /\ (r + 1 + 1) * (r + 1 + 1) > m
        BY <3>2, <4>1
      <4>. QED BY <3>4, <4>2
    <3>. QED BY <3>2, <3>3, <3>4
  <2>. QED BY <2>1, <2>2
<1>2. n \in S
  <2>. HIDE DEF S
  <2>. QED BY <1>1, AllNumbers
<1>. QED BY <1>2

LEMMA FalloffRange ==
    ASSUME NEW e, e.radius \in Nat, NEW whole \in Nat, NEW d, d[1] \in Int, d[2] \in Int
    PROVE  Falloff(e, whole, d) \in 0 .. whole
<1>. DEFINE squared == Squared(d)
            r == Distance(squared)
            n == e.radius
<1>1. squared \in Nat
  <2>1. \A i \in Int : i * i \in Nat
    OBVIOUS
  <2>. QED BY <2>1 DEF Squared
<1>2. r \in Nat /\ r * r <= squared
  <2>. HIDE DEF squared
  <2>1. \E q \in 0 .. squared : q * q <= squared /\ (q + 1) * (q + 1) > squared
    BY <1>1, RootExists
  <2>2. /\ Distance(squared) \in 0 .. squared
        /\ Distance(squared) * Distance(squared) <= squared
        /\ (Distance(squared) + 1) * (Distance(squared) + 1) > squared
    BY <2>1, Zenon DEF Distance
  <2>. QED BY <1>1, <2>2
<1>3. CASE squared >= n * n
  BY <1>3 DEF Falloff
<1>4. CASE ~(squared >= n * n)
  <2>1. Falloff(e, whole, d) = (whole * (n - r)) \div n
    BY <1>4 DEF Falloff
  <2>. HIDE DEF squared, r, n
  <2>2. n \in Nat
    BY DEF n
  <2>3. r < n
    <3>1. ASSUME r >= n PROVE r * r >= n * n
      <4>1. PICK k \in Nat : r = n + k
        <5>1. r - n \in Nat /\ r = n + (r - n)
          BY <1>2, <2>2, <3>1
        <5>. QED BY <5>1
      <4>2. r * r = n * n + 2 * (n * k) + k * k /\ n * k \in Nat /\ k * k \in Nat
        BY <2>2, <4>1
      <4>. QED BY <2>2, <4>2
    <3>. QED BY <1>1, <1>2, <1>4, <2>2, <3>1
  <2>4. whole * (n - r) \in Nat /\ whole * (n - r) <= whole * n
    <3>1. n - r \in Nat /\ whole * (n - r) = whole * n - whole * r /\ whole * r \in Nat
      BY <1>2, <2>2, <2>3
    <3>. QED BY <2>2, <3>1
  <2>. DEFINE share == whole * (n - r)
  <2>5. share \in Nat /\ share <= whole * n /\ n \in Nat \ {0}
    BY <1>2, <2>2, <2>3, <2>4
  <2>. HIDE DEF share
  <2>6. share \div n \in 0 .. whole
    BY <2>5, QuotientBound
  <2>. QED BY <2>1, <2>6 DEF share
<1>. QED BY <1>3, <1>4

(* A hit adds no less than nothing, and one that replaces the others no    *)
(* more than the full level.                                               *)
LEMMA ContributionRange ==
    ASSUME NEW e, e.kind \in HitKinds, HitEffect(e), NEW led \in Leds, NEW l \in Leds
    PROVE  Contribution(e, led, l) \in Nat /\ (~Adds(e) => Contribution(e, led, l) <= Peak)
<1>. DEFINE d == Offset(led, l)
<1>1. d[1] \in Int /\ d[2] \in Int
  BY CoordAssumption DEF Offset, Leds
<1>. HIDE DEF d
<1>2. CASE e.kind = "heatmap"
  <2>1. Falloff(e, e.step, d) \in Nat
    BY <1>1, <1>2, FalloffRange DEF HitEffect
  <2>. QED BY <1>2, <2>1 DEF Contribution, HeatShape, HitEffect, Least, Adds, d
<1>3. CASE e.kind = "reactive"
  <2>. DEFINE ax == Abs(d[1])
              ay == Abs(d[2])
  <2>1. ax \in Nat /\ ay \in Nat /\ Peak \in Nat
    BY <1>1, SizesAssumption DEF Abs
  <2>2. Falloff(e, Peak, d) \in 0 .. Peak
    BY <1>1, <2>1, FalloffRange DEF HitEffect
  <2>. DEFINE reach == Least(ax, ay) - e.tol
  <2>3. ASSUME ~(reach < 0 \/ reach >= e.radius), e.spread = "nexus"
        PROVE  (Peak * (e.radius - reach)) \div e.radius \in 0 .. Peak
    <3>1. reach \in Int /\ e.radius \in Nat
      <4>. HIDE DEF ax, ay
      <4>. QED BY <1>3, <2>1 DEF HitEffect, Least
    <3>. HIDE DEF reach
    <3>. DEFINE r == e.radius
    <3>2. r \in Nat \ {0} /\ r - reach \in Nat /\ reach \in Nat
      BY <2>3, <3>1
    <3>. HIDE DEF r
    <3>3. Peak * (r - reach) \in Nat /\ Peak * (r - reach) <= Peak * r
      <4>1. Peak * (r - reach) = Peak * r - Peak * reach /\ Peak * reach \in Nat
        BY <2>1, <3>2
      <4>. QED BY <2>1, <3>2, <4>1
    <3>4. (Peak * (r - reach)) \div r \in 0 .. Peak
      BY <2>1, <3>2, <3>3, QuotientBound
    <3>. QED BY <3>4 DEF r
  <2>4. Contribution(e, led, l) = ReactiveShape(e, led, l)
    BY <1>3 DEF Contribution
  <2>5. ReactiveShape(e, led, l) \in 0 .. Peak
    <3>1. CASE e.spread = "point"
      BY <2>1, <3>1 DEF ReactiveShape
    <3>2. CASE e.spread = "disc"
      BY <2>2, <3>2 DEF ReactiveShape, d
    <3>3. CASE e.spread = "cross"
      BY <2>1, <3>3 DEF ReactiveShape
    <3>4. CASE e.spread = "nexus"
      <4>1. ReactiveShape(e, led, l) =
              IF reach < 0 \/ reach >= e.radius THEN 0
              ELSE (Peak * (e.radius - reach)) \div e.radius
        BY <3>4 DEF ReactiveShape, d
      <4>. HIDE DEF reach
      <4>. QED BY <2>1, <2>3, <3>4, <4>1
    <3>. QED BY <1>3, <3>1, <3>2, <3>3, <3>4 DEF HitEffect
  <2>. QED BY <2>1, <2>4, <2>5
<1>. QED BY <1>2, <1>3 DEF HitKinds

-----------------------------------------------------------------------------
(* Fading *)

(* What a level is with what it has lost of itself, in parts of a level:   *)
(* divisor of them to a level.                                             *)
Faint(level, rem, divisor) ==
    /\ level \in Nat /\ rem \in 0 .. divisor - 1
    /\ level = 0 => rem = 0

LEMMA QuotientIs ==
    ASSUME NEW q \in Int, NEW n \in Nat \ {0}, NEW r \in 0 .. n - 1
    PROVE  (q * n + r) \div n = q /\ (q * n + r) % n = r
OBVIOUS

LEMMA QuotientSplits ==
    ASSUME NEW x \in Nat, NEW n \in Nat \ {0}
    PROVE  /\ x \div n \in Nat /\ x % n \in 0 .. n - 1
           /\ x = (x \div n) * n + (x % n)
<1>1. x = n * (x \div n) + (x % n) /\ x \div n \in Nat /\ x % n \in 0 .. n - 1
  OBVIOUS
<1>. QED BY <1>1

LEMMA LevelShown ==
    ASSUME NEW n \in Nat \ {0}, NEW level, NEW rem, Faint(level, rem, n)
    PROVE  /\ level * n - rem \in Nat
           /\ (level * n - rem + n - 1) \div n = level
           /\ level * n - rem = 0 <=> level = 0
<1>1. level \in Nat /\ rem \in 0 .. n - 1 /\ n - 1 - rem \in 0 .. n - 1
  BY DEF Faint
<1>2. (level * n + (n - 1 - rem)) \div n = level
  <2>. DEFINE r == n - 1 - rem
  <2>1. level \in Int /\ r \in 0 .. n - 1
    BY <1>1
  <2>. HIDE DEF r
  <2>2. (level * n + r) \div n = level
    BY ONLY <2>1, n \in Nat \ {0}, QuotientIs
  <2>. QED BY <2>2 DEF r
<1>3. level * n - rem + n - 1 = level * n + (n - 1 - rem)
  BY <1>1
<1>4. CASE level = 0
  BY <1>2, <1>3, <1>4 DEF Faint
<1>5. CASE level # 0
  <2>1. PICK k \in Nat : level = k + 1
    <3>1. level - 1 \in Nat /\ level = (level - 1) + 1
      BY <1>1, <1>5
    <3>. QED BY <3>1
  <2>2. level * n = k * n + n /\ k * n \in Nat
    BY <2>1
  <2>. QED BY <1>1, <1>2, <1>3, <1>5, <2>2
<1>. QED BY <1>4, <1>5

(* A slice takes away exactly its parts, as long as there are any.         *)
LEMMA DecayExact ==
    ASSUME NEW n \in Nat \ {0}, NEW level, NEW rem, Faint(level, rem, n), NEW scaled \in Nat
    PROVE  LET d == Decay(level, rem, scaled, n)
           IN  /\ Faint(d.level, d.rem, n) /\ d.level <= level
               /\ d.level * n - d.rem = Most(0, (level * n - rem) - scaled)
<1>. DEFINE total == scaled + rem
            loss == total \div n
            rest == total % n
            d == Decay(level, rem, scaled, n)
<1>1. level \in Nat /\ rem \in 0 .. n - 1 /\ total \in Nat
  BY DEF Faint
<1>2. d = IF loss >= level THEN [level |-> 0, rem |-> 0]
          ELSE [level |-> level - loss, rem |-> rest]
  BY DEF Decay
<1>3. loss \in Nat /\ rest \in 0 .. n - 1 /\ total = loss * n + rest
  <2>. HIDE DEF total
  <2>. QED BY <1>1, QuotientSplits
<1>4. (level * n - rem) - scaled = level * n - total /\ level * n \in Nat
  BY <1>1
<1>. HIDE DEF total, loss, rest, d
<1>5. CASE loss >= level
  <2>1. loss * n >= level * n
    <3>1. PICK k \in Nat : loss = level + k
      <4>1. loss - level \in Nat /\ loss = level + (loss - level)
        BY <1>1, <1>3, <1>5
      <4>. QED BY <4>1
    <3>2. loss * n = level * n + k * n /\ k * n \in Nat
      BY <1>1, <3>1
    <3>. QED BY <1>4, <3>2
  <2>2. loss * n \in Nat
    BY <1>3
  <2>3. Most(0, level * n - total) = 0
    BY <1>1, <1>3, <1>4, <2>1, <2>2 DEF Most
  <2>4. d.level = 0 /\ d.rem = 0
    BY <1>2, <1>5
  <2>. QED BY <1>1, <1>4, <2>3, <2>4 DEF Faint, d
<1>6. CASE ~(loss >= level)
  <2>1. PICK k \in Nat : level = loss + 1 + k
    <3>1. level - (loss + 1) \in Nat /\ level = loss + 1 + (level - (loss + 1))
      BY <1>1, <1>3, <1>6
    <3>. QED BY <3>1
  <2>2. level * n = loss * n + n + k * n /\ (level - loss) * n = n + k * n
        /\ loss * n \in Nat /\ k * n \in Nat
    BY <1>3, <2>1
  <2>3. d.level = level - loss /\ d.rem = rest
    BY <1>2, <1>6
  <2>4. level * n - total = n + k * n - rest
    BY <1>3, <2>2
  <2>5. Most(0, level * n - total) = n + k * n - rest
    BY <1>3, <2>2, <2>4 DEF Most
  <2>6. d.level * n - d.rem = n + k * n - rest
    <3>1. d.level \in Nat /\ d.level * n = n + k * n
      BY <1>3, <2>1, <2>2, <2>3
    <3>2. d.rem = rest /\ rest \in Nat
      BY <1>3, <2>3
    <3>. QED BY <2>2, <3>1, <3>2
  <2>7. Faint(d.level, d.rem, n) /\ d.level <= level
    BY <1>1, <1>3, <2>1, <2>3 DEF Faint
  <2>. QED BY <1>4, <2>5, <2>6, <2>7 DEF d
<1>. QED BY <1>5, <1>6

(* Fading in two slices is fading in one. *)
LEMMA SlicesAdd ==
    ASSUME NEW n \in Nat \ {0}, NEW level, NEW rem, Faint(level, rem, n),
           NEW a \in Nat, NEW b \in Nat
    PROVE  LET first == Decay(level, rem, a, n)
           IN  Decay(first.level, first.rem, b, n) = Decay(level, rem, a + b, n)
<1>. DEFINE first == Decay(level, rem, a, n)
            second == Decay(first.level, first.rem, b, n)
            whole == Decay(level, rem, a + b, n)
<1>1. /\ Faint(first.level, first.rem, n)
      /\ first.level * n - first.rem = Most(0, (level * n - rem) - a)
  BY DecayExact
<1>2. /\ Faint(second.level, second.rem, n)
      /\ second.level * n - second.rem = Most(0, (first.level * n - first.rem) - b)
  <2>. DEFINE mid == first.level
              part == first.rem
  <2>1. Faint(mid, part, n)
    BY <1>1
  <2>. HIDE DEF first, mid, part
  <2>2. LET d == Decay(mid, part, b, n)
        IN  /\ Faint(d.level, d.rem, n)
            /\ d.level <= mid
            /\ d.level * n - d.rem = Most(0, (mid * n - part) - b)
    BY <2>1, DecayExact
  <2>. QED BY <2>2 DEF mid, part
<1>3. /\ Faint(whole.level, whole.rem, n)
      /\ whole.level * n - whole.rem = Most(0, (level * n - rem) - (a + b))
  <2>1. a + b \in Nat
    OBVIOUS
  <2>. QED BY <2>1, DecayExact
<1>4. /\ second = [level |-> second.level, rem |-> second.rem]
      /\ whole = [level |-> whole.level, rem |-> whole.rem]
  BY DEF Decay
<1>. HIDE DEF first, second, whole
<1>5. second.level * n - second.rem = whole.level * n - whole.rem
  <2>1. level * n - rem \in Nat
    BY LevelShown
  <2>. QED BY <1>1, <1>2, <1>3, <2>1 DEF Most
<1>6. second.level = whole.level
  BY <1>2, <1>3, <1>5, LevelShown
<1>7. second.rem = whole.rem
  BY <1>2, <1>3, <1>5, <1>6 DEF Faint
<1>. QED BY <1>4, <1>6, <1>7 DEF first, second, whole

-----------------------------------------------------------------------------
(* The data of a hit effect and its promise *)

Hits == [led : Leds, pressed : {TRUE}, at : Nat]
HitData == [pending : Seq(Hits), level : [Leds -> Nat], rem : [Leds -> Nat]]
HitPromises == [value : [Leds -> Nat], at : Nat]

Fading(e, d) ==
    /\ d \in HitData
    /\ \A l \in Leds : Faint(d.level[l], d.rem[l], e.period) /\ d.level[l] <= Peak

(* At time t the data are what is left of the promise. *)
Keeps(e, d, p, t) ==
    /\ p.at <= t
    /\ \A l \in Leds : d.level[l] * e.period - d.rem[l] = Residue(e, p.value[l], t - p.at)

LEMMA TimesGrows ==
    ASSUME NEW a \in Nat, NEW b \in Nat, NEW k \in Nat, a <= b
    PROVE  a * k \in Nat /\ a * k <= b * k
<1>1. PICK c \in Nat : b = a + c
  <2>1. b - a \in Nat /\ b = a + (b - a)
    OBVIOUS
  <2>. QED BY <2>1
<1>2. b * k = a * k + c * k /\ c * k \in Nat /\ a * k \in Nat
  BY <1>1
<1>. QED BY <1>2

LEMMA FadeFacts ==
    ASSUME NEW e, e.kind \in HitKinds, HitEffect(e)
    PROVE  /\ e.period \in Nat \ {0} /\ Peak \in Nat \ {0}
           /\ FadeScale(e) \in Nat \ {0} /\ FadeSpan(e) \in Nat
           /\ FadeScale(e) * FadeSpan(e) = Peak * e.period
<1>1. e.period \in Nat \ {0} /\ Peak \in Nat \ {0}
  BY SizesAssumption DEF HitEffect
<1>2. Peak * e.period \in Nat
  BY <1>1
<1>. QED BY <1>1, <1>2 DEF FadeScale, FadeSpan

LEMMA ShownAsPromised ==
    ASSUME NEW e, e.kind \in HitKinds, HitEffect(e), NEW d, Fading(e, d),
           NEW p, NEW t, Keeps(e, d, p, t)
    PROVE  \A l \in Leds : /\ d.level[l] = HitLevel(e, p, l, t)
                           /\ d.level[l] \in Nat
                           /\ Residue(e, p.value[l], t - p.at) \in Nat
                           /\ d.level[l] = 0 => d.rem[l] = 0
<1>. TAKE l \in Leds
<1>. DEFINE level == d.level[l]
            rem == d.rem[l]
            n == e.period
            left == Residue(e, p.value[l], t - p.at)
<1>1. Faint(level, rem, n) /\ n \in Nat \ {0}
  BY FadeFacts DEF Fading
<1>2. left = level * n - rem
  BY DEF Keeps
<1>3. HitLevel(e, p, l, t) = (left + n - 1) \div n
  BY DEF HitLevel, LevelOf
<1>. HIDE DEF level, rem, n, left
<1>4. level \in Nat /\ (level = 0 => rem = 0) /\ left \in Nat /\ (left + n - 1) \div n = level
  BY <1>1, <1>2, LevelShown DEF Faint
<1>. QED BY <1>3, <1>4 DEF level, rem, n, left

LEMMA AdvanceKeeps ==
    ASSUME NEW e, e.kind \in HitKinds, HitEffect(e), NEW d, Fading(e, d),
           NEW p \in HitPromises, NEW t \in Nat, Keeps(e, d, p, t), NEW elapsed \in Nat
    PROVE  LET f == HitAdvance(e, d, elapsed)
           IN  Fading(e, f) /\ Keeps(e, f, p, t + elapsed) /\ f.pending = d.pending
<1>. DEFINE n == e.period
            scale == FadeScale(e)
            span == FadeSpan(e)
            f == HitAdvance(e, d, elapsed)
            scaled == scale * Least(elapsed, span)
            left(l) == Decay(d.level[l], d.rem[l], scaled, n)
<1>1. /\ n \in Nat \ {0} /\ Peak \in Nat \ {0} /\ scale \in Nat \ {0} /\ span \in Nat
      /\ scale * span = Peak * n
  BY FadeFacts
<1>2. d \in HitData /\ p.at \in Nat /\ p.at <= t
  BY DEF Fading, HitPromises, Keeps
<1>3. CASE elapsed = 0
  <2>1. f = d /\ t + elapsed = t
    BY <1>3 DEF HitAdvance
  <2>. QED BY <2>1
<1>4. CASE elapsed # 0
  <2>1. f = [d EXCEPT !.level = [l \in Leds |-> left(l).level],
                      !.rem = [l \in Leds |-> left(l).rem]]
    <3>1. f = Faded(d, scaled, n)
      BY <1>4 DEF HitAdvance
    <3>2. Faded(d, scaled, n) = [d EXCEPT
             !.level = [l \in Leds |-> [k \in Leds |-> left(k)][l].level],
             !.rem = [l \in Leds |-> [k \in Leds |-> left(k)][l].rem]]
      BY DEF Faded
    <3>3. \A l \in Leds : [k \in Leds |-> left(k)][l] = left(l)
      OBVIOUS
    <3>. HIDE DEF left, f, scaled
    <3>. QED BY <3>1, <3>2, <3>3
  <2>2. Least(elapsed, span) \in Nat /\ scaled \in Nat
    <3>1. Least(elapsed, span) \in Nat
      BY <1>1 DEF Least
    <3>. HIDE DEF scale
    <3>. QED BY <1>1, <3>1
  <2>3. ASSUME NEW l \in Leds
        PROVE  /\ Faint(left(l).level, left(l).rem, n)
               /\ left(l).level <= Peak
               /\ left(l).level * n - left(l).rem = Residue(e, p.value[l], (t + elapsed) - p.at)
    <3>. DEFINE level == d.level[l]
                rem == d.rem[l]
                value == p.value[l]
                parts == level * n - rem
                past == t - p.at
    <3>1. /\ Faint(level, rem, n) /\ level <= Peak
          /\ value \in Nat /\ past \in Nat
          /\ parts = Most(0, value - scale * past)
      BY <1>2 DEF Fading, HitPromises, Keeps, Residue
    <3>2. (t + elapsed) - p.at = past + elapsed
      BY <1>2
    <3>3. Residue(e, p.value[l], (t + elapsed) - p.at) = Most(0, value - scale * (past + elapsed))
      BY <3>2 DEF Residue
    <3>4. left(l) = Decay(level, rem, scaled, n)
      OBVIOUS
    <3>. HIDE DEF left, scale, span, scaled, n, level, rem, value, past
    <3>5. /\ Faint(left(l).level, left(l).rem, n) /\ left(l).level <= level
          /\ left(l).level * n - left(l).rem = Most(0, parts - scaled)
      <4>1. LET g == Decay(level, rem, scaled, n)
            IN  /\ Faint(g.level, g.rem, n) /\ g.level <= level
                /\ g.level * n - g.rem = Most(0, (level * n - rem) - scaled)
        <5>1. n \in Nat \ {0} /\ Faint(level, rem, n) /\ scaled \in Nat
          BY <1>1, <2>2, <3>1
        <5>. QED BY <5>1, DecayExact
      <4>. QED BY <3>4, <4>1
    <3>6. /\ scale * (past + elapsed) = scale * past + scale * elapsed
          /\ scale * past \in Nat /\ scale * elapsed \in Nat
      BY <1>1, <3>1
    <3>7. Most(0, parts - scaled) = Most(0, value - scale * (past + elapsed))
      <4>1. CASE elapsed <= span
        <5>1. scaled = scale * elapsed
          BY <4>1 DEF scaled, Least
        <5>. HIDE DEF parts
        <5>. QED BY <3>1, <3>6, <5>1 DEF Most
      <4>2. CASE ~(elapsed <= span)
        <5>1. scaled = Peak * n
          BY <1>1, <4>2 DEF scaled, Least
        <5>2. level \in Nat /\ rem \in Nat
          BY <1>1, <3>1 DEF Faint
        <5>3. level * n \in Nat /\ level * n <= Peak * n /\ Peak * n \in Nat
          BY <1>1, <3>1, <5>2, TimesGrows
        <5>4. Peak * n <= scale * elapsed
          <6>1. span * scale <= elapsed * scale
            BY <1>1, <4>2, TimesGrows
          <6>2. span * scale = scale * span /\ elapsed * scale = scale * elapsed
            BY <1>1
          <6>. QED BY <1>1, <6>1, <6>2
        <5>5. parts <= Peak * n /\ parts \in Int
          BY <5>2, <5>3
        <5>. HIDE DEF parts
        <5>. DEFINE full == Peak * n
                    lost == scale * elapsed
                    before == scale * past
        <5>6. /\ full \in Nat /\ lost \in Nat /\ before \in Nat /\ full <= lost
              /\ parts <= full /\ parts = Most(0, value - before)
          BY <3>1, <3>6, <5>3, <5>4, <5>5
        <5>7. Most(0, parts - scaled) = 0
          <6>1. scaled = full
            BY <5>1
          <6>. HIDE DEF full
          <6>. QED BY <5>5, <5>6, <6>1 DEF Most
        <5>8. value - scale * (past + elapsed) = value - (before + lost)
          BY <3>6
        <5>. HIDE DEF full, lost, before
        <5>9. Most(0, value - (before + lost)) = 0
          BY <3>1, <5>6 DEF Most
        <5>. QED BY <5>7, <5>8, <5>9
      <4>. QED BY <4>1, <4>2
    <3>8. left(l).level <= Peak
      <4>1. left(l).level \in Nat /\ level \in Nat
        BY <3>1, <3>5 DEF Faint
      <4>. QED BY <1>1, <3>1, <3>5, <4>1
    <3>. QED BY <3>3, <3>5, <3>7, <3>8 DEF value
  <2>4. /\ f \in HitData /\ f.pending = d.pending
        /\ \A l \in Leds : f.level[l] = left(l).level /\ f.rem[l] = left(l).rem
    <3>1. \A l \in Leds : left(l).level \in Nat /\ left(l).rem \in Nat
      <4>. HIDE DEF left, n
      <4>. QED BY <1>1, <2>3 DEF Faint
    <3>. HIDE DEF left, f
    <3>. QED BY <1>2, <2>1, <3>1 DEF HitData
  <2>. HIDE DEF left, f
  <2>5. p.at <= t + elapsed
    BY <1>2
  <2>6. Fading(e, f)
    BY <2>3, <2>4 DEF Fading
  <2>7. Keeps(e, f, p, t + elapsed)
    <3>1. ASSUME NEW l \in Leds
          PROVE  f.level[l] * e.period - f.rem[l] = Residue(e, p.value[l], (t + elapsed) - p.at)
      <4>1. left(l).level * n - left(l).rem = Residue(e, p.value[l], (t + elapsed) - p.at)
        BY <2>3
      <4>2. f.level[l] = left(l).level /\ f.rem[l] = left(l).rem
        BY <2>4
      <4>. QED BY <4>1, <4>2
    <3>. QED BY <2>5, <3>1 DEF Keeps
  <2>. QED BY <2>4, <2>6, <2>7 DEF f
<1>. QED BY <1>3, <1>4

(* A hit is an addition of parts, or takes the place of what was there.    *)
LEMMA HitApplied ==
    ASSUME NEW n \in Nat \ {0}, NEW level, NEW rem, Faint(level, rem, n), level <= Peak,
           NEW added \in Nat
    PROVE  LET new == Least(Peak, level + added)
           IN  /\ Faint(new, rem, n) /\ new <= Peak
               /\ new * n - rem = (level * n - rem) + n * Least(added, Peak - level)
<1>1. Peak \in Nat \ {0} /\ level \in Nat /\ rem \in 0 .. n - 1 /\ (level = 0 => rem = 0)
  BY SizesAssumption DEF Faint
<1>. DEFINE gain == Least(added, Peak - level)
<1>2. gain \in Nat /\ Least(Peak, level + added) = level + gain /\ level + gain <= Peak
  BY <1>1 DEF Least
<1>. HIDE DEF gain
<1>3. (level + gain) * n = level * n + n * gain /\ level * n \in Nat /\ n * gain \in Nat
  BY <1>1, <1>2
<1>4. Faint(level + gain, rem, n)
  BY <1>1, <1>2 DEF Faint
<1>5. (level + gain) * n - rem = (level * n - rem) + n * gain
  BY <1>1, <1>3
<1>. QED BY <1>2, <1>4, <1>5 DEF gain

LEMMA ApplyKeeps ==
    ASSUME NEW e, e.kind \in HitKinds, HitEffect(e), NEW d, Fading(e, d),
           NEW p \in HitPromises, NEW t \in Nat, Keeps(e, d, p, t), NEW led \in Leds
    PROVE  LET f == HitApply(e, d, led)
               q == Struck(e, p, led, t)
           IN  /\ Fading(e, f) /\ f.pending = d.pending
               /\ q \in HitPromises /\ Keeps(e, f, q, t)
<1>. DEFINE n == e.period
            f == HitApply(e, d, led)
            q == Struck(e, p, led, t)
            added(l) == Contribution(e, led, l)
            left(l) == Residue(e, p.value[l], t - p.at)
<1>1. n \in Nat \ {0} /\ Peak \in Nat \ {0}
  BY FadeFacts
<1>2. \A l \in Leds : added(l) \in Nat /\ (~Adds(e) => added(l) <= Peak)
  BY ContributionRange
<1>3. d \in HitData
  BY DEF Fading
<1>4. /\ q.at = t
      /\ \A l \in Leds : q.value[l] =
            IF Adds(e) THEN left(l) + n * Least(added(l), Peak - LevelOf(e, left(l)))
            ELSE n * added(l)
      /\ q = [value |-> q.value, at |-> t]
      /\ q.value = [l \in Leds |-> q.value[l]]
  BY DEF Struck
<1>5. \A l \in Leds :
         /\ Faint(d.level[l], d.rem[l], n) /\ d.level[l] <= Peak
         /\ left(l) = d.level[l] * n - d.rem[l] /\ left(l) \in Nat
         /\ LevelOf(e, left(l)) = d.level[l]
  <2>1. ASSUME NEW l \in Leds
        PROVE  /\ left(l) = d.level[l] * n - d.rem[l] /\ left(l) \in Nat
               /\ LevelOf(e, left(l)) = d.level[l]
    <3>1. left(l) = d.level[l] * n - d.rem[l]
      BY DEF Keeps
    <3>2. HitLevel(e, p, l, t) = LevelOf(e, left(l))
      BY DEF HitLevel
    <3>. HIDE DEF left
    <3>. QED BY <3>1, <3>2, ShownAsPromised DEF left
  <2>. QED BY <2>1 DEF Fading
<1>. HIDE DEF added, left, q, n
<1>6. CASE Adds(e)
  <2>1. f = [d EXCEPT !.level = [l \in Leds |-> Least(Peak, d.level[l] + added(l))]]
    <3>1. f = [d EXCEPT !.level =
                 [l \in Leds |-> Least(Peak, d.level[l] + [k \in Leds |-> added(k)][l])]]
      BY <1>6 DEF HitApply, added
    <3>2. \A l \in Leds : [k \in Leds |-> added(k)][l] = added(l)
      OBVIOUS
    <3>. QED BY <3>1, <3>2
  <2>2. ASSUME NEW l \in Leds
        PROVE  LET new == Least(Peak, d.level[l] + added(l))
               IN  /\ Faint(new, d.rem[l], n) /\ new <= Peak
                   /\ new * n - d.rem[l] = left(l) + n * Least(added(l), Peak - d.level[l])
                   /\ new \in Nat
    <3>. DEFINE level == d.level[l]
                rem == d.rem[l]
    <3>1. Faint(level, rem, n) /\ level <= Peak /\ left(l) = level * n - rem /\ added(l) \in Nat
      BY <1>2, <1>5
    <3>. HIDE DEF level, rem
    <3>2. LET new == Least(Peak, level + added(l))
          IN  /\ Faint(new, rem, n) /\ new <= Peak
              /\ new * n - rem = (level * n - rem) + n * Least(added(l), Peak - level)
      BY <1>1, <3>1, HitApplied
    <3>. QED BY <3>1, <3>2 DEF level, rem, Faint
  <2>3. /\ f \in HitData /\ f.pending = d.pending
        /\ \A l \in Leds : f.level[l] = Least(Peak, d.level[l] + added(l)) /\ f.rem[l] = d.rem[l]
    <3>1. \A l \in Leds : Least(Peak, d.level[l] + added(l)) \in Nat
      BY <2>2
    <3>. HIDE DEF f
    <3>. QED BY <1>3, <2>1, <3>1 DEF HitData
  <2>4. \A l \in Leds : q.value[l] = left(l) + n * Least(added(l), Peak - d.level[l])
    BY <1>4, <1>5, <1>6
  <2>5. \A l \in Leds : q.value[l] \in Nat
    <3>1. ASSUME NEW l \in Leds PROVE left(l) + n * Least(added(l), Peak - d.level[l]) \in Nat
      <4>1. Least(added(l), Peak - d.level[l]) \in Nat
        BY <1>1, <1>2, <1>5 DEF Least, Faint
      <4>. QED BY <1>1, <1>5, <4>1
    <3>. QED BY <2>4, <3>1
  <2>. HIDE DEF f
  <2>6. Fading(e, f)
    BY <2>2, <2>3 DEF Fading, n
  <2>7. q \in HitPromises
    BY <1>4, <2>5 DEF HitPromises
  <2>8. ASSUME NEW l \in Leds
        PROVE  f.level[l] * n - f.rem[l] = Residue(e, q.value[l], t - q.at)
    <3>1. f.level[l] * n - f.rem[l] = q.value[l]
      BY <2>2, <2>3, <2>4
    <3>2. Residue(e, q.value[l], t - q.at) = q.value[l]
      BY <1>4, <2>5, FadeFacts DEF Residue, Most
    <3>. QED BY <3>1, <3>2
  <2>9. Keeps(e, f, q, t)
    BY <1>4, <2>8 DEF Keeps, n
  <2>. QED BY <2>3, <2>6, <2>7, <2>9 DEF f, q
<1>7. CASE ~Adds(e)
  <2>1. f = [d EXCEPT !.level = [l \in Leds |-> Least(Peak, added(l))], !.rem = AllDark]
    <3>. DEFINE base == [d EXCEPT !.level = AllDark, !.rem = AllDark]
    <3>1. f = [base EXCEPT !.level =
                 [l \in Leds |-> Least(Peak, base.level[l] + [k \in Leds |-> added(k)][l])]]
      BY <1>7 DEF HitApply, added
    <3>2. \A l \in Leds : base.level[l] + [k \in Leds |-> added(k)][l] = added(l)
      BY <1>2, <1>3 DEF AllDark, HitData
    <3>3. f = [base EXCEPT !.level = [l \in Leds |-> Least(Peak, added(l))]]
      <4>. HIDE DEF base, f
      <4>. QED BY <3>1, <3>2
    <3>. QED BY <1>3, <3>3 DEF HitData
  <2>2. \A l \in Leds : Least(Peak, added(l)) = added(l)
    BY <1>1, <1>2, <1>7 DEF Least
  <2>3. /\ f \in HitData /\ f.pending = d.pending
        /\ \A l \in Leds : f.level[l] = added(l) /\ f.rem[l] = 0
    <3>. HIDE DEF f
    <3>. QED BY <1>2, <1>3, <2>1, <2>2 DEF HitData, AllDark
  <2>. HIDE DEF f
  <2>4. Fading(e, f)
    <3>1. ASSUME NEW l \in Leds
          PROVE  Faint(f.level[l], f.rem[l], n) /\ f.level[l] <= Peak
      BY <1>1, <1>2, <1>7, <2>3 DEF Faint
    <3>. QED BY <2>3, <3>1 DEF Fading, n
  <2>5. \A l \in Leds : q.value[l] = n * added(l) /\ n * added(l) \in Nat
    BY <1>1, <1>2, <1>4, <1>7
  <2>6. q \in HitPromises
    BY <1>4, <2>5 DEF HitPromises
  <2>7. ASSUME NEW l \in Leds
        PROVE  f.level[l] * n - f.rem[l] = Residue(e, q.value[l], t - q.at)
    <3>1. f.level[l] * n - f.rem[l] = n * added(l)
      BY <1>1, <1>2, <2>3
    <3>2. Residue(e, q.value[l], t - q.at) = q.value[l]
      BY <1>4, <2>5, FadeFacts DEF Residue, Most
    <3>. QED BY <2>5, <3>1, <3>2
  <2>8. Keeps(e, f, q, t)
    BY <1>4, <2>7 DEF Keeps, n
  <2>. QED BY <2>3, <2>4, <2>6, <2>8 DEF f, q
<1>. QED BY <1>6, <1>7

-----------------------------------------------------------------------------
(* Folds over sequences *)

LEMMA UpTo ==
    ASSUME NEW n \in Nat, NEW S, 0 \in S, \A k \in 1 .. n : k - 1 \in S => k \in S
    PROVE  \A k \in 0 .. n : k \in S
<1>. DEFINE T == {k \in Nat : k <= n => k \in S}
<1>1. ASSUME NEW k \in Nat, \A m \in Nat : m < k => m \in T PROVE k \in T
  <2>1. CASE k = 0
    BY <2>1
  <2>2. CASE k # 0 /\ k <= n
    <3>1. k - 1 \in Nat /\ k - 1 < k /\ k - 1 <= n /\ k \in 1 .. n
      BY <2>2
    <3>2. k - 1 \in T
      BY <1>1, <3>1
    <3>. QED BY <3>1, <3>2
  <2>. QED BY <2>1, <2>2
<1>. HIDE DEF T
<1>2. \A k \in 0 .. n : k \in T
  BY <1>1, AllNumbers
<1>. QED BY <1>2 DEF T

LEMMA MaxExists ==
    ASSUME NEW n \in Nat, NEW s \in SUBSET (1 .. n), s # {}
    PROVE  Max(s) \in s /\ \A y \in s : y <= Max(s)
<1>. DEFINE S == {k \in Nat : \A t \in SUBSET (1 .. k) :
                     t # {} => \E x \in t : \A y \in t : x >= y}
<1>1. 0 \in S
  <2>1. 1 .. 0 = {}
    OBVIOUS
  <2>. QED BY <2>1
<1>2. ASSUME NEW k \in 1 .. n, k - 1 \in S PROVE k \in S
  <2>1. ASSUME NEW t \in SUBSET (1 .. k), t # {}
        PROVE  \E x \in t : \A y \in t : x >= y
    <3>1. CASE k \in t
      BY <3>1
    <3>2. CASE k \notin t
      <4>1. t \in SUBSET (1 .. k - 1)
        BY <3>2
      <4>. QED BY <1>2, <2>1, <4>1
    <3>. QED BY <3>1, <3>2
  <2>. QED BY <2>1
<1>3. n \in S
  <2>. HIDE DEF S
  <2>1. \A k \in 0 .. n : k \in S
    BY <1>1, <1>2, UpTo
  <2>. QED BY <2>1
<1>4. \E x \in s : \A y \in s : x >= y
  BY <1>3
<1>5. Max(s) \in s /\ \A y \in s : Max(s) >= y
  BY <1>4, Zenon DEF Max
<1>. QED BY <1>5

LEMMA MinExists ==
    ASSUME NEW n \in Nat, NEW s \in SUBSET (1 .. n), s # {}
    PROVE  \E x \in s : \A y \in s : x <= y
<1>. DEFINE S == {k \in Nat : \A t \in SUBSET (1 .. n) :
                     k \in t => \E x \in t : \A y \in t : x <= y}
<1>1. ASSUME NEW k \in Nat, \A m \in Nat : m < k => m \in S PROVE k \in S
  <2>1. ASSUME NEW t \in SUBSET (1 .. n), k \in t
        PROVE  \E x \in t : \A y \in t : x <= y
    <3>1. CASE \E m \in t : m < k
      <4>1. PICK m \in t : m < k
        BY <3>1
      <4>2. m \in Nat /\ m \in S
        BY <1>1, <4>1
      <4>. QED BY <4>1, <4>2
    <3>2. CASE ~\E m \in t : m < k
      BY <2>1, <3>2
    <3>. QED BY <3>1, <3>2
  <2>. QED BY <2>1
<1>2. PICK k \in s : TRUE
  OBVIOUS
<1>3. k \in S
  <2>. HIDE DEF S
  <2>1. k \in Nat
    OBVIOUS
  <2>. QED BY <1>1, <2>1, AllNumbers
<1>. QED BY <1>3

LEMMA MaxOfFirst ==
    ASSUME NEW k \in Nat \ {0}
    PROVE  Max(1 .. k) = k /\ (1 .. k) \ {k} = 1 .. k - 1
<1>1. Max(1 .. k) \in 1 .. k /\ \A y \in 1 .. k : y <= Max(1 .. k)
  <2>1. (1 .. k) \in SUBSET (1 .. k) /\ 1 .. k # {} /\ k \in Nat
    OBVIOUS
  <2>. QED BY <2>1, MaxExists
<1>2. Max(1 .. k) = k
  BY <1>1
<1>. QED BY <1>2

(* The function that MapThenFoldSet defines, here over the first k of a    *)
(* sequence, exists for a step that stays within a set.                    *)
FoldsBy(f, base, step, seq, k) ==
    \A s \in SUBSET (1 .. k) :
       f[s] = IF s = {} THEN base ELSE step[<<f[s \ {Max(s)}], seq[Max(s)]>>]

LEMMA FoldExists ==
    ASSUME NEW A, NEW B, NEW base \in A, NEW step \in [A \X B -> A],
           NEW n \in Nat, NEW seq \in [1 .. n -> B]
    PROVE  \E f \in [SUBSET (1 .. n) -> A] : FoldsBy(f, base, step, seq, n)
<1>. DEFINE Folds(f, k) == FoldsBy(f, base, step, seq, k)
            S == {k \in Nat : \E f \in [SUBSET (1 .. k) -> A] : Folds(f, k)}
<1>1. 0 \in S
  <2>. DEFINE f == [s \in SUBSET (1 .. 0) |-> base]
  <2>1. \A s \in SUBSET (1 .. 0) : s = {} /\ f[s] = base
    OBVIOUS
  <2>2. f \in [SUBSET (1 .. 0) -> A] /\ Folds(f, 0)
    BY <2>1 DEF FoldsBy
  <2>. QED BY <2>2
<1>2. ASSUME NEW k \in 1 .. n, k - 1 \in S PROVE k \in S
  <2>1. PICK g \in [SUBSET (1 .. k - 1) -> A] : Folds(g, k - 1)
    BY <1>2
  <2>. DEFINE f == [s \in SUBSET (1 .. k) |->
                      IF k \in s THEN step[<<g[s \ {k}], seq[k]>>] ELSE g[s]]
  <2>2. \A s \in SUBSET (1 .. k) : /\ s \ {k} \in SUBSET (1 .. k - 1)
                                   /\ k \notin s => s \in SUBSET (1 .. k - 1)
    OBVIOUS
  <2>3. f \in [SUBSET (1 .. k) -> A]
    <3>1. ASSUME NEW s \in SUBSET (1 .. k)
          PROVE  (IF k \in s THEN step[<<g[s \ {k}], seq[k]>>] ELSE g[s]) \in A
      <4>1. s \ {k} \in SUBSET (1 .. k - 1) /\ (k \notin s => s \in SUBSET (1 .. k - 1))
        BY <2>2
      <4>2. g[s \ {k}] \in A /\ seq[k] \in B /\ (k \notin s => g[s] \in A)
        BY <4>1
      <4>3. step[<<g[s \ {k}], seq[k]>>] \in A
        BY <4>2
      <4>. QED BY <4>2, <4>3
    <3>. QED BY <3>1
  <2>4. ASSUME NEW s \in SUBSET (1 .. k)
        PROVE  f[s] = IF s = {} THEN base ELSE step[<<f[s \ {Max(s)}], seq[Max(s)]>>]
    <3>1. CASE k \in s
      <4>1. Max(s) = k
        <5>1. k \in Nat /\ s # {}
          BY <3>1
        <5>2. Max(s) \in s /\ \A y \in s : y <= Max(s)
          BY <5>1, MaxExists
        <5>3. Max(s) \in 1 .. k /\ k <= Max(s)
          BY <3>1, <5>2
        <5>. QED BY <5>3
      <4>2. f[s \ {k}] = g[s \ {k}]
        BY <2>2
      <4>3. f[s] = step[<<g[s \ {k}], seq[k]>>]
        BY <3>1
      <4>. HIDE DEF f
      <4>. QED BY <3>1, <4>1, <4>2, <4>3
    <3>2. CASE k \notin s
      <4>1. s \in SUBSET (1 .. k - 1) /\ s \ {Max(s)} \in SUBSET (1 .. k - 1)
            /\ s \ {Max(s)} \in SUBSET (1 .. k) /\ k \notin s \ {Max(s)}
        BY <3>2, <2>2
      <4>2. f[s] = g[s] /\ f[s \ {Max(s)}] = g[s \ {Max(s)}]
        BY <3>2, <4>1
      <4>3. g[s] = IF s = {} THEN base ELSE step[<<g[s \ {Max(s)}], seq[Max(s)]>>]
        BY <2>1, <4>1 DEF FoldsBy
      <4>. HIDE DEF f
      <4>. QED BY <4>2, <4>3
    <3>. QED BY <3>1, <3>2
  <2>. HIDE DEF f
  <2>5. Folds(f, k)
    BY <2>4 DEF FoldsBy
  <2>. HIDE DEF Folds
  <2>. QED BY <2>3, <2>5
<1>3. n \in S
  <2>. HIDE DEF S
  <2>1. \A k \in 0 .. n : k \in S
    BY <1>1, <1>2, UpTo
  <2>. QED BY <2>1
<1>. QED BY <1>3

(* The steps that the model folds over a sequence: a is what has been made *)
(* so far, b the next element, x and y what else the step depends on.      *)
StepOf(kind, e, x, y, a, b) ==
    CASE kind = "replay" -> Replayed(e, x, a, b)
      [] kind = "strike" -> Strike(e, x, a, b)
      [] kind = "rain"   -> RainSlice(e, a, b)
      [] kind = "nudge"  -> [a EXCEPT ![b[1]] = DropHue(e.hue, b[2])]
      [] kind = "star"   -> StarSlice(e, a, b)
      [] kind = "toggle" -> Toggled(e, x, y, a, b)
      [] kind = "fall"   -> Fall(e, a, b)
      [] kind = "launch" -> Launched(e, x, a, b)

AllSteps(kind, e, x, y, base, seq) ==
    FoldLeft(LAMBDA a, b : StepOf(kind, e, x, y, a, b), base, seq)

(* h has what the fold has made of the first k elements, for every k.      *)
Folding(h, kind, e, x, y, base, seq) ==
    /\ h[0] = base
    /\ h[Len(seq)] = AllSteps(kind, e, x, y, base, seq)
    /\ \A k \in 1 .. Len(seq) : h[k] = StepOf(kind, e, x, y, h[k - 1], seq[k])

LEMMA StepFold ==
    ASSUME NEW kind, NEW e, NEW x, NEW y, NEW A, NEW B, NEW base \in A, NEW seq \in Seq(B),
           \A a \in A, b \in B : StepOf(kind, e, x, y, a, b) \in A
    PROVE  \E h : Folding(h, kind, e, x, y, base, seq)
<1>. DEFINE n == Len(seq)
            step == [z \in A \X B |-> StepOf(kind, e, x, y, z[1], z[2])]
            Folded(f) == f = [s \in SUBSET DOMAIN seq |->
                                IF s = {} THEN base
                                ELSE StepOf(kind, e, x, y, f[s \ {Max(s)}], seq[Max(s)])]
            fold == CHOOSE f : Folded(f)
            h == [k \in 0 .. n |-> fold[1 .. k]]
<1>1. n \in Nat /\ DOMAIN seq = 1 .. n /\ seq \in [1 .. n -> B]
  OBVIOUS
<1>2. step \in [A \X B -> A]
  OBVIOUS
<1>3. \E f : Folded(f)
  <2>. HIDE DEF step, n
  <2>1. PICK f \in [SUBSET (1 .. n) -> A] : FoldsBy(f, base, step, seq, n)
    <3>1. n \in Nat /\ base \in A
      BY <1>1
    <3>2. seq \in [1 .. n -> B] /\ step \in [A \X B -> A]
      BY <1>1, <1>2
    <3>. QED BY <3>1, <3>2, FoldExists
  <2>2. ASSUME NEW s \in SUBSET (1 .. n), s # {}
        PROVE  f[s] = StepOf(kind, e, x, y, f[s \ {Max(s)}], seq[Max(s)])
    <3>1. Max(s) \in 1 .. n
      BY <1>1, <2>2, MaxExists
    <3>2. f[s \ {Max(s)}] \in A /\ seq[Max(s)] \in B
      BY <1>1, <3>1
    <3>3. step[<<f[s \ {Max(s)}], seq[Max(s)]>>] =
            StepOf(kind, e, x, y, f[s \ {Max(s)}], seq[Max(s)])
      BY <3>2 DEF step
    <3>. QED BY <2>1, <2>2, <3>3 DEF FoldsBy
  <2>3. f = [s \in SUBSET (1 .. n) |->
               IF s = {} THEN base
               ELSE StepOf(kind, e, x, y, f[s \ {Max(s)}], seq[Max(s)])]
    BY <2>1, <2>2 DEF FoldsBy
  <2>. QED BY <1>1, <2>3
<1>4. Folded(fold)
  <2>. HIDE DEF Folded
  <2>. QED BY <1>3
<1>5. AllSteps(kind, e, x, y, base, seq) = fold[DOMAIN seq]
  BY DEF AllSteps, FoldLeft, MapThenFoldSet
<1>. HIDE DEF fold
<1>6. h[0] = base
  <2>1. h[0] = fold[{}]
    <3>1. 1 .. 0 = {} /\ 0 \in 0 .. n
      BY <1>1
    <3>. QED BY <3>1
  <2>. QED BY <1>4, <2>1
<1>7. h[n] = fold[DOMAIN seq]
  BY <1>1
<1>8. ASSUME NEW k \in 1 .. n PROVE h[k] = StepOf(kind, e, x, y, h[k - 1], seq[k])
  <2>1. Max(1 .. k) = k /\ (1 .. k) \ {k} = 1 .. k - 1
    BY MaxOfFirst
  <2>2. (1 .. k) \in SUBSET DOMAIN seq /\ 1 .. k # {}
    <3>. HIDE DEF n
    <3>1. k \in 1 .. k /\ 1 .. k \subseteq 1 .. n
      BY <1>1
    <3>. QED BY <1>1, <3>1
  <2>3. fold[1 .. k] = StepOf(kind, e, x, y, fold[(1 .. k) \ {Max(1 .. k)}], seq[Max(1 .. k)])
    BY <1>4, <2>2
  <2>4. h[k] = fold[1 .. k] /\ h[k - 1] = fold[1 .. k - 1]
    BY <1>1
  <2>. HIDE DEF h
  <2>. QED BY <2>1, <2>3, <2>4
<1>. QED BY <1>5, <1>6, <1>7, <1>8 DEF Folding

(* What holds of the base and is kept by every step holds throughout.      *)
LEMMA FoldedIn ==
    ASSUME NEW kind, NEW e, NEW x, NEW y, NEW A, NEW B, NEW base \in A, NEW seq \in Seq(B),
           \A a \in A, b \in B : StepOf(kind, e, x, y, a, b) \in A
    PROVE  AllSteps(kind, e, x, y, base, seq) \in A
<1>1. PICK h : Folding(h, kind, e, x, y, base, seq)
  BY StepFold
<1>. DEFINE S == {k \in 0 .. Len(seq) : h[k] \in A}
<1>2. 0 \in S /\ Len(seq) \in Nat
  BY <1>1 DEF Folding
<1>3. ASSUME NEW k \in 1 .. Len(seq), k - 1 \in S PROVE k \in S
  <2>1. h[k - 1] \in A /\ seq[k] \in B
    BY <1>3
  <2>2. h[k] = StepOf(kind, e, x, y, h[k - 1], seq[k])
    BY <1>1 DEF Folding
  <2>. QED BY <2>1, <2>2
<1>. HIDE DEF S
<1>4. Len(seq) \in S
  <2>1. \A k \in 0 .. Len(seq) : k \in S
    BY <1>2, <1>3, UpTo
  <2>. QED BY <1>2, <2>1
<1>. QED BY <1>1, <1>4 DEF S, Folding

-----------------------------------------------------------------------------
(* A frame of a hit effect *)

(* What the replay of the pending events and the promise's account of them *)
(* have in common after each of them.                                      *)
Abreast(e, local, a, b) ==
    /\ a.cursor \in 0 .. local /\ b.from = a.cursor
    /\ Fading(e, a.data) /\ b.p \in HitPromises
    /\ Keeps(e, a.data, b.p, a.cursor)

LEMMA EventKeepsAbreast ==
    ASSUME NEW e, e.kind \in HitKinds, HitEffect(e), NEW local \in Nat,
           NEW a, NEW b, Abreast(e, local, a, b), NEW ev \in Hits
    PROVE  Abreast(e, local, Replayed(e, local, a, ev), Strike(e, local, b, ev))
<1>. DEFINE cursor == a.cursor
            at == Clamp(ev.at, cursor, local)
            faded == HitAdvance(e, a.data, at - cursor)
<1>1. /\ cursor \in 0 .. local /\ b.from = cursor
      /\ Fading(e, a.data) /\ b.p \in HitPromises
      /\ Keeps(e, a.data, b.p, cursor)
  BY DEF Abreast
<1>2. ev.at \in Nat /\ ev.led \in Leds
  BY DEF Hits
<1>3. at \in cursor .. local /\ at = Least(local, Most(b.from, ev.at))
  <2>. HIDE DEF cursor
  <2>. QED BY <1>1, <1>2 DEF Clamp, Least, Most
<1>4. Replayed(e, local, a, ev) = [data |-> HitApply(e, faded, ev.led), cursor |-> at]
  BY DEF Replayed
<1>5. Strike(e, local, b, ev) = [p |-> Struck(e, b.p, ev.led, at), from |-> at]
  BY <1>3 DEF Strike
<1>. HIDE DEF cursor, at
<1>6. at - cursor \in Nat /\ cursor \in Nat /\ at \in Nat /\ cursor + (at - cursor) = at
  BY <1>1, <1>3
<1>7. Fading(e, faded) /\ Keeps(e, faded, b.p, at)
  <2>. DEFINE data == a.data
              p == b.p
              span == at - cursor
  <2>1. Fading(e, data) /\ p \in HitPromises /\ Keeps(e, data, p, cursor)
    BY <1>1
  <2>2. span \in Nat /\ cursor + span = at
    BY <1>6
  <2>. HIDE DEF data, p, span
  <2>3. LET f == HitAdvance(e, data, span) IN Fading(e, f) /\ Keeps(e, f, p, cursor + span)
    BY <1>6, <2>1, <2>2, AdvanceKeeps
  <2>. QED BY <2>2, <2>3 DEF data, p, span
<1>. HIDE DEF faded
<1>8. LET f == HitApply(e, faded, ev.led)
          q == Struck(e, b.p, ev.led, at)
      IN  Fading(e, f) /\ q \in HitPromises /\ Keeps(e, f, q, at)
  <2>. DEFINE p == b.p
              led == ev.led
  <2>1. p \in HitPromises /\ led \in Leds /\ Keeps(e, faded, p, at)
    BY <1>1, <1>2, <1>7
  <2>. HIDE DEF p, led
  <2>2. LET f == HitApply(e, faded, led)
            q == Struck(e, p, led, at)
        IN  Fading(e, f) /\ q \in HitPromises /\ Keeps(e, f, q, at)
    BY <1>6, <1>7, <2>1, ApplyKeeps
  <2>. QED BY <2>2 DEF p, led
<1>9. at \in 0 .. local
  BY <1>1, <1>3
<1>. QED BY <1>4, <1>5, <1>8, <1>9 DEF Abreast

(* Any data are what some promise says. *)
LEMMA PromiseExists ==
    ASSUME NEW e, e.kind \in HitKinds, HitEffect(e), NEW d, Fading(e, d), NEW t \in Nat
    PROVE  \E p \in HitPromises : Keeps(e, d, p, t)
<1>. DEFINE parts(l) == d.level[l] * e.period - d.rem[l]
            p == [value |-> [l \in Leds |-> parts(l)], at |-> t]
<1>1. \A l \in Leds : parts(l) \in Nat
  <2>1. ASSUME NEW l \in Leds PROVE parts(l) \in Nat
    <3>. DEFINE level == d.level[l]
                rem == d.rem[l]
                n == e.period
    <3>1. Faint(level, rem, n) /\ n \in Nat \ {0}
      BY FadeFacts DEF Fading
    <3>. HIDE DEF level, rem, n
    <3>2. level * n - rem \in Nat
      BY <3>1, LevelShown
    <3>. QED BY <3>2 DEF level, rem, n
  <2>. QED BY <2>1
<1>. HIDE DEF parts
<1>2. p \in HitPromises
  BY <1>1 DEF HitPromises
<1>3. \A l \in Leds : Residue(e, p.value[l], t - p.at) = parts(l)
  BY <1>1, FadeFacts DEF Residue, Most
<1>4. p.at = t
  OBVIOUS
<1>. HIDE DEF p
<1>5. Keeps(e, d, p, t)
  BY <1>3, <1>4 DEF Keeps, parts
<1>. QED BY <1>2, <1>5

(* What has faded stays so. *)
LEMMA DarkKeeps ==
    ASSUME NEW e, e.kind \in HitKinds, HitEffect(e), NEW d, Fading(e, d),
           NEW p \in HitPromises, NEW last \in Nat, Keeps(e, d, p, last),
           NEW local \in Nat, last <= local, \A l \in Leds : d.level[l] = 0
    PROVE  Keeps(e, d, p, local)
<1>1. p.at \in Nat /\ p.at <= last
  BY DEF Keeps, HitPromises
<1>2. ASSUME NEW l \in Leds
      PROVE  d.level[l] * e.period - d.rem[l] = Residue(e, p.value[l], local - p.at)
  <2>. DEFINE before == FadeScale(e) * (last - p.at)
              after == FadeScale(e) * (local - p.at)
              value == p.value[l]
  <2>1. d.level[l] * e.period - d.rem[l] = 0
    <3>1. d.level[l] = 0 /\ d.rem[l] = 0 /\ e.period \in Nat
      BY ShownAsPromised, FadeFacts
    <3>. QED BY <3>1
  <2>2. Most(0, value - before) = 0
    BY <2>1 DEF Keeps, Residue
  <2>3. before \in Nat /\ after \in Nat /\ before <= after
    <3>. DEFINE scale == FadeScale(e)
                x == last - p.at
                y == local - p.at
    <3>1. x \in Nat /\ y \in Nat /\ x <= y /\ scale \in Nat
      BY <1>1, FadeFacts
    <3>. HIDE DEF scale, x, y
    <3>2. x * scale <= y * scale /\ x * scale \in Nat /\ y * scale \in Nat
      BY <3>1, TimesGrows
    <3>3. x * scale = scale * x /\ y * scale = scale * y
      BY <3>1
    <3>. QED BY <3>2, <3>3 DEF scale, x, y
  <2>4. value \in Nat
    BY DEF HitPromises
  <2>5. Residue(e, p.value[l], local - p.at) = Most(0, value - after)
    BY DEF Residue
  <2>. HIDE DEF before, after, value
  <2>6. Most(0, value - after) = 0
    BY <2>2, <2>3, <2>4 DEF Most
  <2>. QED BY <2>1, <2>5, <2>6
<1>3. p.at <= local
  BY <1>1
<1>. QED BY <1>2, <1>3 DEF Keeps

LEMMA ReplayTyped ==
    ASSUME NEW e, e.kind \in HitKinds, HitEffect(e), NEW local \in Nat,
           NEW a \in [data : HitData, cursor : 0 .. local], Fading(e, a.data), NEW ev \in Hits
    PROVE  LET x == Replayed(e, local, a, ev)
           IN  x \in [data : HitData, cursor : 0 .. local] /\ Fading(e, x.data)
<1>. DEFINE d == a.data
            t == a.cursor
            x == Replayed(e, local, a, ev)
<1>1. Fading(e, d) /\ t \in Nat /\ t \in 0 .. local
  OBVIOUS
<1>. HIDE DEF d, t
<1>2. PICK p \in HitPromises : Keeps(e, d, p, t)
  BY <1>1, PromiseExists
<1>. DEFINE b == [p |-> p, from |-> t]
<1>3. Abreast(e, local, a, b)
  BY <1>1, <1>2 DEF Abreast, d, t
<1>. HIDE DEF b
<1>4. Abreast(e, local, x, Strike(e, local, b, ev))
  BY <1>3, EventKeepsAbreast
<1>5. x = [data |-> x.data, cursor |-> x.cursor]
  BY DEF Replayed
<1>. HIDE DEF x
<1>6. Fading(e, x.data) /\ x.data \in HitData /\ x.cursor \in 0 .. local
  BY <1>4 DEF Abreast, Fading
<1>. QED BY <1>5, <1>6 DEF x

AnyPromises == [value : [Leds -> Int], at : Int]

LEMMA StrikeTyped ==
    ASSUME NEW e, e.kind \in HitKinds, HitEffect(e), NEW local \in Nat,
           NEW b \in [p : AnyPromises, from : 0 .. local], NEW ev \in Hits
    PROVE  Strike(e, local, b, ev) \in [p : AnyPromises, from : 0 .. local]
<1>. DEFINE at == Least(local, Most(b.from, ev.at))
            led == ev.led
            p == b.p
            n == e.period
            scale == FadeScale(e)
            left(l) == Residue(e, p.value[l], at - p.at)
<1>1. ev.at \in Nat /\ led \in Leds /\ p \in AnyPromises
  BY DEF Hits
<1>2. at \in 0 .. local
  BY <1>1 DEF Least, Most
<1>3. Strike(e, local, b, ev) = [p |-> Struck(e, p, led, at), from |-> at]
  BY DEF Strike
<1>. HIDE DEF at, led, p, scale, n
<1>4. n \in Nat \ {0} /\ Peak \in Nat \ {0} /\ scale \in Nat
  BY FadeFacts DEF n, scale
<1>5. ASSUME NEW l \in Leds
      PROVE  (IF Adds(e) THEN left(l) + n * Least(Contribution(e, led, l),
                                                  Peak - LevelOf(e, left(l)))
              ELSE n * Contribution(e, led, l)) \in Int
  <2>1. Contribution(e, led, l) \in Nat
    BY <1>1, ContributionRange
  <2>2. left(l) \in Int
    <3>. DEFINE past == at - p.at
                value == p.value[l]
    <3>1. past \in Int /\ value \in Int
      BY <1>1, <1>2 DEF AnyPromises
    <3>2. left(l) = Most(0, value - scale * past)
      BY DEF Residue, scale
    <3>. HIDE DEF past, value, left
    <3>3. scale * past \in Int
      BY <1>4, <3>1
    <3>. QED BY <3>1, <3>2, <3>3 DEF Most
  <2>. HIDE DEF left
  <2>3. LevelOf(e, left(l)) \in Int
    BY <1>4, <2>2 DEF LevelOf, n
  <2>4. Least(Contribution(e, led, l), Peak - LevelOf(e, left(l))) \in Int
    BY <1>4, <2>1, <2>3 DEF Least
  <2>5. n * Least(Contribution(e, led, l), Peak - LevelOf(e, left(l))) \in Int
        /\ n * Contribution(e, led, l) \in Int
    BY <1>4, <2>1, <2>4
  <2>. QED BY <2>2, <2>5
<1>6. Struck(e, p, led, at) = [value |-> [l \in Leds |->
         IF Adds(e) THEN left(l) + n * Least(Contribution(e, led, l),
                                             Peak - LevelOf(e, left(l)))
         ELSE n * Contribution(e, led, l)], at |-> at]
  BY DEF Struck, n
<1>. HIDE DEF left
<1>7. Struck(e, p, led, at) \in AnyPromises
  BY <1>2, <1>5, <1>6 DEF AnyPromises
<1>. QED BY <1>2, <1>3, <1>7

(* Whenever the frame comes, its data are again what the promise says. *)
LEMMA FrameKeeps ==
    ASSUME NEW e, e.kind \in HitKinds, HitEffect(e), NEW d, Fading(e, d),
           NEW p \in HitPromises, NEW last \in Nat, Keeps(e, d, p, last),
           NEW local \in Nat, last <= local, NEW elapsed \in Nat,
           elapsed = IF \E l \in Leds : d.level[l] # 0 THEN local - last ELSE 0
    PROVE  LET f == HitRender(e, d, local, elapsed)
               q == HitPromise(e, p, last, local, d.pending)
           IN  /\ Fading(e, f) /\ f.pending = <<>>
               /\ q \in HitPromises /\ Keeps(e, f, q, local)
<1>. DEFINE seq == d.pending
            n == Len(seq)
            glows == \E l \in Leds : d.level[l] # 0
            start == IF glows THEN last ELSE local
            first == [data |-> d, cursor |-> start]
            begun == [p |-> p, from |-> start]
            f == HitRender(e, d, local, elapsed)
            q == HitPromise(e, p, last, local, d.pending)
            Replays == {a \in [data : HitData, cursor : 0 .. local] : Fading(e, a.data)}
            Strikes == [p : AnyPromises, from : 0 .. local]
<1>1. d \in HitData /\ seq \in Seq(Hits) /\ n \in Nat
  BY DEF Fading, HitData
<1>2. start \in 0 .. local /\ start = local - Least(local, elapsed)
  BY DEF Least
<1>3. glows <=> \E l \in Leds : HitLevel(e, p, l, last) > 0
  BY ShownAsPromised
<1>4. Keeps(e, d, p, start)
  <2>1. CASE glows
    BY <2>1
  <2>2. CASE ~glows
    BY <2>2, DarkKeeps
  <2>. QED BY <2>1, <2>2
<1>. HIDE DEF start
<1>5. Abreast(e, local, first, begun)
  BY <1>2, <1>4 DEF Abreast
<1>6. \E h : Folding(h, "replay", e, local, 0, first, seq)
  <2>1. first \in Replays
    BY <1>1, <1>2
  <2>2. \A a \in Replays, b \in Hits : StepOf("replay", e, local, 0, a, b) \in Replays
    BY ReplayTyped DEF StepOf
  <2>. HIDE DEF first, Replays
  <2>. QED BY <1>1, <2>1, <2>2, StepFold
<1>7. \E g : Folding(g, "strike", e, local, 0, begun, seq)
  <2>1. begun \in Strikes
    BY <1>2 DEF HitPromises, AnyPromises
  <2>2. \A a \in Strikes, b \in Hits : StepOf("strike", e, local, 0, a, b) \in Strikes
    BY StrikeTyped DEF StepOf
  <2>. HIDE DEF begun, Strikes
  <2>. QED BY <1>1, <2>1, <2>2, StepFold
<1>8. PICK h : Folding(h, "replay", e, local, 0, first, seq)
  BY <1>6
<1>9. PICK g : Folding(g, "strike", e, local, 0, begun, seq)
  BY <1>7
<1>10. Abreast(e, local, h[n], g[n])
  <2>. DEFINE S == {k \in 0 .. n : Abreast(e, local, h[k], g[k])}
  <2>1. 0 \in S
    BY <1>1, <1>5, <1>8, <1>9 DEF Folding, StepOf
  <2>2. ASSUME NEW k \in 1 .. n, k - 1 \in S PROVE k \in S
    <3>1. seq[k] \in Hits
      BY <1>1
    <3>2. Abreast(e, local, h[k - 1], g[k - 1])
      BY <2>2
    <3>3. Abreast(e, local, Replayed(e, local, h[k - 1], seq[k]),
                            Strike(e, local, g[k - 1], seq[k]))
      BY <3>1, <3>2, EventKeepsAbreast
    <3>. QED BY <1>8, <1>9, <3>3 DEF Folding, StepOf
  <2>. HIDE DEF S
  <2>3. n \in S
    <3>1. \A k \in 0 .. n : k \in S
      BY <1>1, <2>1, <2>2, UpTo
    <3>. QED BY <1>1, <3>1
  <2>. QED BY <2>3 DEF S
<1>. DEFINE acc == h[n]
            after == g[n].p
            full == HitAdvance(e, acc.data, local - acc.cursor)
<1>11. f = [full EXCEPT !.pending = <<>>]
  <2>1. acc = AllSteps("replay", e, local, 0,
                       [data |-> d, cursor |-> local - Least(local, elapsed)], d.pending)
    BY <1>2, <1>8 DEF Folding, StepOf
  <2>2. acc = FoldLeft(LAMBDA a, b : Replayed(e, local, a, b),
                       [data |-> d, cursor |-> local - Least(local, elapsed)], d.pending)
    <3>1. AllSteps("replay", e, local, 0,
                   [data |-> d, cursor |-> local - Least(local, elapsed)], d.pending)
            = FoldLeft(LAMBDA a, b : Replayed(e, local, a, b),
                       [data |-> d, cursor |-> local - Least(local, elapsed)], d.pending)
      BY DEF AllSteps, StepOf
    <3>. QED BY <2>1, <3>1
  <2>. HIDE DEF acc
  <2>. QED BY <2>2 DEF HitRender
<1>12. q = IF \A l \in Leds : HitLevel(e, after, l, local) = 0 THEN Blank(e) ELSE after
  <2>1. start = IF \E l \in Leds : HitLevel(e, p, l, last) > 0 THEN last ELSE local
    BY <1>3 DEF start
  <2>2. g[n] = FoldLeft(LAMBDA a, b : Strike(e, local, a, b), begun, seq)
    <3>1. AllSteps("strike", e, local, 0, begun, seq)
            = FoldLeft(LAMBDA a, b : Strike(e, local, a, b), begun, seq)
      BY DEF AllSteps, StepOf
    <3>. QED BY <1>9, <3>1 DEF Folding
  <2>. QED BY <2>1, <2>2 DEF HitPromise
<1>. HIDE DEF f, q
<1>13. Fading(e, full) /\ after \in HitPromises /\ Keeps(e, full, after, local)
  <2>. DEFINE data == acc.data
              cursor == acc.cursor
              rest == local - cursor
  <2>1. /\ Fading(e, data) /\ after \in HitPromises /\ Keeps(e, data, after, cursor)
        /\ cursor \in Nat /\ rest \in Nat /\ cursor + rest = local
    BY <1>10 DEF Abreast
  <2>. HIDE DEF data, cursor, rest, after
  <2>2. LET x == HitAdvance(e, data, rest)
        IN  Fading(e, x) /\ Keeps(e, x, after, cursor + rest)
    BY <2>1, AdvanceKeeps
  <2>. QED BY <2>1, <2>2 DEF data, cursor, rest
<1>. HIDE DEF full, after, acc
<1>14. /\ f \in HitData /\ f.pending = <<>>
       /\ f.level = full.level /\ f.rem = full.rem
  <2>1. full \in HitData /\ <<>> \in Seq(Hits)
    BY <1>13 DEF Fading
  <2>. QED BY <1>11, <2>1 DEF HitData
<1>15. Fading(e, f) /\ Keeps(e, f, after, local)
  BY <1>13, <1>14 DEF Fading, Keeps
<1>16. q \in HitPromises /\ Keeps(e, f, q, local)
  <2>1. CASE \A l \in Leds : HitLevel(e, after, l, local) = 0
    <3>1. \A l \in Leds : f.level[l] = 0 /\ f.rem[l] = 0
      BY <1>15, <2>1, ShownAsPromised
    <3>2. q = [value |-> AllDark, at |-> 0]
      <4>1. q = Blank(e)
        BY <1>12, <2>1
      <4>2. Blank(e) = [value |-> AllDark, at |-> 0]
        BY DEF Blank, HitKinds, RainKinds
      <4>. QED BY <4>1, <4>2
    <3>3. q \in HitPromises /\ q.at <= local
      BY <3>2 DEF HitPromises, AllDark
    <3>4. ASSUME NEW l \in Leds
          PROVE  f.level[l] * e.period - f.rem[l] = Residue(e, q.value[l], local - q.at)
      <4>1. f.level[l] * e.period - f.rem[l] = 0
        BY <3>1, FadeFacts
      <4>2. q.value[l] = 0 /\ local - q.at \in Nat
        BY <3>2 DEF AllDark
      <4>3. FadeScale(e) * (local - q.at) \in Nat
        BY <4>2, FadeFacts
      <4>. QED BY <4>1, <4>2, <4>3 DEF Residue, Most
    <3>. QED BY <3>3, <3>4 DEF Keeps
  <2>2. CASE ~(\A l \in Leds : HitLevel(e, after, l, local) = 0)
    <3>1. q = after
      BY <1>12, <2>2
    <3>. QED BY <1>13, <1>15, <3>1
  <2>. QED BY <2>1, <2>2
<1>. QED BY <1>14, <1>15, <1>16 DEF f, q

-----------------------------------------------------------------------------
(* Ripple's triggers and the presses that ripple *)

RippleData == [start : [1 .. Triggers -> Nat \cup {Unused}]]
RipplePromises == [live : SUBSET [at : Nat, number : Nat], count : Nat]

Used(d) == {t \in 1 .. Triggers : d.start[t] # Unused}

(* Each trigger in use is for one press and each press has one. *)
MatchedBy(g, d, p) ==
    /\ g \in [Used(d) -> p.live]
    /\ \A t, u \in Used(d) : g[t] = g[u] => t = u
    /\ \A press \in p.live : \E t \in Used(d) : g[t] = press
    /\ \A t \in Used(d) : d.start[t] = g[t].at

Rippling(d, p) ==
    /\ d \in RippleData /\ p \in RipplePromises
    /\ \A press \in p.live : press.number < p.count
    /\ \E g : MatchedBy(g, d, p)

LEMMA TriggersUsed ==
    ASSUME NEW d
    PROVE  /\ IsFiniteSet(Used(d)) /\ Cardinality(Used(d)) \in Nat
           /\ Cardinality(Used(d)) = Triggers <=> Used(d) = 1 .. Triggers
<1>1. /\ IsFiniteSet(1 .. Triggers) /\ Cardinality(1 .. Triggers) = Triggers
  <2>1. Triggers \in Nat /\ 1 \in Int
    BY SizesAssumption
  <2>2. IsFiniteSet(1 .. Triggers)
        /\ Cardinality(1 .. Triggers) = IF 1 > Triggers THEN 0 ELSE Triggers - 1 + 1
    BY <2>1, FS_Interval
  <2>. QED BY <2>1, <2>2
<1>2. Used(d) \in SUBSET (1 .. Triggers)
  BY DEF Used
<1>. QED BY <1>1, <1>2, FS_Subset, FS_CardinalityType

(* Any selection of the triggers in use has as many members as the presses *)
(* it is for.                                                              *)
LEMMA MatchedSame ==
    ASSUME NEW g, NEW d, NEW p, MatchedBy(g, d, p),
           NEW S \in SUBSET Used(d), NEW T \in SUBSET p.live,
           \A t \in Used(d) : t \in S <=> g[t] \in T
    PROVE  IsFiniteSet(T) /\ Cardinality(S) = Cardinality(T)
<1>. DEFINE f == [t \in S |-> g[t]]
<1>1. f \in [S -> T] /\ \A t \in S : f[t] = g[t]
  BY DEF MatchedBy
<1>2. \A t, u \in S : f[t] = f[u] => t = u
  BY DEF MatchedBy
<1>3. \A press \in T : \E t \in S : f[t] = press
  BY DEF MatchedBy
<1>. HIDE DEF f
<1>4. f \in Bijection(S, T)
  BY <1>1, <1>2, <1>3, Fun_IsBij
<1>5. ExistsBijection(S, T)
  BY <1>4 DEF ExistsBijection
<1>6. IsFiniteSet(S)
  BY TriggersUsed, FS_Subset
<1>. QED BY <1>5, <1>6, FS_Bijection

(* For every time there are as many triggers as presses.                   *)
Counted(d, p) ==
    \A start : start # Unused =>
        Cardinality({t \in DOMAIN d.start : d.start[t] = start})
          = Cardinality({press \in p.live : press.at = start})

LEMMA RippleCounts ==
    ASSUME NEW d, NEW p, Rippling(d, p)
    PROVE  /\ Cardinality(p.live) = Triggers <=> Used(d) = 1 .. Triggers
           /\ Counted(d, p)
<1>1. PICK g : MatchedBy(g, d, p)
  BY DEF Rippling
<1>2. Cardinality(Used(d)) = Cardinality(p.live)
  <2>1. \A t \in Used(d) : t \in Used(d) <=> g[t] \in p.live
    BY <1>1 DEF MatchedBy
  <2>2. Used(d) \in SUBSET Used(d) /\ p.live \in SUBSET p.live
    OBVIOUS
  <2>. QED BY <1>1, <2>1, <2>2, MatchedSame
<1>3. ASSUME NEW start, start # Unused
      PROVE  Cardinality({t \in DOMAIN d.start : d.start[t] = start})
               = Cardinality({press \in p.live : press.at = start})
  <2>. DEFINE S == {t \in DOMAIN d.start : d.start[t] = start}
              T == {press \in p.live : press.at = start}
  <2>1. S \in SUBSET Used(d)
    BY <1>3 DEF Rippling, RippleData, Used
  <2>2. T \in SUBSET p.live
    OBVIOUS
  <2>3. \A t \in Used(d) : t \in S <=> g[t] \in T
    BY <1>1 DEF MatchedBy, Rippling, RippleData, Used
  <2>. HIDE DEF S, T
  <2>4. Cardinality(S) = Cardinality(T)
    BY <1>1, <2>1, <2>2, <2>3, MatchedSame
  <2>. QED BY <2>4 DEF S, T
<1>4. Counted(d, p)
  BY <1>3 DEF Counted
<1>. QED BY <1>2, <1>4, TriggersUsed

LEMMA RippleInit ==
    ASSUME NEW e, e.kind = "ripple"
    PROVE  Rippling(Zero(e), Blank(e))
<1>1. Zero(e) = [start |-> [t \in 1 .. Triggers |-> Unused]]
  BY DEF Zero, HitKinds, RainKinds
<1>2. Blank(e) = [live |-> {}, count |-> 0]
  BY DEF Blank, HitKinds, RainKinds
<1>3. Zero(e) \in RippleData /\ Used(Zero(e)) = {} /\ Blank(e) \in RipplePromises
  BY <1>1, <1>2 DEF RippleData, Used, RipplePromises
<1>4. MatchedBy(<<>>, Zero(e), Blank(e))
  <2>1. <<>> \in [{} -> {}]
    OBVIOUS
  <2>. QED BY <1>2, <1>3, <2>1 DEF MatchedBy
<1>. QED BY <1>2, <1>3, <1>4 DEF Rippling

LEMMA RippleHears ==
    ASSUME NEW e, e.kind = "ripple", NEW d, NEW p, Rippling(d, p),
           NEW ev, ev.pressed \in BOOLEAN, ev.at \in Nat
    PROVE  Rippling(RippleEvent(e, d, ev).data, Heard(e, p, ev))
<1>. DEFINE free == {t \in DOMAIN d.start : d.start[t] = Unused}
            first == CHOOSE t \in free : \A u \in free : t <= u
            f == RippleEvent(e, d, ev).data
            q == Heard(e, p, ev)
<1>1. d \in RippleData /\ p \in RipplePromises /\ DOMAIN d.start = 1 .. Triggers
  BY DEF Rippling, RippleData
<1>2. free = {} <=> Used(d) = 1 .. Triggers
  BY <1>1 DEF Used
<1>3. free = {} <=> Cardinality(p.live) = Triggers
  BY <1>2, RippleCounts
<1>4. CASE ~ev.pressed \/ free = {}
  <2>1. f = d
    BY <1>4 DEF RippleEvent
  <2>2. q = p
    BY <1>3, <1>4 DEF Heard
  <2>. QED BY <2>1, <2>2
<1>5. CASE ev.pressed /\ free # {}
  <2>. DEFINE press == [at |-> ev.at, number |-> p.count]
  <2>1. f = [d EXCEPT !.start[first] = ev.at]
    BY <1>5 DEF RippleEvent
  <2>2. q = [live |-> p.live \cup {press}, count |-> p.count + 1]
    BY <1>3, <1>5 DEF Heard
  <2>3. first \in free
    <3>. HIDE DEF free
    <3>1. free \in SUBSET (1 .. Triggers)
      BY <1>1 DEF free
    <3>2. \E t \in free : \A u \in free : t <= u
      BY <1>5, <3>1, MinExists, SizesAssumption
    <3>. QED BY <3>2, Zenon
  <2>4. first \in 1 .. Triggers /\ d.start[first] = Unused
    BY <1>1, <2>3
  <2>. HIDE DEF first, free
  <2>5. /\ f \in RippleData
        /\ f.start[first] = ev.at
        /\ \A t \in 1 .. Triggers : t # first => f.start[t] = d.start[t]
    <3>. HIDE DEF f
    <3>. QED BY <1>1, <2>1, <2>4 DEF RippleData
  <2>6. Used(f) = Used(d) \cup {first} /\ first \notin Used(d)
    <3>. HIDE DEF f
    <3>. QED BY <2>4, <2>5 DEF Used, Unused
  <2>7. q \in RipplePromises /\ \A x \in q.live : x.number < q.count
    <3>. HIDE DEF q
    <3>. QED BY <1>1, <2>2 DEF Rippling, RipplePromises
  <2>8. press \notin p.live
    BY <1>1 DEF Rippling, RipplePromises
  <2>9. PICK g : MatchedBy(g, d, p)
    BY DEF Rippling
  <2>. DEFINE h == [t \in Used(f) |-> IF t = first THEN press ELSE g[t]]
  <2>. HIDE DEF f, q, press
  <2>10. h[first] = press /\ \A t \in Used(d) : h[t] = g[t] /\ g[t] \in p.live
    BY <2>6, <2>9 DEF MatchedBy
  <2>11. h \in [Used(f) -> q.live]
    BY <2>2, <2>6, <2>9 DEF MatchedBy
  <2>. HIDE DEF h
  <2>12. \A t, u \in Used(f) : h[t] = h[u] => t = u
    BY <2>6, <2>8, <2>9, <2>10 DEF MatchedBy
  <2>13. \A x \in q.live : \E t \in Used(f) : h[t] = x
    BY <2>2, <2>6, <2>9, <2>10 DEF MatchedBy
  <2>14. \A t \in Used(f) : f.start[t] = h[t].at
    <3>1. f.start[first] = h[first].at
      BY <2>5, <2>10 DEF press
    <3>2. \A t \in Used(d) : f.start[t] = h[t].at
      BY <2>5, <2>6, <2>9, <2>10 DEF MatchedBy, Used
    <3>. QED BY <2>6, <3>1, <3>2
  <2>15. MatchedBy(h, f, q)
    BY <2>11, <2>12, <2>13, <2>14 DEF MatchedBy
  <2>. QED BY <2>5, <2>7, <2>15 DEF Rippling, f, q
<1>. QED BY <1>4, <1>5

LEMMA RippleFrame ==
    ASSUME NEW e, e.kind = "ripple", e.period \in Nat \ {0}, NEW d, NEW p, Rippling(d, p),
           NEW local \in Nat
    PROVE  Rippling(RippleRender(e, d, local), RipplePromise(e, p, local))
<1>. DEFINE f == RippleRender(e, d, local)
            q == RipplePromise(e, p, local)
<1>1. d \in RippleData /\ p \in RipplePromises /\ DOMAIN d.start = 1 .. Triggers
  BY DEF Rippling, RippleData
<1>2. /\ f \in RippleData
      /\ \A t \in 1 .. Triggers :
            f.start[t] = IF d.start[t] # Unused /\ Most(0, local - d.start[t]) >= e.period
                         THEN Unused ELSE d.start[t]
  BY <1>1 DEF RippleRender, RippleData
<1>3. q = [live |-> {press \in p.live : local - press.at < e.period}, count |-> p.count]
  <2>. DEFINE young == {press \in p.live : local - press.at < e.period}
  <2>1. q = [p EXCEPT !.live = young]
    BY DEF RipplePromise
  <2>. HIDE DEF young, q
  <2>2. q = [live |-> young, count |-> p.count]
    BY <1>1, <2>1 DEF RipplePromises
  <2>. QED BY <2>2 DEF young
<1>. HIDE DEF f, q
<1>4. \A t \in Used(d) : d.start[t] \in Nat
  BY <1>1 DEF RippleData, Used
<1>5. \A t \in 1 .. Triggers : t \in Used(f) <=> t \in Used(d) /\ local - d.start[t] < e.period
  <2>1. ASSUME NEW t \in Used(d)
        PROVE  Most(0, local - d.start[t]) >= e.period <=> ~(local - d.start[t] < e.period)
    <3>1. d.start[t] \in Nat
      BY <1>4
    <3>. QED BY <3>1 DEF Most
  <2>. QED BY <1>2, <2>1 DEF Used
<1>6. \A t \in Used(f) : t \in Used(d) /\ f.start[t] = d.start[t]
  BY <1>2, <1>5 DEF Used
<1>7. PICK g : MatchedBy(g, d, p)
  BY DEF Rippling
<1>. DEFINE h == [t \in Used(f) |-> g[t]]
<1>8. \A t \in Used(f) : h[t] = g[t]
  OBVIOUS
<1>9. h \in [Used(f) -> q.live]
  BY <1>3, <1>5, <1>6, <1>7 DEF MatchedBy, Used
<1>. HIDE DEF h
<1>10. \A t, u \in Used(f) : h[t] = h[u] => t = u
  BY <1>6, <1>7, <1>8 DEF MatchedBy
<1>11. \A press \in q.live : \E t \in Used(f) : h[t] = press
  <2>1. ASSUME NEW press \in q.live PROVE \E t \in Used(f) : h[t] = press
    <3>1. press \in p.live /\ local - press.at < e.period
      BY <1>3
    <3>2. PICK t \in Used(d) : g[t] = press
      BY <1>7, <3>1 DEF MatchedBy
    <3>3. t \in Used(f)
      BY <1>5, <1>7, <3>1, <3>2 DEF MatchedBy, Used
    <3>. QED BY <1>8, <3>2, <3>3
  <2>. QED BY <2>1
<1>12. \A t \in Used(f) : f.start[t] = h[t].at
  BY <1>6, <1>7, <1>8 DEF MatchedBy
<1>13. MatchedBy(h, f, q)
  BY <1>9, <1>10, <1>11, <1>12 DEF MatchedBy
<1>14. q \in RipplePromises /\ \A press \in q.live : press.number < q.count
  BY <1>1, <1>3 DEF Rippling, RipplePromises
<1>. QED BY <1>2, <1>13, <1>14 DEF Rippling, f, q

-----------------------------------------------------------------------------
(* A heatmap whose hits add nothing *)

Takes(e) == e.kind # "heatmap" \/ e.step # 0

Silent(d) == d.level = AllDark /\ d.rem = AllDark

LEMMA SilentContribution ==
    ASSUME NEW e, e.kind \in HitKinds, HitEffect(e), ~Takes(e), NEW led \in Leds, NEW l \in Leds
    PROVE  Contribution(e, led, l) = 0
<1>. DEFINE d == Offset(led, l)
<1>1. d[1] \in Int /\ d[2] \in Int
  BY CoordAssumption DEF Offset, Leds
<1>. HIDE DEF d
<1>2. e.kind = "heatmap" /\ e.step = 0 /\ e.radius \in Nat /\ e.limit \in Nat
  BY DEF Takes, HitEffect
<1>3. Falloff(e, e.step, d) = 0
  <2>1. Falloff(e, 0, d) \in 0 .. 0
    BY <1>1, <1>2, FalloffRange
  <2>. QED BY <1>2, <2>1
<1>. QED BY <1>2, <1>3 DEF Contribution, HeatShape, Least, d

LEMMA SilentReplay ==
    ASSUME NEW e, e.kind \in HitKinds, HitEffect(e), ~Takes(e), NEW d, Fading(e, d), Silent(d),
           NEW elapsed \in Nat, NEW led \in Leds
    PROVE  HitAdvance(e, d, elapsed) = d /\ HitApply(e, d, led) = d
<1>1. d \in HitData /\ d.level = [l \in Leds |-> 0] /\ d.rem = [l \in Leds |-> 0]
  BY DEF Fading, Silent, AllDark
<1>2. HitAdvance(e, d, elapsed) = d
  <2>. DEFINE n == e.period
              scaled == FadeScale(e) * Least(elapsed, FadeSpan(e))
  <2>1. n \in Nat \ {0} /\ scaled \in Nat
    <3>1. Least(elapsed, FadeSpan(e)) \in Nat
      BY FadeFacts DEF Least
    <3>. QED BY <3>1, FadeFacts
  <2>2. Decay(0, 0, scaled, n) = [level |-> 0, rem |-> 0]
    <3>. HIDE DEF scaled, n
    <3>1. (scaled + 0) \div n >= 0
      BY <2>1
    <3>. QED BY <3>1 DEF Decay
  <2>. HIDE DEF scaled, n
  <2>3. Faded(d, scaled, n) = d
    <3>. DEFINE faded == [l \in Leds |-> Decay(d.level[l], d.rem[l], scaled, n)]
    <3>1. \A l \in Leds : faded[l] = [level |-> 0, rem |-> 0]
      BY <1>1, <2>2
    <3>2. Faded(d, scaled, n) = [d EXCEPT !.level = [l \in Leds |-> faded[l].level],
                                          !.rem = [l \in Leds |-> faded[l].rem]]
      BY DEF Faded
    <3>. HIDE DEF faded
    <3>3. [l \in Leds |-> faded[l].level] = d.level /\ [l \in Leds |-> faded[l].rem] = d.rem
      BY <1>1, <3>1
    <3>. QED BY <1>1, <3>2, <3>3 DEF HitData
  <2>. QED BY <2>3 DEF HitAdvance, scaled, n
<1>3. HitApply(e, d, led) = d
  <2>1. Adds(e)
    BY DEF Adds, Takes
  <2>2. \A l \in Leds : Contribution(e, led, l) = 0
    BY SilentContribution
  <2>. DEFINE added == [l \in Leds |-> Contribution(e, led, l)]
              new == [l \in Leds |-> Least(Peak, d.level[l] + added[l])]
  <2>3. \A l \in Leds : new[l] = 0
    BY <1>1, <2>2, SizesAssumption DEF Least
  <2>4. HitApply(e, d, led) = [d EXCEPT !.level = new]
    BY <2>1 DEF HitApply
  <2>5. new = d.level
    BY <1>1, <2>3
  <2>. HIDE DEF new
  <2>. QED BY <1>1, <2>4, <2>5 DEF HitData
<1>. QED BY <1>2, <1>3

LEMMA SilentFrame ==
    ASSUME NEW e, e.kind \in HitKinds, HitEffect(e), ~Takes(e), NEW d, Fading(e, d), Silent(d),
           NEW local \in Nat, NEW elapsed \in Nat
    PROVE  HitRender(e, d, local, elapsed) = [d EXCEPT !.pending = <<>>]
<1>. DEFINE seq == d.pending
            n == Len(seq)
            first == [data |-> d, cursor |-> local - Least(local, elapsed)]
            Replays == {a \in [data : HitData, cursor : 0 .. local] : Fading(e, a.data)}
<1>1. d \in HitData /\ seq \in Seq(Hits) /\ n \in Nat
  BY DEF Fading, HitData
<1>2. local - Least(local, elapsed) \in 0 .. local
  BY DEF Least
<1>3. \E h : Folding(h, "replay", e, local, 0, first, seq)
  <2>1. first \in Replays
    BY <1>1, <1>2
  <2>2. \A a \in Replays, b \in Hits : StepOf("replay", e, local, 0, a, b) \in Replays
    BY ReplayTyped DEF StepOf
  <2>. HIDE DEF first, Replays
  <2>. QED BY <1>1, <2>1, <2>2, StepFold
<1>4. PICK h : Folding(h, "replay", e, local, 0, first, seq)
  BY <1>3
<1>5. h[n].data = d /\ h[n].cursor \in 0 .. local
  <2>. DEFINE S == {k \in 0 .. n : h[k].data = d /\ h[k].cursor \in 0 .. local}
  <2>1. 0 \in S
    BY <1>1, <1>2, <1>4 DEF Folding, StepOf
  <2>2. ASSUME NEW k \in 1 .. n, k - 1 \in S PROVE k \in S
    <3>. DEFINE a == h[k - 1]
                ev == seq[k]
                at == Clamp(ev.at, a.cursor, local)
    <3>1. ev \in Hits /\ a.data = d /\ a.cursor \in 0 .. local
      BY <1>1, <2>2
    <3>2. at \in a.cursor .. local /\ at - a.cursor \in Nat /\ ev.led \in Leds
      <4>. DEFINE cursor == a.cursor
                  time == ev.at
      <4>1. cursor \in 0 .. local /\ time \in Nat /\ ev.led \in Leds
        BY <3>1 DEF Hits
      <4>. HIDE DEF cursor, time
      <4>2. Clamp(time, cursor, local) \in cursor .. local
            /\ Clamp(time, cursor, local) - cursor \in Nat
        BY <4>1 DEF Clamp, Least, Most
      <4>. QED BY <4>1, <4>2 DEF cursor, time
    <3>3. h[k] = Replayed(e, local, a, ev)
      BY <1>4 DEF Folding, StepOf
    <3>. HIDE DEF a, ev
    <3>4. h[k] = [data |-> HitApply(e, HitAdvance(e, a.data, at - a.cursor), ev.led),
                  cursor |-> at]
      BY <3>3 DEF Replayed
    <3>. HIDE DEF at
    <3>5. HitApply(e, HitAdvance(e, a.data, at - a.cursor), ev.led) = d
      BY <3>1, <3>2, SilentReplay
    <3>. QED BY <3>1, <3>2, <3>4, <3>5
  <2>. HIDE DEF S
  <2>3. n \in S
    <3>1. \A k \in 0 .. n : k \in S
      BY <1>1, <2>1, <2>2, UpTo
    <3>. QED BY <1>1, <3>1
  <2>. QED BY <2>3 DEF S
<1>. DEFINE acc == h[n]
<1>6. HitRender(e, d, local, elapsed) =
        [HitAdvance(e, acc.data, local - acc.cursor) EXCEPT !.pending = <<>>]
  <2>1. acc = AllSteps("replay", e, local, 0,
                       [data |-> d, cursor |-> local - Least(local, elapsed)], d.pending)
    BY <1>4 DEF Folding, StepOf
  <2>2. acc = FoldLeft(LAMBDA a, b : Replayed(e, local, a, b),
                       [data |-> d, cursor |-> local - Least(local, elapsed)], d.pending)
    <3>1. AllSteps("replay", e, local, 0,
                   [data |-> d, cursor |-> local - Least(local, elapsed)], d.pending)
            = FoldLeft(LAMBDA a, b : Replayed(e, local, a, b),
                       [data |-> d, cursor |-> local - Least(local, elapsed)], d.pending)
      BY DEF AllSteps, StepOf
    <3>. QED BY <2>1, <3>1
  <2>. HIDE DEF acc
  <2>. QED BY <2>2 DEF HitRender
<1>7. HitAdvance(e, acc.data, local - acc.cursor) = d
  <2>1. local - acc.cursor \in Nat /\ acc.data = d
    BY <1>5
  <2>2. 0 \in Leds
    BY CoordAssumption
  <2>. HIDE DEF acc
  <2>. QED BY <2>1, <2>2, SilentReplay
<1>. QED BY <1>6, <1>7

-----------------------------------------------------------------------------
(* The effects that show key events, over a run *)

HitState(e) ==
    /\ Fading(e, fx[e]) /\ promise[e] \in HitPromises
    /\ Keeps(e, fx[e], promise[e], run[e].last)
    /\ run[e].animating <=> \E l \in Leds : fx[e].level[l] # 0
    /\ fx[e].pending = IF phase = "input" /\ Takes(e) THEN arrived ELSE <<>>
    /\ fx[e].pending # <<>> => pass.changed
    /\ ~Takes(e) \/ ~active => fx[e].level = AllDark

RingFilled == TypeOK /\ Contents \in Seq(Events)

Arrivals ==
    /\ pass.now \in Nat /\ pass.drained \in Nat
    /\ arrived \in Seq(Hits) /\ Len(arrived) <= pass.drained
    /\ phase # "input" => arrived = <<>>

LastFrames ==
    \A e \in fitted.effects :
        /\ run[e].last \in Nat /\ run[e].last <= now
        /\ phase = "input" => run[e].last <= pass.now

HitStates == \A e \in fitted.effects : e.kind \in HitKinds => HitState(e)
Ripples == \A e \in fitted.effects : e.kind = "ripple" => Rippling(fx[e], promise[e])

(* Inside a pass the overlays are active where gate and output say so.     *)
Awake == phase # "idle" /\ gate /\ allowed => active

HitsKept ==
    /\ fitted \in Fittings
    /\ RingFilled /\ Arrivals /\ LastFrames /\ Awake /\ HitStates /\ Ripples

LEMMA FilledStep ==
    ASSUME RingFilled, [RingNext]_ring
    PROVE  RingFilled'
<1>1. TypeOK'
  BY RingTypes DEF RingFilled
<1>2. [Queue!Next]_(Queue!vars)
  BY <1>1, StepRefines DEF RingFilled
<1>. DEFINE old == Contents
            new == Contents'
<1>3. old \in Seq(Events)
  BY DEF RingFilled
<1>4. \/ \E e \in Events : new = Append(old, e)
      \/ new = old
      \/ old # <<>> /\ new = Tail(old)
      \/ new = <<>>
  BY <1>2 DEF Queue!Next, Queue!vars, Queue!Accept, Queue!Refuse, Queue!Deliver,
              Queue!Switch, Queue!TakeLost
<1>. HIDE DEF old, new
<1>5. new \in Seq(Events)
  <2>1. CASE \E e \in Events : new = Append(old, e)
    BY <1>3, <2>1
  <2>2. CASE new = old
    BY <1>3, <2>2
  <2>3. CASE old # <<>> /\ new = Tail(old)
    BY <1>3, <2>3, HeadTailProperties
  <2>4. CASE new = <<>>
    BY <2>4
  <2>. QED BY <1>4, <2>1, <2>2, <2>3, <2>4
<1>. QED BY <1>1, <1>5 DEF RingFilled, new

LEMMA OldestEvent ==
    ASSUME RingFilled, Available
    PROVE  slots[tail] \in Events /\ Contents[1] = slots[tail]
<1>1. slots \in [Indices -> Entries] /\ head \in Indices /\ tail \in Indices
  BY DEF RingFilled, TypeOK, Entries
<1>. DEFINE n == CountOf(head, tail)
<1>2. n \in Nat /\ n # 0 /\ Len(Contents) = n
  <2>1. n \in Nat /\ n # 0
    BY <1>1, CountBounds DEF Available
  <2>2. Len(ContentsOf(slots, head, tail)) = n
    BY <1>1, ContentsAt
  <2>. QED BY <2>1, <2>2 DEF Contents
<1>3. Contents[1] = slots[Place(tail, 0)]
  <2>1. 1 \in 1 .. n
    BY <1>2
  <2>2. ContentsOf(slots, head, tail)[1] = slots[Place(tail, 1 - 1)]
    BY <1>1, <2>1, ContentsAt
  <2>. QED BY <2>2 DEF Contents
<1>4. Place(tail, 0) = tail
  BY <1>1, QueueLenAssumption DEF Place, Indices
<1>5. Contents[1] \in Events
  <2>1. Contents \in Seq(Events) /\ 1 \in 1 .. Len(Contents)
    BY <1>2 DEF RingFilled
  <2>. QED BY <2>1
<1>. QED BY <1>3, <1>4, <1>5

LEMMA HitReset ==
    ASSUME NEW e, e.kind \in HitKinds, HitEffect(e), NEW t \in Nat
    PROVE  /\ Zero(e) = [pending |-> <<>>, level |-> AllDark, rem |-> AllDark]
           /\ Fading(e, Zero(e)) /\ Blank(e) \in HitPromises
           /\ Keeps(e, Zero(e), Blank(e), t)
<1>1. Zero(e) = [pending |-> <<>>, level |-> AllDark, rem |-> AllDark]
  BY DEF Zero, HitKinds, RainKinds
<1>2. Blank(e) = [value |-> AllDark, at |-> 0]
  BY DEF Blank, HitKinds, RainKinds
<1>3. Zero(e) \in HitData /\ \A l \in Leds : Zero(e).level[l] = 0 /\ Zero(e).rem[l] = 0
  BY <1>1 DEF HitData, AllDark
<1>4. Blank(e) \in HitPromises /\ Blank(e).at = 0 /\ \A l \in Leds : Blank(e).value[l] = 0
  BY <1>2 DEF HitPromises, AllDark
<1>5. Fading(e, Zero(e))
  BY <1>3, FadeFacts DEF Fading, Faint
<1>6. ASSUME NEW l \in Leds
      PROVE  Zero(e).level[l] * e.period - Zero(e).rem[l]
               = Residue(e, Blank(e).value[l], t - Blank(e).at)
  <2>1. Zero(e).level[l] * e.period - Zero(e).rem[l] = 0
    BY <1>3, FadeFacts
  <2>2. FadeScale(e) * (t - Blank(e).at) \in Nat
    BY <1>4, FadeFacts
  <2>. QED BY <1>4, <2>1, <2>2 DEF Residue, Most
<1>7. Keeps(e, Zero(e), Blank(e), t)
  BY <1>4, <1>6 DEF Keeps
<1>. QED BY <1>1, <1>4, <1>5, <1>7

LEMMA KindsFitted ==
    ASSUME fitted \in Fittings, NEW e \in fitted.effects
    PROVE  /\ e.kind \in HitKinds => HitEffect(e)
           /\ e.kind = "ripple" => e.period \in Nat \ {0}
           /\ e.kind = "ripple" => e.kind \notin HitKinds
BY FittingsAssumption DEF HitKinds

LEMMA HitsInit == Init => HitsKept
<1>. SUFFICES ASSUME Init PROVE HitsKept
  OBVIOUS
<1>1. fitted \in Fittings /\ now = 0 /\ phase = "idle" /\ active = FALSE /\ arrived = <<>>
      /\ pass = [now |-> 0, paint |-> FALSE, changed |-> FALSE, drained |-> 0]
      /\ \A e \in fitted.effects :
            run[e] = [animating |-> FALSE, last |-> 0] /\ fx[e] = Zero(e) /\ promise[e] = Blank(e)
  BY DEF Init, NoPass
<1>2. RingFilled
  <2>1. TypeOK
    BY RingInitTypes DEF Init
  <2>2. slots \in [Indices -> Entries] /\ head \in Indices /\ tail = head
    BY <2>1 DEF TypeOK, Entries, Init, RingInit
  <2>3. Contents \in Seq(Entries) /\ Len(Contents) = 0
    BY <2>2, ContentsAt, CountBounds DEF Contents
  <2>4. Contents = <<>>
    BY <2>3, EmptySeq
  <2>. QED BY <2>1, <2>4 DEF RingFilled
<1>3. Arrivals /\ LastFrames /\ Awake
  BY <1>1 DEF Arrivals, LastFrames, Awake
<1>4. ASSUME NEW e \in fitted.effects, e.kind \in HitKinds PROVE HitState(e)
  <2>1. HitEffect(e)
    BY <1>1, <1>4, KindsFitted
  <2>2. /\ Zero(e) = [pending |-> <<>>, level |-> AllDark, rem |-> AllDark]
        /\ Fading(e, Zero(e)) /\ Blank(e) \in HitPromises
        /\ Keeps(e, Zero(e), Blank(e), 0)
    BY <1>4, <2>1, HitReset
  <2>3. fx[e].level = AllDark /\ fx[e].pending = <<>> /\ ~\E l \in Leds : fx[e].level[l] # 0
    BY <1>1, <2>2 DEF AllDark
  <2>. QED BY <1>1, <2>2, <2>3 DEF HitState
<1>5. Ripples
  BY <1>1, RippleInit DEF Ripples
<1>. QED BY <1>1, <1>2, <1>3, <1>4, <1>5 DEF HitsKept, HitStates

(* Overlays that are reset or left are dark, and what is entered was.      *)
LEMMA StartKeepsHits ==
    ASSUME Typed, HitsKept, NEW repaint \in BOOLEAN, StartPass(repaint)
    PROVE  Arrivals' /\ LastFrames' /\ Awake' /\ HitStates' /\ Ripples'
<1>. DEFINE wanted == allowed /\ gate
            leaves == active /\ ~wanted
            restarts == resetPending \/ active # wanted
<1>1. /\ UNCHANGED <<now, fitted, gate, allowed>>
      /\ phase = "idle" /\ phase' = "input" /\ arrived' = <<>>
      /\ active' = wanted
      /\ pass' = [now |-> now, paint |-> repaint \/ (next # NoDeadline /\ now >= next),
                  changed |-> FALSE, drained |-> 0]
  BY DEF StartPass, ring
<1>2. \A e \in fitted.effects :
         /\ fx'[e] = IF resetPending THEN Zero(e)
                     ELSE IF leaves THEN Deactivated(e, fx[e]) ELSE fx[e]
         /\ run'[e] = IF restarts THEN [run[e] EXCEPT !.animating = FALSE] ELSE run[e]
         /\ promise'[e] = IF resetPending \/ (leaves /\ e.kind \in EventKinds)
                          THEN Blank(e) ELSE promise[e]
  BY DEF StartPass
<1>3. wanted \in BOOLEAN /\ active \in BOOLEAN /\ resetPending \in BOOLEAN /\ now \in Nat
  BY DEF Typed
<1>4. \A e \in fitted.effects : /\ run[e] \in Runs /\ run'[e].last = run[e].last
                                /\ run'[e].animating = (run[e].animating /\ ~restarts)
  <2>1. restarts \in BOOLEAN
    OBVIOUS
  <2>. HIDE DEF restarts
  <2>2. ASSUME NEW e \in fitted.effects
        PROVE  /\ run[e] \in Runs
               /\ run'[e] = IF restarts THEN [run[e] EXCEPT !.animating = FALSE] ELSE run[e]
    BY <1>2 DEF Typed
  <2>3. ASSUME NEW r \in Runs
        PROVE  LET q == IF restarts THEN [r EXCEPT !.animating = FALSE] ELSE r
               IN  q.last = r.last /\ q.animating = (r.animating /\ ~restarts)
    BY <2>1 DEF Runs
  <2>4. ASSUME NEW e \in fitted.effects
        PROVE  /\ run[e] \in Runs /\ run'[e].last = run[e].last
               /\ run'[e].animating = (run[e].animating /\ ~restarts)
    <3>. DEFINE r == run[e]
                q == run'[e]
    <3>1. r \in Runs /\ q = IF restarts THEN [r EXCEPT !.animating = FALSE] ELSE r
      BY <2>2
    <3>. HIDE DEF r, q
    <3>2. q.last = r.last /\ q.animating = (r.animating /\ ~restarts)
      BY <2>3, <3>1
    <3>. QED BY <3>1, <3>2 DEF r, q
  <2>. QED BY <2>4
<1>5. \A e \in fitted.effects : e.kind \in EventKinds =>
         IF resetPending \/ leaves THEN fx'[e] = Zero(e) /\ promise'[e] = Blank(e)
         ELSE fx'[e] = fx[e] /\ promise'[e] = promise[e]
  BY <1>2 DEF Deactivated
<1>. HIDE DEF wanted
<1>6. Arrivals'
  BY <1>1, <1>3 DEF Arrivals
<1>7. LastFrames'
  BY <1>1, <1>4 DEF HitsKept, LastFrames
<1>8. ASSUME NEW e \in fitted.effects, e.kind \in HitKinds PROVE HitState(e)'
  <2>1. HitEffect(e) /\ HitState(e) /\ run[e].last \in Nat /\ e.kind \in EventKinds
    BY <1>8, KindsFitted DEF HitsKept, HitStates, LastFrames, EventKinds
  <2>2. fx'[e].pending = <<>> => fx'[e].pending = IF phase' = "input" /\ Takes(e) THEN arrived' ELSE <<>>
    BY <1>1
  <2>3. CASE resetPending \/ leaves
    <3>1. /\ Zero(e) = [pending |-> <<>>, level |-> AllDark, rem |-> AllDark]
          /\ Fading(e, Zero(e)) /\ Blank(e) \in HitPromises
          /\ Keeps(e, Zero(e), Blank(e), run[e].last)
      BY <1>8, <2>1, HitReset
    <3>2. fx'[e] = Zero(e) /\ promise'[e] = Blank(e) /\ restarts
      BY <1>3, <1>5, <2>1, <2>3
    <3>3. fx'[e].level = AllDark /\ fx'[e].pending = <<>> /\ ~\E l \in Leds : fx'[e].level[l] # 0
      BY <3>1, <3>2 DEF AllDark
    <3>4. ~run'[e].animating /\ run'[e].last = run[e].last
      BY <1>4, <3>2
    <3>5. /\ Fading(e, fx'[e]) /\ promise'[e] \in HitPromises
          /\ Keeps(e, fx'[e], promise'[e], run'[e].last)
      BY <3>1, <3>2, <3>4
    <3>. HIDE DEF restarts, leaves
    <3>. QED BY <2>2, <3>3, <3>4, <3>5 DEF HitState
  <2>4. CASE ~(resetPending \/ leaves)
    <3>1. fx'[e] = fx[e] /\ promise'[e] = promise[e]
      BY <1>5, <2>1, <2>4
    <3>2. restarts => ~active
      BY <1>3, <2>4
    <3>3. ~active' => ~active
      BY <1>1, <1>3, <2>4
    <3>4. run'[e].animating <=> \E l \in Leds : fx'[e].level[l] # 0
      <4>1. ~active => ~\E l \in Leds : fx[e].level[l] # 0
        BY <2>1 DEF HitState, AllDark
      <4>2. run[e].animating <=> \E l \in Leds : fx[e].level[l] # 0
        BY <2>1 DEF HitState
      <4>. HIDE DEF restarts
      <4>. QED BY <1>4, <3>1, <3>2, <4>1, <4>2
    <3>. HIDE DEF restarts, leaves
    <3>5. fx'[e].pending = <<>>
      BY <1>1, <2>1, <3>1 DEF HitState
    <3>6. /\ Fading(e, fx'[e]) /\ promise'[e] \in HitPromises
          /\ Keeps(e, fx'[e], promise'[e], run'[e].last)
      <4>1. run'[e].last = run[e].last
        BY <1>4
      <4>. QED BY <2>1, <3>1, <4>1 DEF HitState
    <3>7. ~Takes(e) \/ ~active' => fx'[e].level = AllDark
      BY <2>1, <3>1, <3>3 DEF HitState
    <3>. QED BY <2>2, <3>4, <3>5, <3>6, <3>7 DEF HitState
  <2>. QED BY <2>3, <2>4
<1>9. Ripples'
  <2>1. ASSUME NEW e \in fitted.effects, e.kind = "ripple" PROVE Rippling(fx'[e], promise'[e])
    <3>1. Rippling(fx[e], promise[e]) /\ Rippling(Zero(e), Blank(e)) /\ e.kind \in EventKinds
      BY <2>1, RippleInit DEF HitsKept, Ripples, EventKinds
    <3>. HIDE DEF leaves
    <3>. QED BY <1>5, <3>1
  <2>. QED BY <1>1, <2>1 DEF Ripples
<1>10. Awake'
  BY <1>1 DEF Awake, wanted
<1>. QED BY <1>1, <1>6, <1>7, <1>8, <1>9, <1>10 DEF HitStates

(* Steps beside a pass leave it and the effects alone.                     *)
LEMMA BesidePass ==
    ASSUME HitsKept, RingFilled', now \in Nat, now' \in Nat, now <= now',
           UNCHANGED <<fitted, phase, pass, active, run, fx, promise, arrived>>,
           phase = "idle" \/ UNCHANGED <<gate, allowed>>
    PROVE  HitsKept'
<1>1. LastFrames'
  BY DEF HitsKept, LastFrames
<1>2. HitStates'
  BY DEF HitsKept, HitStates, HitState
<1>3. Arrivals' /\ Awake' /\ Ripples'
  BY DEF HitsKept, Arrivals, Awake, Ripples
<1>. QED BY <1>1, <1>2, <1>3 DEF HitsKept

(* Where nothing is pending, the pass may end.                             *)
LEMMA PassEnds ==
    ASSUME HitsKept, RingFilled',
           UNCHANGED <<fitted, now, gate, allowed, active, run, fx, promise>>,
           phase # "idle", phase' # "input", arrived' = <<>>, pass'.now \in Nat, pass'.drained \in Nat,
           \A e \in fitted.effects : e.kind \in HitKinds => fx[e].pending = <<>>
    PROVE  HitsKept'
<1>1. LastFrames'
  BY DEF HitsKept, LastFrames
<1>2. HitStates'
  BY DEF HitsKept, HitStates, HitState
<1>3. Arrivals' /\ Awake' /\ Ripples'
  BY DEF HitsKept, Arrivals, Awake, Ripples
<1>. QED BY <1>1, <1>2, <1>3 DEF HitsKept

LEMMA SkipKeepsHits ==
    ASSUME Armed, HitsKept, RingFilled', Skip
    PROVE  HitsKept'
<1>1. /\ UNCHANGED <<fitted, now, gate, allowed, active, run, fx, promise>>
      /\ phase = "input" /\ phase' = "idle" /\ arrived' = <<>>
      /\ pass' = [now |-> 0, paint |-> FALSE, changed |-> FALSE, drained |-> 0]
  BY DEF Skip, NoPass, ring
<1>2. ~pass.changed
  <2>1. pass.changed => allowed
    BY <1>1 DEF Armed, Asked
  <2>. QED BY <2>1 DEF Skip, Painting
<1>3. \A e \in fitted.effects : e.kind \in HitKinds => fx[e].pending = <<>>
  BY <1>2 DEF HitsKept, HitStates, HitState
<1>. QED BY <1>1, <1>3, PassEnds

LEMMA FinishKeepsHits ==
    ASSUME HitsKept, RingFilled', FinishFrame
    PROVE  HitsKept'
<1>1. /\ UNCHANGED <<fitted, now, gate, allowed, active, run, fx, promise, arrived>>
      /\ phase = "painted" /\ phase' = "idle"
      /\ pass' = [now |-> 0, paint |-> FALSE, changed |-> FALSE, drained |-> 0]
  BY DEF FinishFrame, NoPass, ring
<1>2. arrived' = <<>>
  BY <1>1 DEF HitsKept, Arrivals
<1>3. \A e \in fitted.effects : e.kind \in HitKinds => fx[e].pending = <<>>
  BY <1>1 DEF HitsKept, HitStates, HitState
<1>. QED BY <1>1, <1>2, <1>3, PassEnds

(* Behind a closed gate nothing was asked for.                             *)
LEMMA ShutKeepsHits ==
    ASSUME Armed, HitsKept, RingFilled', Paint, ~gate
    PROVE  HitsKept'
<1>1. /\ UNCHANGED <<fitted, now, gate, allowed, active, pass, run, fx, promise>>
      /\ phase = "input" /\ phase' = "painted" /\ arrived' = <<>>
  BY DEF Paint, ring
<1>2. ~pass.changed
  BY <1>1 DEF Armed, Asked
<1>3. \A e \in fitted.effects : e.kind \in HitKinds => fx[e].pending = <<>>
  BY <1>2 DEF HitsKept, HitStates, HitState
<1>4. pass'.now \in Nat /\ pass'.drained \in Nat
  BY <1>1 DEF HitsKept, Arrivals
<1>. QED BY <1>1, <1>3, <1>4, PassEnds

(* A hit effect that takes presses has each of them wait for the frame.    *)
LEMMA HitDelivered ==
    ASSUME NEW e, e.kind \in HitKinds, HitEffect(e), NEW d, Fading(e, d),
           Len(d.pending) < PendingCap,
           NEW ev \in Events, ev.led \in Leds
    PROVE  LET answer == OnEvent(e, d, ev)
           IN  /\ answer.changed = (ev.pressed /\ Takes(e))
               /\ answer.data.pending = IF ev.pressed /\ Takes(e) THEN Append(d.pending, ev)
                                        ELSE d.pending
               /\ answer.data.level = d.level /\ answer.data.rem = d.rem
               /\ Fading(e, answer.data)
<1>. DEFINE answer == OnEvent(e, d, ev)
            waits == ev.pressed /\ Takes(e)
<1>1. d \in HitData /\ ev \in [led : Leds \cup {NoLed}, pressed : BOOLEAN, at : Nat]
  BY EventsAssumption DEF Fading
<1>2. Len(d.pending) # PendingCap
  BY <1>1, SizesAssumption DEF HitData
<1>3. answer = [data |-> IF waits THEN [d EXCEPT !.pending = Append(@, ev)] ELSE d,
                changed |-> waits]
  <2>1. answer = HitEvent(e, d, ev)
    BY DEF OnEvent, HitKinds
  <2>. HIDE DEF answer
  <2>2. CASE waits
    BY <1>2, <2>1, <2>2 DEF HitEvent, Takes
  <2>3. CASE ~waits
    <3>1. ev.pressed \in BOOLEAN
      BY <1>1
    <3>2. ~waits = TRUE /\ waits = FALSE
      BY <2>3, <3>1
    <3>3. answer = [data |-> d, changed |-> FALSE]
      BY <2>1, <2>3, <3>1 DEF HitEvent, Takes
    <3>. HIDE DEF waits
    <3>. QED BY <3>2, <3>3
  <2>. QED BY <2>2, <2>3
<1>. HIDE DEF answer
<1>4. /\ answer.changed = waits
      /\ answer.data = IF waits THEN [d EXCEPT !.pending = Append(@, ev)] ELSE d
  <2>. HIDE DEF waits
  <2>. QED BY <1>3
<1>5. CASE waits
  <2>1. ev \in Hits
    BY <1>1, <1>5 DEF Hits
  <2>2. Append(d.pending, ev) \in Seq(Hits)
    BY <1>1, <2>1 DEF HitData
  <2>3. answer.data = [d EXCEPT !.pending = Append(d.pending, ev)]
    BY <1>4, <1>5
  <2>4. /\ answer.data \in HitData /\ answer.data.pending = Append(d.pending, ev)
        /\ answer.data.level = d.level /\ answer.data.rem = d.rem
    BY <1>1, <2>2, <2>3 DEF HitData
  <2>5. Fading(e, answer.data)
    BY <2>4 DEF Fading
  <2>. HIDE DEF waits
  <2>. QED BY <1>4, <1>5, <2>4, <2>5 DEF answer, waits
<1>6. CASE ~waits
  <2>1. answer.data = d
    BY <1>4, <1>6
  <2>. HIDE DEF waits
  <2>. QED BY <1>4, <1>6, <2>1 DEF answer, waits
<1>. QED BY <1>5, <1>6

LEMMA DeliverKeepsHits ==
    ASSUME Typed, HitsKept, RingFilled', Deliver
    PROVE  HitsKept'
<1>. DEFINE ev == slots[tail]
            heard == gate /\ active /\ ev.led # NoLed
            answer(e) == OnEvent(e, fx[e], ev)
<1>1. /\ UNCHANGED <<fitted, now, phase, gate, allowed, active, run>>
      /\ phase = "input" /\ pass.drained < QueueLen /\ Available
  BY DEF Deliver, Pop
<1>2. ev \in Events /\ Contents[1] = ev
  BY <1>1, OldestEvent DEF HitsKept
<1>3. ev \in [led : Leds \cup {NoLed}, pressed : BOOLEAN, at : Nat]
  BY <1>2, EventsAssumption
<1>4. /\ pass.now \in Nat /\ pass.drained \in Nat /\ arrived \in Seq(Hits)
      /\ Len(arrived) <= pass.drained
  BY DEF HitsKept, Arrivals
<1>5. CASE ~heard
  <2>1. UNCHANGED <<fx, promise, arrived>> /\ pass' = Drained(FALSE)
    BY <1>5 DEF Deliver
  <2>2. /\ pass'.now = pass.now /\ pass'.drained = pass.drained + 1
        /\ pass.changed => pass'.changed
    BY <2>1 DEF Drained
  <2>3. Arrivals'
    <3>1. /\ arrived' = arrived /\ pass'.now \in Nat /\ pass'.drained \in Nat
          /\ Len(arrived) <= pass'.drained
      <4>. DEFINE k == pass.drained
                  m == Len(arrived)
      <4>1. k \in Nat /\ m \in Nat /\ m <= k /\ pass'.drained = k + 1
        BY <1>4, <2>2
      <4>. HIDE DEF k, m
      <4>2. m <= k + 1 /\ k + 1 \in Nat
        BY <4>1
      <4>. QED BY <1>4, <2>1, <2>2, <4>1, <4>2 DEF m
    <3>. QED BY <1>1, <1>4, <3>1 DEF Arrivals
  <2>4. LastFrames'
    BY <1>1, <2>2 DEF HitsKept, LastFrames
  <2>5. HitStates' /\ Awake' /\ Ripples'
    BY <1>1, <2>1, <2>2 DEF HitsKept, HitStates, HitState, Awake, Ripples
  <2>. QED BY <1>1, <2>3, <2>4, <2>5 DEF HitsKept
<1>6. CASE heard
  <2>1. /\ fx' = [e \in fitted.effects |-> answer(e).data]
        /\ pass' = Drained(\E e \in fitted.effects : answer(e).changed)
        /\ promise' = [e \in fitted.effects |-> Heard(e, promise[e], ev)]
        /\ arrived' = IF ev.pressed THEN Append(arrived, ev) ELSE arrived
    BY <1>2, <1>6 DEF Deliver
  <2>2. ev.led \in Leds
    BY <1>3, <1>6
  <2>. HIDE DEF ev
  <2>3. /\ pass'.now = pass.now /\ pass'.drained = pass.drained + 1
        /\ pass.changed => pass'.changed
        /\ \A e \in fitted.effects : answer(e).changed => pass'.changed
    <3>. HIDE DEF answer
    <3>. QED BY <2>1 DEF Drained
  <2>4. Arrivals'
    <3>1. ev.pressed => ev \in Hits
      BY <1>3, <2>2 DEF Hits
    <3>2. arrived' \in Seq(Hits) /\ Len(arrived') <= pass.drained + 1
      BY <1>4, <2>1, <3>1
    <3>. QED BY <1>1, <1>4, <2>3, <3>2 DEF Arrivals
  <2>5. LastFrames'
    BY <1>1, <2>3 DEF HitsKept, LastFrames
  <2>6. ASSUME NEW e \in fitted.effects, e.kind \in HitKinds PROVE HitState(e)'
    <3>1. HitEffect(e) /\ HitState(e) /\ e.kind # "ripple"
      BY <2>6, KindsFitted DEF HitsKept, HitStates
    <3>2. fx[e].pending = IF Takes(e) THEN arrived ELSE <<>>
      BY <1>1, <3>1 DEF HitState
    <3>3. Len(fx[e].pending) < PendingCap
      <4>. DEFINE m == Len(fx[e].pending)
                  k == pass.drained
      <4>1. m <= Len(arrived) /\ Len(arrived) \in Nat /\ m \in Nat
        BY <1>4, <3>2
      <4>. HIDE DEF m
      <4>2. k \in Nat /\ Len(arrived) <= k /\ k < QueueLen
        BY <1>1, <1>4
      <4>. HIDE DEF k
      <4>. QED BY <4>1, <4>2, QueueLenAssumption, EventsAssumption, SizesAssumption DEF m
    <3>4. /\ answer(e).changed = (ev.pressed /\ Takes(e))
          /\ answer(e).data.pending = IF ev.pressed /\ Takes(e) THEN Append(fx[e].pending, ev)
                                      ELSE fx[e].pending
          /\ answer(e).data.level = fx[e].level /\ answer(e).data.rem = fx[e].rem
          /\ Fading(e, answer(e).data)
      <4>1. Fading(e, fx[e])
        BY <3>1 DEF HitState
      <4>. QED BY <1>2, <2>2, <2>6, <3>1, <3>3, <4>1, HitDelivered
    <3>5. fx'[e] = answer(e).data /\ promise'[e] = promise[e]
      <4>1. fx'[e] = answer(e).data /\ promise'[e] = Heard(e, promise[e], ev)
        <5>. HIDE DEF answer
        <5>. QED BY <2>1
      <4>. QED BY <3>1, <4>1 DEF Heard
    <3>6. answer(e).changed => pass'.changed
      BY <2>3
    <3>. HIDE DEF answer
    <3>7. fx'[e].pending = IF phase' = "input" /\ Takes(e) THEN arrived' ELSE <<>>
      BY <1>1, <2>1, <3>2, <3>4, <3>5
    <3>8. fx'[e].pending # <<>> => pass'.changed
      BY <2>3, <3>1, <3>4, <3>5, <3>6 DEF HitState
    <3>9. Keeps(e, fx'[e], promise'[e], run'[e].last)
      BY <1>1, <3>1, <3>4, <3>5 DEF HitState, Keeps
    <3>10. /\ run'[e].animating <=> \E l \in Leds : fx'[e].level[l] # 0
           /\ ~Takes(e) \/ ~active' => fx'[e].level = AllDark
      BY <1>1, <3>1, <3>4, <3>5 DEF HitState
    <3>11. Fading(e, fx'[e]) /\ promise'[e] \in HitPromises
      BY <3>1, <3>4, <3>5 DEF HitState
    <3>. QED BY <3>7, <3>8, <3>9, <3>10, <3>11 DEF HitState
  <2>7. ASSUME NEW e \in fitted.effects, e.kind = "ripple"
        PROVE  Rippling(fx'[e], promise'[e])
    <3>1. Rippling(fx[e], promise[e])
      BY <2>7 DEF HitsKept, Ripples
    <3>2. answer(e) = RippleEvent(e, fx[e], ev)
      BY <2>7 DEF OnEvent, HitKinds
    <3>3. fx'[e] = RippleEvent(e, fx[e], ev).data /\ promise'[e] = Heard(e, promise[e], ev)
      <4>. HIDE DEF answer
      <4>. QED BY <2>1, <3>2
    <3>4. ev.pressed \in BOOLEAN /\ ev.at \in Nat
      BY <1>3 DEF ev
    <3>. QED BY <2>7, <3>1, <3>3, <3>4, RippleHears
  <2>8. Awake'
    BY <1>1 DEF HitsKept, Awake
  <2>. QED BY <1>1, <2>4, <2>5, <2>6, <2>7, <2>8 DEF HitsKept, HitStates, Ripples
<1>. QED BY <1>5, <1>6

LEMMA FrameShows ==
    ASSUME NEW e, e.kind \in HitKinds, HitEffect(e), NEW d, Fading(e, d),
           NEW p \in HitPromises, NEW last \in Nat, Keeps(e, d, p, last),
           NEW local \in Nat, last <= local, NEW elapsed \in Nat,
           elapsed = IF \E l \in Leds : d.level[l] # 0 THEN local - last ELSE 0,
           NEW presses \in Seq(Hits), d.pending = IF Takes(e) THEN presses ELSE <<>>,
           ~Takes(e) => d.level = AllDark
    PROVE  LET f == HitRender(e, d, local, elapsed)
               q == HitPromise(e, p, last, local, presses)
           IN  /\ Fading(e, f) /\ f.pending = <<>>
               /\ q \in HitPromises /\ Keeps(e, f, q, local)
               /\ ~Takes(e) => f.level = AllDark
<1>. DEFINE f == HitRender(e, d, local, elapsed)
            q == HitPromise(e, p, last, local, presses)
<1>1. CASE Takes(e)
  <2>1. d.pending = presses
    BY <1>1
  <2>2. LET y == HitPromise(e, p, last, local, d.pending)
        IN  /\ Fading(e, f) /\ f.pending = <<>>
            /\ y \in HitPromises /\ Keeps(e, f, y, local)
    BY FrameKeeps
  <2>. HIDE DEF f
  <2>. QED BY <1>1, <2>1, <2>2 DEF f
<1>2. CASE ~Takes(e)
  <2>. DEFINE d2 == [d EXCEPT !.pending = presses]
              f2 == HitRender(e, d2, local, elapsed)
  <2>1. d \in HitData /\ d.level = AllDark
    BY <1>2 DEF Fading
  <2>2. d2 \in HitData /\ d2.pending = presses /\ d2.level = d.level /\ d2.rem = d.rem
    BY <2>1 DEF HitData
  <2>3. d.rem = AllDark
    <3>1. \A l \in Leds : d.rem[l] = 0
      BY <2>1 DEF Fading, Faint, AllDark
    <3>. QED BY <2>1, <3>1 DEF HitData, AllDark
  <2>4. Silent(d) /\ Silent(d2)
    BY <2>1, <2>2, <2>3 DEF Silent
  <2>. HIDE DEF d2
  <2>5. Fading(e, d2) /\ Keeps(e, d2, p, last)
    BY <2>2 DEF Fading, Keeps
  <2>6. elapsed = IF \E l \in Leds : d2.level[l] # 0 THEN local - last ELSE 0
    BY <2>2
  <2>7. LET y == HitPromise(e, p, last, local, d2.pending)
        IN  Fading(e, f2) /\ y \in HitPromises /\ Keeps(e, f2, y, local)
    BY <2>5, <2>6, FrameKeeps
  <2>8. f2 = [d2 EXCEPT !.pending = <<>>]
    BY <1>2, <2>4, <2>5, SilentFrame
  <2>9. f = [d EXCEPT !.pending = <<>>]
    BY <1>2, <2>4, SilentFrame
  <2>. HIDE DEF f, f2
  <2>10. /\ f \in HitData /\ f.pending = <<>>
         /\ f.level = d.level /\ f.rem = d.rem
    <3>1. <<>> \in Seq(Hits)
      OBVIOUS
    <3>. QED BY <2>1, <2>9, <3>1 DEF HitData
  <2>11. f2.level = d.level /\ f2.rem = d.rem
    BY <2>2, <2>8 DEF HitData
  <2>12. q \in HitPromises /\ Keeps(e, f2, q, local)
    BY <2>2, <2>7
  <2>. HIDE DEF q
  <2>13. Keeps(e, f, q, local) /\ Fading(e, f)
    BY <2>10, <2>11, <2>12 DEF Keeps, Fading
  <2>. QED BY <2>1, <2>10, <2>12, <2>13 DEF f, q
<1>. QED BY <1>1, <1>2

LEMMA PaintKeepsHits ==
    ASSUME Typed, HitsKept, RingFilled', Paint, gate
    PROVE  HitsKept'
<1>1. /\ UNCHANGED <<fitted, now, gate, allowed, active, pass>>
      /\ phase = "input" /\ phase' = "painted" /\ arrived' = <<>> /\ allowed
  BY DEF Paint, Painting, ring
<1>2. /\ pass.now \in Nat /\ pass.drained \in Nat /\ arrived \in Seq(Hits)
      /\ pass.now <= now /\ run \in [fitted.effects -> Runs]
  BY DEF HitsKept, Arrivals, Typed
<1>3. active
  BY <1>1 DEF HitsKept, Awake
<1>4. PICK roll :
        /\ fx' = [e \in fitted.effects |-> Render(e, fx[e], FrameFor(e), roll[e])]
        /\ run' = [e \in fitted.effects |->
                     [animating |-> Evolving(e, fx'[e]), last |-> pass.now]]
        /\ promise' = [e \in fitted.effects |->
             Promised(e, promise[e], PromiseFrame(e), run[e].last, arrived, roll[e])]
  <2>1. PICK roll :
        LET data == [e \in fitted.effects |-> Render(e, fx[e], FrameFor(e), roll[e])]
        IN /\ fx' = data
           /\ run' = [e \in fitted.effects |->
                        [animating |-> Evolving(e, data[e]), last |-> pass.now]]
           /\ promise' = [e \in fitted.effects |->
                Promised(e, promise[e], PromiseFrame(e), run[e].last, arrived, roll[e])]
    BY DEF Paint
  <2>2. run' = [e \in fitted.effects |->
                  [animating |-> Evolving(e, fx'[e]), last |-> pass.now]]
    BY <2>1
  <2>. QED BY <2>1, <2>2
<1>5. \A e \in fitted.effects :
        /\ fx'[e] = Render(e, fx[e], FrameFor(e), roll[e])
        /\ run'[e].animating = Evolving(e, fx'[e]) /\ run'[e].last = pass.now
        /\ promise'[e] =
             Promised(e, promise[e], PromiseFrame(e), run[e].last, arrived, roll[e])
  BY <1>4
<1>6. LastFrames'
  BY <1>1, <1>2, <1>5 DEF LastFrames
<1>7. Arrivals' /\ Awake'
  <2>1. Len(arrived') = 0 /\ arrived' \in Seq(Hits)
    BY <1>1
  <2>2. 0 <= pass.drained
    BY <1>2
  <2>. QED BY <1>1, <1>2, <1>3, <2>1, <2>2 DEF Arrivals, Awake
<1>8. ASSUME NEW e \in fitted.effects, e.kind \in HitKinds PROVE HitState(e)'
  <2>. DEFINE local == pass.now
              last == run[e].last
              elapsed == FrameFor(e).elapsed
              d == fx[e]
              p == promise[e]
  <2>1. /\ HitEffect(e) /\ HitState(e)
        /\ last \in Nat /\ last <= local /\ local \in Nat
    BY <1>1, <1>2, <1>8, KindsFitted DEF HitsKept, HitStates, LastFrames
  <2>2. /\ fx'[e] = HitRender(e, d, local, elapsed)
        /\ promise'[e] = HitPromise(e, p, last, local, arrived)
    <3>1. FrameFor(e).local = local /\ PromiseFrame(e).local = local
      BY DEF FrameFor, PromiseFrame
    <3>. QED BY <1>5, <1>8, <3>1 DEF Render, Promised, HitKinds, RainKinds
  <2>3. run[e].animating <=> \E l \in Leds : d.level[l] # 0
    BY <2>1 DEF HitState
  <2>4. elapsed \in Nat
        /\ elapsed = IF \E l \in Leds : d.level[l] # 0 THEN local - last ELSE 0
    <3>1. elapsed = IF run[e].animating THEN Most(0, local - last) ELSE 0
      BY DEF FrameFor
    <3>. HIDE DEF elapsed, local, last, d
    <3>2. Most(0, local - last) = local - last /\ local - last \in Nat
      BY <2>1 DEF Most
    <3>. QED BY <2>3, <3>1, <3>2
  <2>5. /\ d.pending = IF Takes(e) THEN arrived ELSE <<>>
        /\ ~Takes(e) => d.level = AllDark
        /\ Fading(e, d) /\ p \in HitPromises /\ Keeps(e, d, p, last)
    BY <1>1, <2>1 DEF HitState
  <2>. HIDE DEF elapsed, local, last, d, p
  <2>6. LET f == HitRender(e, d, local, elapsed)
            q == HitPromise(e, p, last, local, arrived)
        IN  /\ Fading(e, f) /\ f.pending = <<>>
            /\ q \in HitPromises /\ Keeps(e, f, q, local)
            /\ ~Takes(e) => f.level = AllDark
    <3>1. /\ e.kind \in HitKinds /\ HitEffect(e) /\ Fading(e, d)
          /\ p \in HitPromises /\ last \in Nat /\ Keeps(e, d, p, last)
          /\ local \in Nat /\ last <= local /\ elapsed \in Nat
          /\ elapsed = IF \E l \in Leds : d.level[l] # 0 THEN local - last ELSE 0
          /\ arrived \in Seq(Hits) /\ d.pending = IF Takes(e) THEN arrived ELSE <<>>
          /\ ~Takes(e) => d.level = AllDark
      BY <1>2, <1>8, <2>1, <2>4, <2>5
    <3>. QED BY ONLY <3>1, FrameShows
  <2>7. /\ Fading(e, fx'[e]) /\ fx'[e].pending = <<>>
        /\ promise'[e] \in HitPromises /\ Keeps(e, fx'[e], promise'[e], local)
        /\ ~Takes(e) => fx'[e].level = AllDark
    BY <2>2, <2>6
  <2>8. run'[e].last = local /\ run'[e].animating = Evolving(e, fx'[e])
    BY <1>5 DEF local
  <2>9. Evolving(e, fx'[e]) = \E l \in Leds : fx'[e].level[l] # 0
    BY <1>8 DEF Evolving, HitKinds
  <2>10. run'[e].animating <=> \E l \in Leds : fx'[e].level[l] # 0
    BY <2>8, <2>9
  <2>. QED BY <1>1, <1>3, <2>7, <2>8, <2>10 DEF HitState
<1>9. ASSUME NEW e \in fitted.effects, e.kind = "ripple"
      PROVE  Rippling(fx'[e], promise'[e])
  <2>1. e.period \in Nat \ {0} /\ Rippling(fx[e], promise[e])
    BY <1>9, KindsFitted DEF HitsKept, Ripples
  <2>2. /\ fx'[e] = RippleRender(e, fx[e], pass.now)
        /\ promise'[e] = RipplePromise(e, promise[e], pass.now)
    <3>1. FrameFor(e).local = pass.now /\ PromiseFrame(e).local = pass.now
      BY DEF FrameFor, PromiseFrame
    <3>. QED BY <1>5, <1>9, <3>1 DEF Render, Promised, HitKinds, RainKinds
  <2>. QED BY <1>2, <1>9, <2>1, <2>2, RippleFrame
<1>. QED BY <1>1, <1>6, <1>7, <1>8, <1>9 DEF HitsKept, HitStates, Ripples

LEMMA HitsStep == Typed /\ Typed' /\ Armed /\ HitsKept /\ [Next]_vars => HitsKept'
<1>. SUFFICES ASSUME Typed, Typed', Armed, HitsKept, [Next]_vars PROVE HitsKept'
  OBVIOUS
<1>1. RingFilled'
  <2>1. [RingNext]_ring
    BY StepsOfRing
  <2>. QED BY <2>1, FilledStep DEF HitsKept
<1>2. now \in Nat /\ now' \in Nat
  BY DEF Typed
<1>. DEFINE Beside == /\ now <= now'
                      /\ UNCHANGED <<fitted, phase, pass, active, run, fx, promise, arrived>>
                      /\ phase = "idle" \/ UNCHANGED <<gate, allowed>>
<1>3. Beside => HitsKept'
  BY <1>1, <1>2, BesidePass
<1>4. CASE UNCHANGED vars
  BY <1>2, <1>3, <1>4 DEF vars, ring, frames
<1>5. CASE Elapse
  BY <1>2, <1>3, <1>5 DEF Elapse, ring, history
<1>6. ASSUME NEW ev \in Events, KeyEvent(ev) PROVE HitsKept'
  BY <1>2, <1>3, <1>6 DEF KeyEvent, Push, history
<1>7. ASSUME NEW late \in 0 .. MaxLag, ClockCommand(late) PROVE HitsKept'
  BY <1>2, <1>3, <1>7 DEF ClockCommand, ring
<1>8. CASE SwitchOutput
  BY <1>2, <1>3, <1>8 DEF SwitchOutput, Upset
<1>9. CASE SwitchGate
  BY <1>2, <1>3, <1>9 DEF SwitchGate, Upset, history
<1>10. CASE RequestReset
  BY <1>2, <1>3, <1>10 DEF RequestReset, Upset, history
<1>11. ASSUME NEW repaint \in BOOLEAN, StartPass(repaint) PROVE HitsKept'
  <2>1. fitted' = fitted
    BY <1>11 DEF StartPass
  <2>. QED BY <1>1, <1>11, <2>1, StartKeepsHits DEF HitsKept
<1>12. CASE Deliver
  BY <1>1, <1>12, DeliverKeepsHits
<1>13. CASE Paint
  <2>1. CASE gate
    BY <1>1, <1>13, <2>1, PaintKeepsHits
  <2>2. CASE ~gate
    BY <1>1, <1>13, <2>2, ShutKeepsHits
  <2>. QED BY <2>1, <2>2
<1>14. CASE Skip
  BY <1>1, <1>14, SkipKeepsHits
<1>15. CASE FinishFrame
  BY <1>1, <1>15, FinishKeepsHits
<1>16. CASE ReportDropped
  BY <1>2, <1>3, <1>16 DEF ReportDropped, TakeDropped, frames
<1>. QED BY <1>4, <1>5, <1>6, <1>7, <1>8, <1>9, <1>10, <1>11, <1>12, <1>13, <1>14, <1>15,
            <1>16 DEF Next

LEMMA KeptExactly == HitsKept => HitsExact
<1>. SUFFICES ASSUME HitsKept, NEW e \in fitted.effects, e.kind \in EventKinds
              PROVE  /\ HitKept(e, fx[e], promise[e], run[e].last)
                     /\ e.kind \in HitKinds /\ phase # "input" => fx[e].pending = <<>>
  BY DEF HitsExact
<1>1. CASE e.kind \in HitKinds
  <2>1. HitEffect(e) /\ HitState(e) /\ e.kind # "ripple"
    BY <1>1, KindsFitted DEF HitsKept, HitStates
  <2>2. \A l \in Leds : fx[e].level[l] = HitLevel(e, promise[e], l, run[e].last)
    BY <1>1, <2>1, ShownAsPromised DEF HitState
  <2>. QED BY <2>1, <2>2 DEF HitKept, HitState
<1>2. CASE e.kind = "ripple"
  <2>1. Rippling(fx[e], promise[e]) /\ e.kind \notin HitKinds
    BY <1>2, KindsFitted DEF HitsKept, Ripples
  <2>2. Counted(fx[e], promise[e])
    BY <2>1, RippleCounts
  <2>. QED BY <1>2, <2>1, <2>2 DEF HitKept, Counted
<1>. QED BY <1>1, <1>2 DEF EventKinds

(***************************************************************************)
(* Reactive, heatmap and ripple show what the presses and the time since   *)
(* give, to the part of a level, whatever the properties of the effects,   *)
(* the number of LEDs and where they lie, the presses and their times, and *)
(* the frames there were (effects/reactive.c, effects/heatmap.c,           *)
(* effects/ripple.c; kp_rgb_decay_u8).                                     *)
(***************************************************************************)
THEOREM HitsStayExact == Spec => []HitsExact
<1>1. Init => Typed /\ OnGrid /\ Armed /\ HitsKept
  BY PacedInit, HitsInit
<1>2. Typed /\ OnGrid /\ Armed /\ HitsKept /\ [Next]_vars
        => Typed' /\ OnGrid' /\ Armed' /\ HitsKept'
  BY PacedStep, ArmedStep, HitsStep
<1>. QED BY <1>1, <1>2, KeptExactly, PTL DEF Spec

-----------------------------------------------------------------------------
(* Trials and their times *)

LEMMA QuotientReached ==
    ASSUME NEW x \in Nat, NEW n \in Nat \ {0}, NEW k \in Nat
    PROVE  k * n <= x <=> k <= x \div n
<1>. DEFINE q == x \div n
            r == x % n
<1>1. q \in Nat /\ r \in 0 .. n - 1 /\ x = q * n + r
  BY QuotientSplits
<1>. HIDE DEF q, r
<1>2. CASE k <= q
  BY <1>1, <1>2, TimesGrows
<1>3. CASE ~(k <= q)
  <2>1. q + 1 \in Nat /\ q + 1 <= k
    BY <1>1, <1>3
  <2>2. (q + 1) * n <= k * n /\ (q + 1) * n = q * n + n /\ k * n \in Nat /\ q * n \in Nat
    BY <1>1, <2>1, TimesGrows
  <2>. QED BY <1>1, <1>3, <2>2
<1>. QED BY <1>2, <1>3 DEF q

(* The time of the k-th trial after the given age.                         *)
TrialTime(e, age, k) == (age \div e.interval + k) * e.interval
TrialCount(e, age, elapsed) == (age + elapsed) \div e.interval - age \div e.interval

LEMMA TrialTimes ==
    ASSUME NEW e, e.interval \in Nat \ {0}, NEW age \in Nat, NEW elapsed \in Nat, NEW k \in Nat
    PROVE  /\ TrialCount(e, age, elapsed) \in Nat
           /\ (age % e.interval) \in 0 .. e.interval - 1
           /\ TrialTime(e, age, 0) + (age % e.interval) = age
           /\ TrialTime(e, age, k) \in Nat
           /\ TrialTime(e, age, k + 1) = TrialTime(e, age, k) + e.interval
           /\ k > 0 => TrialTime(e, age, k) > age
           /\ TrialTime(e, age, k) <= age + elapsed <=> k <= TrialCount(e, age, elapsed)
           /\ TrialTime(e, age, k) % e.interval = 0
<1>. DEFINE n == e.interval
            q == age \div n
            end == age + elapsed
            last == end \div n
<1>1. q \in Nat /\ (age % n) \in 0 .. n - 1 /\ age = q * n + (age % n)
  BY QuotientSplits
<1>2. last \in Nat /\ q <= last
  <2>1. end \in Nat /\ last \in Nat
    BY QuotientSplits
  <2>2. q * n <= end
    BY <1>1
  <2>. HIDE DEF q, end
  <2>. QED BY <1>1, <2>1, <2>2, QuotientReached
<1>3. /\ TrialTime(e, age, k) \in Nat
      /\ TrialTime(e, age, k + 1) = TrialTime(e, age, k) + n
      /\ k > 0 => TrialTime(e, age, k) > age
      /\ TrialTime(e, age, k) <= end <=> k <= last - q
      /\ TrialTime(e, age, k) % n = 0
  <2>1. TrialTime(e, age, k) = (q + k) * n /\ TrialTime(e, age, k + 1) = (q + (k + 1)) * n
    BY DEF TrialTime
  <2>. HIDE DEF q, last, n, end
  <2>2. n \in Nat \ {0} /\ end \in Nat
    BY DEF n, end
  <2>3. (q + k) * n \in Nat /\ (q + (k + 1)) * n = (q + k) * n + n
    BY <1>1, <2>2
  <2>4. ASSUME k > 0 PROVE (q + k) * n > age
    <3>1. q + 1 \in Nat /\ q + k \in Nat /\ q + 1 <= q + k
      BY <1>1, <2>4
    <3>2. (q + 1) * n <= (q + k) * n /\ (q + 1) * n = q * n + n
      BY <1>1, <2>2, <3>1, TimesGrows
    <3>. QED BY <1>1, <2>2, <2>3, <3>2
  <2>5. (q + k) * n <= end <=> q + k <= last
    <3>1. q + k \in Nat
      BY <1>1
    <3>. QED BY <2>2, <3>1, QuotientReached DEF last
  <2>6. ((q + k) * n) % n = 0
    <3>1. q + k \in Int /\ 0 \in 0 .. n - 1 /\ (q + k) * n + 0 = (q + k) * n
      BY <1>1, <2>2
    <3>2. ((q + k) * n + 0) % n = 0
      BY <2>2, <3>1, RemainderUnique
    <3>. QED BY <3>1, <3>2
  <2>. QED BY <1>1, <1>2, <2>1, <2>3, <2>4, <2>5, <2>6
<1>4. TrialTime(e, age, 0) = q * n /\ TrialCount(e, age, elapsed) = last - q
  BY <1>1 DEF TrialTime, TrialCount
<1>. HIDE DEF q, last
<1>5. last - q \in Nat
  BY <1>1, <1>2
<1>. QED BY <1>1, <1>3, <1>4, <1>5

(* Parts of that, for where only they are needed.                          *)
LEMMA TrialNext ==
    ASSUME NEW e, e.interval \in Nat \ {0}, NEW age \in Nat, NEW k \in Nat
    PROVE  /\ TrialTime(e, age, k) \in Nat
           /\ TrialTime(e, age, k + 1) = TrialTime(e, age, k) + e.interval
           /\ k > 0 => TrialTime(e, age, k) > age
<1>1. PICK elapsed \in Nat : TRUE
  OBVIOUS
<1>. QED BY ONLY e.interval \in Nat \ {0}, TrialTimes

LEMMA TrialPlace ==
    ASSUME NEW e, e.interval \in Nat \ {0}, NEW age \in Nat
    PROVE  /\ (age % e.interval) \in 0 .. e.interval - 1
           /\ TrialTime(e, age, 0) + (age % e.interval) = age
           /\ TrialTime(e, age, 0) \in Nat
<1>1. PICK elapsed \in Nat, k \in Nat : k = 0
  OBVIOUS
<1>2. /\ (age % e.interval) \in 0 .. e.interval - 1
      /\ TrialTime(e, age, 0) + (age % e.interval) = age
      /\ TrialTime(e, age, k) \in Nat
  BY ONLY e.interval \in Nat \ {0}, TrialTimes
<1>. QED BY <1>1, <1>2

LEMMA TrialCounts ==
    ASSUME NEW e, e.interval \in Nat \ {0}, NEW age \in Nat, NEW elapsed \in Nat, NEW k \in Nat
    PROVE  /\ TrialCount(e, age, elapsed) \in Nat
           /\ TrialTime(e, age, k) <= age + elapsed <=> k <= TrialCount(e, age, elapsed)
BY ONLY e.interval \in Nat \ {0}, TrialTimes

LEMMA AgesOfTrials ==
    ASSUME NEW e, e.interval \in Nat \ {0}, NEW age \in Nat, NEW elapsed \in Nat
    PROVE  /\ Least(MaxTrials, TrialCount(e, age, elapsed)) \in 0 .. MaxTrials
           /\ TrialAges(e, age, elapsed) =
                [k \in 1 .. Least(MaxTrials, TrialCount(e, age, elapsed))
                   |-> TrialTime(e, age, k)]
           /\ Len(TrialAges(e, age, elapsed)) = Least(MaxTrials, TrialCount(e, age, elapsed))
<1>1. TrialCount(e, age, elapsed) \in Nat
  <2>1. 0 \in Nat
    OBVIOUS
  <2>. QED BY <2>1, TrialCounts
<1>2. Least(MaxTrials, TrialCount(e, age, elapsed)) \in 0 .. MaxTrials
  BY <1>1, SizesAssumption DEF Least
<1>3. TrialAges(e, age, elapsed) =
        [k \in 1 .. Least(MaxTrials, TrialCount(e, age, elapsed)) |-> TrialTime(e, age, k)]
  BY DEF TrialAges, TrialTime, TrialCount
<1>. QED BY <1>2, <1>3

-----------------------------------------------------------------------------
(* Rain *)

RainData == [level : [Leds -> Nat], rem : [Leds -> Nat], step : Nat, flow : Nat]
RainPromises == [age : Nat, lit : [Leds -> Int], flow : Nat]

(* The parts of a level that are left at time t, of a LED lit at time lit. *)
Left(e, lit, t) == IF lit = Never THEN 0 ELSE Residue(e, Peak * e.period, t - lit)

(* At time t every LED has faded since it was lit, if it was.              *)
LitSince(e, d, lit, t) ==
    \A l \in Leds :
        /\ Faint(d.level[l], d.rem[l], e.period)
        /\ lit[l] = Never \/ lit[l] \in 0 .. t
        /\ d.level[l] * e.period - d.rem[l] = Left(e, lit[l], t)

LEMMA FadedIs ==
    ASSUME NEW e, e.kind \in RainKinds, TrialEffect(e), NEW d \in RainData,
           \A l \in Leds : Faint(d.level[l], d.rem[l], e.period), NEW scaled \in Nat
    PROVE  LET f == Faded(d, scaled, e.period)
           IN  /\ f \in RainData /\ f.step = d.step /\ f.flow = d.flow
               /\ \A l \in Leds :
                    /\ Faint(f.level[l], f.rem[l], e.period)
                    /\ f.level[l] * e.period - f.rem[l]
                         = Most(0, (d.level[l] * e.period - d.rem[l]) - scaled)
<1>. DEFINE n == e.period
            f == Faded(d, scaled, n)
            left(l) == Decay(d.level[l], d.rem[l], scaled, n)
<1>1. n \in Nat \ {0}
  BY DEF TrialEffect
<1>2. f = [d EXCEPT !.level = [l \in Leds |-> left(l).level],
                    !.rem = [l \in Leds |-> left(l).rem]]
  <2>1. f = [d EXCEPT !.level = [l \in Leds |-> [k \in Leds |-> left(k)][l].level],
                      !.rem = [l \in Leds |-> [k \in Leds |-> left(k)][l].rem]]
    BY DEF Faded
  <2>2. \A l \in Leds : [k \in Leds |-> left(k)][l] = left(l)
    OBVIOUS
  <2>. HIDE DEF left, f
  <2>. QED BY <2>1, <2>2
<1>3. ASSUME NEW l \in Leds
      PROVE  /\ Faint(left(l).level, left(l).rem, n)
             /\ left(l).level * n - left(l).rem
                  = Most(0, (d.level[l] * n - d.rem[l]) - scaled)
  <2>. DEFINE level == d.level[l]
              rem == d.rem[l]
  <2>1. Faint(level, rem, n)
    OBVIOUS
  <2>. HIDE DEF level, rem, n
  <2>2. LET x == Decay(level, rem, scaled, n)
        IN  Faint(x.level, x.rem, n) /\ x.level * n - x.rem = Most(0, (level * n - rem) - scaled)
    BY <1>1, <2>1, DecayExact
  <2>. QED BY <2>2 DEF level, rem
<1>4. \A l \in Leds : left(l).level \in Nat /\ left(l).rem \in Nat
  <2>. HIDE DEF left, n
  <2>. QED BY <1>1, <1>3 DEF Faint
<1>. HIDE DEF left, f
<1>5. /\ f \in RainData /\ f.step = d.step /\ f.flow = d.flow
      /\ \A l \in Leds : f.level[l] = left(l).level /\ f.rem[l] = left(l).rem
  BY <1>2, <1>4 DEF RainData
<1>. QED BY <1>3, <1>5 DEF f

(* Fading goes on from where it was. *)
LEMMA LitFades ==
    ASSUME NEW e, e.kind \in RainKinds, TrialEffect(e), NEW d \in RainData, NEW lit, NEW t \in Nat,
           LitSince(e, d, lit, t), NEW elapsed \in Nat
    PROVE  LET f == Faded(d, Peak * elapsed, e.period)
           IN  /\ f \in RainData /\ f.step = d.step /\ f.flow = d.flow
               /\ LitSince(e, f, lit, t + elapsed)
<1>. DEFINE n == e.period
            f == Faded(d, Peak * elapsed, n)
<1>1. n \in Nat \ {0} /\ Peak \in Nat \ {0} /\ FadeScale(e) = Peak
  BY SizesAssumption DEF TrialEffect, FadeScale, RainKinds
<1>2. Peak * elapsed \in Nat
  BY <1>1
<1>3. /\ f \in RainData /\ f.step = d.step /\ f.flow = d.flow
      /\ \A l \in Leds : /\ Faint(f.level[l], f.rem[l], n)
                         /\ f.level[l] * n - f.rem[l]
                              = Most(0, (d.level[l] * n - d.rem[l]) - Peak * elapsed)
  BY <1>2, FadedIs DEF LitSince
<1>4. ASSUME NEW l \in Leds
      PROVE  /\ lit[l] = Never \/ lit[l] \in 0 .. t + elapsed
             /\ Most(0, (d.level[l] * n - d.rem[l]) - Peak * elapsed) = Left(e, lit[l], t + elapsed)
  <2>1. d.level[l] * n - d.rem[l] = Left(e, lit[l], t) /\ (lit[l] = Never \/ lit[l] \in 0 .. t)
    BY DEF LitSince
  <2>2. CASE lit[l] = Never
    BY <1>2, <2>1, <2>2 DEF Left, Most
  <2>3. CASE lit[l] # Never
    <3>. DEFINE past == t - lit[l]
                full == Peak * n
                before == Peak * past
                lost == Peak * elapsed
    <3>1. past \in Nat /\ (t + elapsed) - lit[l] = past + elapsed /\ lit[l] \in 0 .. t + elapsed
      BY <2>1, <2>3
    <3>2. full \in Nat /\ before \in Nat /\ lost \in Nat
          /\ Peak * (past + elapsed) = before + lost
      <4>. HIDE DEF past, n
      <4>. QED BY <1>1, <3>1
    <3>3. Left(e, lit[l], t) = Most(0, full - before)
          /\ Left(e, lit[l], t + elapsed) = Most(0, full - (before + lost))
      BY <1>1, <2>3, <3>1, <3>2 DEF Left, Residue
    <3>. HIDE DEF full, before, lost, past
    <3>4. Most(0, Most(0, full - before) - lost) = Most(0, full - (before + lost))
      BY <3>2 DEF Most
    <3>. QED BY <2>1, <3>1, <3>3, <3>4 DEF lost
  <2>. QED BY <2>2, <2>3
<1>. HIDE DEF f
<1>. QED BY <1>3, <1>4 DEF LitSince, f

(* Lighting one LED starts it anew. *)
LEMMA LitAnew ==
    ASSUME NEW e, e.kind \in RainKinds, TrialEffect(e), NEW d \in RainData, NEW lit, NEW t \in Nat,
           LitSince(e, d, lit, t), NEW led \in Leds, NEW now2,
           \A l \in Leds : now2[l] = IF l = led THEN t ELSE lit[l]
    PROVE  /\ Lit(d, led) \in RainData
           /\ Lit(d, led).step = d.step /\ Lit(d, led).flow = d.flow
           /\ LitSince(e, Lit(d, led), now2, t)
<1>. DEFINE n == e.period
            f == Lit(d, led)
<1>1. n \in Nat \ {0} /\ Peak \in Nat \ {0} /\ FadeScale(e) = Peak
  BY SizesAssumption DEF TrialEffect, FadeScale, RainKinds
<1>2. /\ f \in RainData /\ f.step = d.step /\ f.flow = d.flow
      /\ \A l \in Leds : /\ f.level[l] = IF l = led THEN Peak ELSE d.level[l]
                         /\ f.rem[l] = IF l = led THEN 0 ELSE d.rem[l]
  BY <1>1 DEF Lit, RainData
<1>. HIDE DEF f
<1>3. ASSUME NEW l \in Leds
      PROVE  /\ Faint(f.level[l], f.rem[l], n)
             /\ now2[l] = Never \/ now2[l] \in 0 .. t
             /\ f.level[l] * n - f.rem[l] = Left(e, now2[l], t)
  <2>1. CASE l = led
    <3>1. now2[l] = t /\ t # Never /\ t - t = 0
      BY <2>1 DEF Never
    <3>2. Peak * n \in Nat /\ Peak * 0 = 0 /\ Peak * n - 0 = Peak * n
      BY <1>1
    <3>3. Left(e, t, t) = Peak * n
      BY <1>1, <3>1, <3>2 DEF Left, Residue, Most
    <3>4. f.level[l] = Peak /\ f.rem[l] = 0
      BY <1>2, <2>1
    <3>. QED BY <1>1, <3>1, <3>2, <3>3, <3>4 DEF Faint
  <2>2. CASE l # led
    BY <1>2, <2>2 DEF LitSince
  <2>. QED BY <2>1, <2>2
<1>. QED BY <1>2, <1>3 DEF LitSince, f

(* The LED that the k-th trial of a frame lights; when the first m trials  *)
(* have lit a LED, and where that leaves it.                               *)
ChosenBy(e, p, picks, k) == IF e.kind = "flow" THEN (p.flow + k) % NumLeds ELSE picks[k]
TimesBy(e, p, picks, m, l) ==
    {TrialTime(e, p.age, k) : k \in {j \in 1 .. m : ChosenBy(e, p, picks, j) = l}}
Latest(times) == CHOOSE t \in times : \A u \in times : u <= t
LitBy(e, p, picks, m, l) ==
    IF TimesBy(e, p, picks, m, l) = {} THEN p.lit[l] ELSE Latest(TimesBy(e, p, picks, m, l))
LitBys(e, p, picks, m) == [l \in Leds |-> LitBy(e, p, picks, m, l)]

LEMMA TrialsRise ==
    ASSUME NEW e, e.interval \in Nat \ {0}, NEW age \in Nat, NEW j \in Nat, NEW k \in Nat, j <= k
    PROVE  TrialTime(e, age, j) <= TrialTime(e, age, k)
<1>. DEFINE q == age \div e.interval
<1>1. q \in Nat
  BY QuotientSplits
<1>2. q + j \in Nat /\ q + k \in Nat /\ q + j <= q + k
  BY <1>1
<1>. HIDE DEF q
<1>3. (q + j) * e.interval <= (q + k) * e.interval
  BY <1>2, TimesGrows
<1>. QED BY <1>3 DEF TrialTime, q

LEMMA LitBefore ==
    ASSUME NEW e, NEW p, NEW picks, NEW l
    PROVE  LitBy(e, p, picks, 0, l) = p.lit[l]
<1>1. TimesBy(e, p, picks, 0, l) = {}
  BY DEF TimesBy
<1>. QED BY <1>1 DEF LitBy

LEMMA LitOnce ==
    ASSUME NEW e, e.interval \in Nat \ {0}, NEW p \in RainPromises, NEW picks, NEW m \in Nat,
           NEW l \in Leds
    PROVE  LitBy(e, p, picks, m + 1, l) =
             IF ChosenBy(e, p, picks, m + 1) = l THEN TrialTime(e, p.age, m + 1)
             ELSE LitBy(e, p, picks, m, l)
<1>. DEFINE old == TimesBy(e, p, picks, m, l)
            new == TimesBy(e, p, picks, m + 1, l)
            at == TrialTime(e, p.age, m + 1)
<1>2. CASE ChosenBy(e, p, picks, m + 1) = l
  <2>1. at \in new
    <3>1. m + 1 \in {j \in 1 .. m + 1 : ChosenBy(e, p, picks, j) = l}
      BY <1>2
    <3>. QED BY <3>1 DEF TimesBy
  <2>2. ASSUME NEW u \in new PROVE u <= at /\ u \in Nat
    <3>1. PICK j \in 1 .. m + 1 : u = TrialTime(e, p.age, j)
      BY DEF TimesBy
    <3>2. j \in Nat /\ m + 1 \in Nat /\ j <= m + 1 /\ p.age \in Nat
      BY DEF RainPromises
    <3>3. u <= at
      BY <3>1, <3>2, TrialsRise
    <3>4. u \in Nat
      BY <3>1, <3>2, TrialNext
    <3>. QED BY <3>3, <3>4
  <2>. HIDE DEF new, at
  <2>3. (CHOOSE t \in new : \A u \in new : u <= t) = at
    <3>1. ASSUME NEW t \in new, \A u \in new : u <= t PROVE t = at
      BY <2>1, <2>2, <3>1
    <3>2. \A u \in new : u <= at
      BY <2>2
    <3>. QED BY <2>1, <3>1, <3>2
  <2>4. LitBy(e, p, picks, m + 1, l) = CHOOSE t \in new : \A u \in new : u <= t
    BY <2>1 DEF LitBy, Latest, new
  <2>. QED BY <1>2, <2>3, <2>4 DEF at
<1>3. CASE ~(ChosenBy(e, p, picks, m + 1) = l)
  <2>1. {j \in 1 .. m + 1 : ChosenBy(e, p, picks, j) = l} = {j \in 1 .. m : ChosenBy(e, p, picks, j) = l}
    <3>1. \A j \in 1 .. m + 1 : j \in 1 .. m \/ j = m + 1
      OBVIOUS
    <3>2. \A j \in 1 .. m : j \in 1 .. m + 1
      OBVIOUS
    <3>. QED BY <1>3, <3>1, <3>2
  <2>2. new = old
    BY <2>1 DEF TimesBy
  <2>. QED BY <1>3, <2>2 DEF LitBy
<1>. QED BY <1>2, <1>3, Zenon

RainState(e, d, p) ==
    /\ d \in RainData /\ p \in RainPromises
    /\ d.step = p.age % e.interval
    /\ d.flow = p.flow /\ p.flow < NumLeds /\ (e.kind # "flow" => p.flow = 0)
    /\ LitSince(e, d, p.lit, p.age)

RainBase(e, d, elapsed) ==
    [data |-> d, remaining |-> elapsed, until |-> e.interval - d.step]

(* After m trials: the time is that of the last one.                       *)
TimeAfter(e, age, m) == IF m = 0 THEN age ELSE TrialTime(e, age, m)
RainAfter(e, p, elapsed, picks, a, m) ==
    LET t == TimeAfter(e, p.age, m) IN
    /\ a.data \in RainData
    /\ a.data.step = IF m = 0 THEN p.age % e.interval ELSE 0
    /\ a.data.flow = IF e.kind = "flow" THEN (p.flow + m) % NumLeds ELSE 0
    /\ LitSince(e, a.data, LitBys(e, p, picks, m), t)
    /\ a.remaining = p.age + elapsed - t /\ a.remaining \in Nat
    /\ a.until = TrialTime(e, p.age, m + 1) - t /\ a.until \in Nat

LEMMA RainBegins ==
    ASSUME NEW e, e.kind \in RainKinds, TrialEffect(e), NEW d, NEW p, RainState(e, d, p),
           NEW elapsed \in Nat, NEW picks
    PROVE  RainAfter(e, p, elapsed, picks, RainBase(e, d, elapsed), 0)
<1>. DEFINE a == RainBase(e, d, elapsed)
            n == e.interval
            age == p.age
<1>1. n \in Nat \ {0} /\ age \in Nat /\ d \in RainData /\ p \in RainPromises
  BY DEF TrialEffect, RainState, RainPromises
<1>2. a.data = d /\ a.remaining = elapsed /\ a.until = n - d.step
  BY DEF RainBase
<1>. HIDE DEF a
<1>3. d.step = age % n
  BY DEF RainState
<1>4. a.until = TrialTime(e, age, 1) - age /\ a.until \in Nat
  <2>1. /\ (age % n) \in 0 .. n - 1
        /\ TrialTime(e, age, 0) + (age % n) = age /\ TrialTime(e, age, 0) \in Nat
        /\ TrialTime(e, age, 0 + 1) = TrialTime(e, age, 0) + n
    <3>1. 0 \in Nat
      OBVIOUS
    <3>. HIDE DEF n, age
    <3>. QED BY <1>1, <3>1, TrialPlace, TrialNext DEF n
  <2>. QED BY <1>1, <1>2, <1>3, <2>1
<1>5. d.flow = IF e.kind = "flow" THEN (p.flow + 0) % NumLeds ELSE 0
  <2>1. p.flow \in 0 .. NumLeds - 1 /\ NumLeds \in Nat \ {0} /\ d.flow = p.flow
    BY <1>1, CoordAssumption DEF RainState, RainPromises
  <2>2. p.flow + 0 = p.flow /\ p.flow % NumLeds = p.flow
    BY <2>1
  <2>. QED BY <2>1, <2>2 DEF RainState
<1>6. LitSince(e, d, LitBys(e, p, picks, 0), age)
  <2>1. \A l \in Leds : LitBys(e, p, picks, 0)[l] = p.lit[l]
    BY LitBefore DEF LitBys
  <2>. QED BY <2>1 DEF LitSince, RainState
<1>7. TimeAfter(e, age, 0) = age
  BY DEF TimeAfter
<1>8. elapsed = age + elapsed - age
  BY <1>1
<1>. QED BY <1>1, <1>2, <1>3, <1>4, <1>5, <1>6, <1>7, <1>8 DEF RainAfter, a

LEMMA RainGoesOn ==
    ASSUME NEW e, e.kind \in RainKinds, TrialEffect(e), NEW p \in RainPromises, p.flow < NumLeds,
           NEW elapsed \in Nat, NEW picks, NEW m \in Nat,
           picks[m + 1] \in IF e.kind = "flow" THEN {0} ELSE Leds \cup {NoLed},
           NEW a, RainAfter(e, p, elapsed, picks, a, m), m < TrialCount(e, p.age, elapsed)
    PROVE  RainAfter(e, p, elapsed, picks, RainSlice(e, a, picks[m + 1]), m + 1)
<1>. DEFINE n == e.interval
            age == p.age
            t == TimeAfter(e, age, m)
            at == TrialTime(e, age, m + 1)
            count == TrialCount(e, age, elapsed)
            pick == picks[m + 1]
            b == RainSlice(e, a, pick)
            d == a.data
            faded == Faded(d, Peak * a.until, e.period)
            fresh == [faded EXCEPT !.step = 0]
            new == RainTrial(e, fresh, pick)
            led == ChosenBy(e, p, picks, m + 1)
<1>1. n \in Nat \ {0} /\ age \in Nat /\ p.flow \in 0 .. NumLeds - 1 /\ NumLeds \in Nat \ {0}
  BY CoordAssumption DEF TrialEffect, RainPromises
<1>2. /\ d \in RainData
      /\ d.flow = IF e.kind = "flow" THEN (p.flow + m) % NumLeds ELSE 0
      /\ LitSince(e, d, LitBys(e, p, picks, m), t)
      /\ a.remaining = age + elapsed - t /\ a.remaining \in Nat
      /\ a.until = at - t /\ a.until \in Nat
  BY DEF RainAfter
<1>3. /\ count \in Nat /\ at \in Nat /\ (at <= age + elapsed <=> m + 1 <= count)
      /\ TrialTime(e, age, m) \in Nat
      /\ TrialTime(e, age, (m + 1) + 1) = at + n
  <2>1. m + 1 \in Nat
    OBVIOUS
  <2>2. count \in Nat /\ TrialTime(e, age, m) \in Nat
    BY <1>1, TrialCounts, TrialNext
  <2>3. /\ at \in Nat /\ (at <= age + elapsed <=> m + 1 <= count)
        /\ TrialTime(e, age, (m + 1) + 1) = at + n
    <3>. DEFINE k == m + 1
    <3>. HIDE DEF k, age, n, count
    <3>1. e.interval \in Nat \ {0} /\ age \in Nat /\ k \in Nat /\ elapsed \in Nat
      BY <1>1, <2>1 DEF k, n
    <3>2. /\ TrialTime(e, age, k) \in Nat
          /\ (TrialTime(e, age, k) <= age + elapsed <=> k <= TrialCount(e, age, elapsed))
          /\ TrialTime(e, age, k + 1) = TrialTime(e, age, k) + e.interval
      BY ONLY <3>1, TrialNext, TrialCounts
    <3>. QED BY <3>2 DEF k, n, count
  <2>. QED BY <2>2, <2>3
<1>4. t \in Nat
  BY <1>1, <1>3 DEF TimeAfter
<1>5. a.remaining < a.until <=> ~(m + 1 <= count)
  <2>. HIDE DEF t, at, count
  <2>. QED BY <1>1, <1>2, <1>3, <1>4
<1>6. ~(a.remaining < a.until)
  BY <1>3, <1>5
<1>7. b = [data |-> new, remaining |-> a.remaining - a.until, until |-> n]
  BY <1>6 DEF RainSlice
<1>8. faded \in RainData /\ faded.flow = d.flow /\ LitSince(e, faded, LitBys(e, p, picks, m), at)
  <2>. DEFINE until == a.until
              lit == LitBys(e, p, picks, m)
  <2>1. until \in Nat /\ t + until = at /\ LitSince(e, d, lit, t)
    BY <1>2, <1>3, <1>4
  <2>. HIDE DEF until, lit, t, d, at
  <2>2. LET f == Faded(d, Peak * until, e.period)
        IN  /\ f \in RainData /\ f.step = d.step /\ f.flow = d.flow
            /\ LitSince(e, f, lit, t + until)
    BY <1>2, <1>4, <2>1, LitFades
  <2>. QED BY <2>1, <2>2 DEF until, lit
<1>9. /\ fresh \in RainData /\ fresh.flow = d.flow /\ fresh.step = 0
      /\ LitSince(e, fresh, LitBys(e, p, picks, m), at)
  <2>. HIDE DEF faded
  <2>1. /\ fresh \in RainData /\ fresh.flow = faded.flow /\ fresh.step = 0
        /\ fresh.level = faded.level /\ fresh.rem = faded.rem
    BY <1>8 DEF RainData
  <2>. QED BY <1>8, <2>1 DEF LitSince
<1>. HIDE DEF fresh
<1>10. \A l \in Leds : LitBys(e, p, picks, m + 1)[l] =
                        IF l = led THEN at ELSE LitBys(e, p, picks, m)[l]
  BY <1>1, LitOnce DEF LitBys
<1>11. new \in RainData /\ new.step = 0
      /\ new.flow = (IF e.kind = "flow" THEN (p.flow + (m + 1)) % NumLeds ELSE 0)
      /\ LitSince(e, new, LitBys(e, p, picks, m + 1), at)
  <2>1. CASE e.kind = "flow"
    <3>. DEFINE moved == [fresh EXCEPT !.flow = led]
    <3>1. (fresh.flow + 1) % NumLeds = led /\ led \in Leds
      <4>1. led = (p.flow + (m + 1)) % NumLeds
        BY <2>1 DEF ChosenBy
      <4>2. fresh.flow = (p.flow + m) % NumLeds
        BY <1>2, <1>9, <2>1
      <4>. DEFINE sum == p.flow + m
      <4>3. sum \in Int /\ sum + 1 = p.flow + (m + 1)
        BY <1>1
      <4>. HIDE DEF sum
      <4>4. (1 + (sum % NumLeds)) % NumLeds = (1 + sum) % NumLeds
        <5>. DEFINE w == NumLeds
                    one == 1
        <5>1. w \in Nat \ {0} /\ one \in Int
          BY <1>1
        <5>. HIDE DEF w, one
        <5>2. (one + (sum % w)) % w = (one + sum) % w
          BY <4>3, <5>1, RemainderOfSum
        <5>. QED BY <5>2 DEF w, one
      <4>5. sum % NumLeds \in 0 .. NumLeds - 1 /\ (sum + 1) % NumLeds \in 0 .. NumLeds - 1
        BY <1>1, <4>3
      <4>6. 1 + (sum % NumLeds) = (sum % NumLeds) + 1 /\ 1 + sum = sum + 1
        BY <4>3, <4>5
      <4>. QED BY <4>1, <4>2, <4>3, <4>4, <4>5, <4>6, CoordAssumption DEF sum
    <3>2. moved \in RainData /\ moved.flow = led /\ moved.step = 0
          /\ LitSince(e, moved, LitBys(e, p, picks, m), at)
      <4>1. led \in Nat
        BY <3>1, CoordAssumption
      <4>2. moved \in RainData /\ moved.flow = led /\ moved.step = 0
            /\ moved.level = fresh.level /\ moved.rem = fresh.rem
        BY <1>9, <4>1 DEF RainData
      <4>. QED BY <1>9, <4>2 DEF LitSince
    <3>3. new = Lit(moved, led)
      BY <2>1, <3>1 DEF RainTrial
    <3>. HIDE DEF moved, new, at, led
    <3>4. /\ Lit(moved, led) \in RainData
          /\ Lit(moved, led).step = moved.step /\ Lit(moved, led).flow = moved.flow
          /\ LitSince(e, Lit(moved, led), LitBys(e, p, picks, m + 1), at)
      BY <1>3, <1>10, <3>1, <3>2, LitAnew
    <3>5. led = (p.flow + (m + 1)) % NumLeds
      BY <2>1 DEF ChosenBy, led
    <3>. QED BY <2>1, <3>2, <3>3, <3>4, <3>5
  <2>2. CASE e.kind # "flow" /\ pick # NoLed
    <3>1. led = pick /\ pick \in Leds
      BY <2>2 DEF ChosenBy
    <3>2. new = Lit(fresh, led)
      BY <2>2, <3>1 DEF RainTrial
    <3>. HIDE DEF new, at, led, pick
    <3>3. /\ Lit(fresh, led) \in RainData
          /\ Lit(fresh, led).step = fresh.step /\ Lit(fresh, led).flow = fresh.flow
          /\ LitSince(e, Lit(fresh, led), LitBys(e, p, picks, m + 1), at)
      BY <1>3, <1>9, <1>10, <3>1, LitAnew
    <3>. QED BY <1>2, <1>9, <2>2, <3>2, <3>3
  <2>3. CASE e.kind # "flow" /\ pick = NoLed
    <3>1. led = NoLed /\ NoLed \notin Leds
      BY <2>3, CoordAssumption DEF ChosenBy, NoLed
    <3>2. new = fresh
      BY <2>3 DEF RainTrial
    <3>3. \A l \in Leds : LitBys(e, p, picks, m + 1)[l] = LitBys(e, p, picks, m)[l]
      BY <1>10, <3>1
    <3>. HIDE DEF new
    <3>4. LitSince(e, fresh, LitBys(e, p, picks, m + 1), at)
      BY <1>9, <3>3 DEF LitSince
    <3>. QED BY <1>2, <1>9, <2>3, <3>2, <3>4
  <2>. QED BY <2>1, <2>2, <2>3
<1>. HIDE DEF new, b
<1>12. TimeAfter(e, age, m + 1) = at
  BY DEF TimeAfter
<1>13. /\ b.remaining = age + elapsed - at /\ b.remaining \in Nat
      /\ b.until = TrialTime(e, age, (m + 1) + 1) - at /\ b.until \in Nat
  <2>1. b.remaining = a.remaining - a.until /\ b.until = n
    BY <1>7
  <2>. HIDE DEF t, at, n
  <2>. QED BY <1>1, <1>2, <1>3, <1>4, <1>6, <2>1
<1>14. b.data = new
  BY <1>7
<1>15. RainAfter(e, p, elapsed, picks, b, m + 1)
  <2>1. m + 1 # 0
    OBVIOUS
  <2>. QED BY <1>11, <1>12, <1>13, <1>14, <2>1 DEF RainAfter
<1>. QED BY <1>15 DEF b

RainDraws(e) == IF e.kind = "flow" THEN {0} ELSE Leds \cup {NoLed}
RainAccs(e) ==
    {a \in [data : RainData, remaining : Nat, until : Nat] :
       \A l \in Leds : Faint(a.data.level[l], a.data.rem[l], e.period)}

LEMMA RainTyped ==
    ASSUME NEW e, e.kind \in RainKinds, TrialEffect(e), NEW a \in RainAccs(e), NEW b \in RainDraws(e)
    PROVE  RainSlice(e, a, b) \in RainAccs(e)
<1>. DEFINE d == a.data
            n == e.period
            faded == Faded(d, Peak * a.until, n)
            fresh == [faded EXCEPT !.step = 0]
            next2 == (fresh.flow + 1) % NumLeds
            new == RainTrial(e, fresh, b)
            Fine(x) == x \in RainData /\ \A l \in Leds : Faint(x.level[l], x.rem[l], n)
<1>1. n \in Nat \ {0} /\ Peak \in Nat \ {0} /\ e.interval \in Nat \ {0} /\ NumLeds \in Nat \ {0}
  BY SizesAssumption, CoordAssumption DEF TrialEffect
<1>2. /\ a = [data |-> d, remaining |-> a.remaining, until |-> a.until]
      /\ a.remaining \in Nat /\ a.until \in Nat /\ Fine(d)
  BY DEF RainAccs
<1>3. CASE a.remaining < a.until
  BY <1>3 DEF RainSlice
<1>4. CASE ~(a.remaining < a.until)
  <2>1. Fine(faded)
    <3>. DEFINE scaled == Peak * a.until
    <3>1. scaled \in Nat
      BY <1>1, <1>2
    <3>. HIDE DEF scaled, d
    <3>. QED BY <1>2, <3>1, FadedIs DEF scaled
  <2>. HIDE DEF faded
  <2>2. Fine(fresh)
    BY <2>1 DEF RainData
  <2>. HIDE DEF fresh
  <2>3. ASSUME NEW x, Fine(x), NEW led \in Leds PROVE Fine(Lit(x, led))
    <3>1. /\ Lit(x, led) \in RainData
          /\ \A l \in Leds : /\ Lit(x, led).level[l] = IF l = led THEN Peak ELSE x.level[l]
                             /\ Lit(x, led).rem[l] = IF l = led THEN 0 ELSE x.rem[l]
      BY <1>1, <2>3 DEF Lit, RainData
    <3>2. Faint(Peak, 0, n)
      BY <1>1 DEF Faint
    <3>. QED BY <2>3, <3>1, <3>2
  <2>4. Fine(new)
    <3>1. CASE e.kind = "flow"
      <4>1. next2 \in Leds /\ next2 \in Nat
        <5>. DEFINE sum == fresh.flow + 1
        <5>1. sum \in Nat
          BY <2>2 DEF RainData
        <5>. HIDE DEF sum
        <5>2. sum % NumLeds \in 0 .. NumLeds - 1
          BY <1>1, <5>1
        <5>. QED BY <5>2, CoordAssumption DEF sum
      <4>. DEFINE moved == [fresh EXCEPT !.flow = next2]
      <4>2. new = Lit(moved, next2)
        BY <3>1 DEF RainTrial
      <4>. HIDE DEF next2, new
      <4>3. Fine(moved)
        BY <2>2, <4>1 DEF RainData
      <4>. HIDE DEF moved, Fine
      <4>. QED BY <2>3, <4>1, <4>2, <4>3
    <3>2. CASE e.kind # "flow" /\ b = NoLed
      <4>1. new = fresh
        BY <3>2 DEF RainTrial
      <4>. QED BY <2>2, <4>1
    <3>3. CASE e.kind # "flow" /\ b # NoLed
      <4>1. new = Lit(fresh, b) /\ b \in Leds
        BY <3>3 DEF RainTrial, RainDraws
      <4>. HIDE DEF new, Fine
      <4>. QED BY <2>2, <2>3, <4>1
    <3>. QED BY <3>1, <3>2, <3>3
  <2>5. RainSlice(e, a, b) = [data |-> new, remaining |-> a.remaining - a.until,
                              until |-> e.interval]
    BY <1>4 DEF RainSlice, fresh, faded
  <2>6. a.remaining - a.until \in Nat
    BY <1>2, <1>4
  <2>. HIDE DEF new
  <2>. QED BY <1>1, <2>4, <2>5, <2>6 DEF RainAccs
<1>. QED BY <1>3, <1>4

LEMMA RainTrialsDone ==
    ASSUME NEW e, e.kind \in RainKinds, TrialEffect(e), NEW d, NEW p, RainState(e, d, p),
           NEW elapsed \in Nat, NEW picks \in [1 .. MaxTrials -> RainDraws(e)]
    PROVE  RainAfter(e, p, elapsed, picks,
                     AllSteps("rain", e, 0, 0, RainBase(e, d, elapsed), picks),
                     Least(MaxTrials, TrialCount(e, p.age, elapsed)))
<1>. DEFINE n == MaxTrials
            base == RainBase(e, d, elapsed)
            count == TrialCount(e, p.age, elapsed)
            Done(a, m) == RainAfter(e, p, elapsed, picks, a, m)
<1>1. /\ n \in Nat /\ p \in RainPromises /\ p.age \in Nat /\ p.flow < NumLeds
      /\ e.interval \in Nat \ {0} /\ e.period \in Nat \ {0}
  BY SizesAssumption DEF RainState, TrialEffect, RainPromises
<1>2. picks \in Seq(RainDraws(e)) /\ Len(picks) = n
  BY <1>1
<1>3. count \in Nat
  <2>1. 0 \in Nat
    OBVIOUS
  <2>. QED BY <1>1, <2>1, TrialCounts
<1>4. Done(base, 0)
  BY RainBegins
<1>5. base \in RainAccs(e)
  <2>1. base = [data |-> base.data, remaining |-> base.remaining, until |-> base.until]
    BY DEF RainBase
  <2>. HIDE DEF base
  <2>. QED BY <1>4, <2>1 DEF RainAccs, RainAfter, LitSince
<1>6. PICK h : Folding(h, "rain", e, 0, 0, base, picks)
  <2>1. \A a \in RainAccs(e), b \in RainDraws(e) : StepOf("rain", e, 0, 0, a, b) \in RainAccs(e)
    BY RainTyped DEF StepOf
  <2>. HIDE DEF base
  <2>. QED BY <1>2, <1>5, <2>1, StepFold
<1>. DEFINE S == {k \in 0 .. n : Done(h[k], Least(k, count))}
<1>7. 0 \in S
  <2>1. h[0] = base /\ Least(0, count) = 0
    BY <1>3, <1>6 DEF Folding, Least
  <2>. HIDE DEF base, Done
  <2>. QED BY <1>1, <1>4, <2>1
<1>8. ASSUME NEW k \in 1 .. n, k - 1 \in S PROVE k \in S
  <2>. DEFINE m == Least(k - 1, count)
              a == h[k - 1]
  <2>1. h[k] = RainSlice(e, a, picks[k])
    BY <1>2, <1>6 DEF Folding, StepOf
  <2>2. Done(a, m)
    <3>. HIDE DEF Done
    <3>. QED BY <1>8
  <2>. HIDE DEF a, count
  <2>3. CASE count <= k - 1
    <3>1. m = count /\ Least(k, count) = count
      BY <1>1, <1>3, <2>3 DEF Least
    <3>2. h[k] = a
      <4>1. a.remaining < a.until
        <5>1. /\ TrialTime(e, p.age, count + 1) > p.age + elapsed
              /\ TimeAfter(e, p.age, count) \in Nat /\ TrialTime(e, p.age, count + 1) \in Nat
          <6>1. count + 1 \in Nat
            BY <1>3
          <6>2. TrialTime(e, p.age, count + 1) <= p.age + elapsed <=> count + 1 <= count
            BY <1>1, <6>1, TrialCounts DEF count
          <6>3. TrialTime(e, p.age, count + 1) \in Nat /\ TrialTime(e, p.age, count) \in Nat
            BY <1>1, <1>3, <6>1, TrialNext
          <6>. QED BY <1>1, <1>3, <6>2, <6>3 DEF TimeAfter
        <5>2. /\ a.remaining = p.age + elapsed - TimeAfter(e, p.age, count)
              /\ a.until = TrialTime(e, p.age, count + 1) - TimeAfter(e, p.age, count)
          BY <2>2, <3>1 DEF RainAfter
        <5>. QED BY <1>1, <5>1, <5>2
      <4>. QED BY <2>1, <4>1 DEF RainSlice
    <3>3. Done(h[k], Least(k, count))
      <4>. HIDE DEF Done, m
      <4>. QED BY <2>2, <3>1, <3>2
    <3>. HIDE DEF Done
    <3>. QED BY <3>3 DEF count
  <2>4. CASE ~(count <= k - 1)
    <3>1. m = k - 1 /\ Least(k, count) = m + 1 /\ m < count /\ m \in Nat /\ m + 1 = k
      BY <1>1, <1>3, <2>4 DEF Least
    <3>2. picks[m + 1] \in RainDraws(e)
      BY <3>1
    <3>3. Done(RainSlice(e, a, picks[m + 1]), m + 1)
      <4>. HIDE DEF m
      <4>. QED BY <1>1, <2>2, <3>1, <3>2, RainGoesOn DEF RainDraws, count
    <3>. HIDE DEF Done, m
    <3>4. Done(h[k], Least(k, count))
      BY <2>1, <3>1, <3>3
    <3>. QED BY <3>4 DEF count
  <2>. QED BY <2>3, <2>4 DEF count
<1>. HIDE DEF S, Done
<1>9. n \in S
  <2>1. \A k \in 0 .. n : k \in S
    BY <1>1, <1>7, <1>8, UpTo
  <2>. QED BY <1>1, <2>1
<1>. QED BY <1>2, <1>6, <1>9 DEF S, Done, Folding

(* Wherever a frame stops between two trials, the step is the age's place. *)
LEMMA PlaceReached ==
    ASSUME NEW e, e.interval \in Nat \ {0}, NEW age \in Nat, NEW elapsed \in Nat, NEW m \in Nat,
           NEW step, step = IF m = 0 THEN age % e.interval ELSE 0,
           NEW left, left = age + elapsed - TimeAfter(e, age, m)
    PROVE  (step + left) % e.interval = (age + elapsed) % e.interval
<1>. DEFINE n == e.interval
            end == age + elapsed
            place == age % n
<1>1. n \in Nat \ {0} /\ end \in Nat /\ place \in Nat
  OBVIOUS
<1>2. CASE m = 0
  <2>1. left = elapsed /\ step = place
    BY <1>2 DEF TimeAfter
  <2>2. (elapsed + place) % n = end % n
    <3>. DEFINE w == n
                x == elapsed
                y == age
    <3>1. w \in Nat \ {0} /\ x \in Int /\ y \in Int
      BY <1>1
    <3>. HIDE DEF w, x, y
    <3>2. (x + (y % w)) % w = (x + y) % w
      BY <3>1, RemainderOfSum
    <3>. QED BY <3>2 DEF w, x, y
  <2>. HIDE DEF place, end
  <2>3. step + left = elapsed + place
    BY <1>1, <2>1
  <2>. QED BY <2>2, <2>3 DEF end
<1>3. CASE m # 0
  <2>. DEFINE t == TrialTime(e, age, m)
  <2>1. t \in Nat /\ t % n = 0 /\ left = end - t /\ step = 0
    BY <1>3, TrialTimes DEF TimeAfter
  <2>2. ((end % n) - (t % n)) % n = (end - t) % n
    <3>. DEFINE w == n
                x == end
                y == t
    <3>1. w \in Nat \ {0} /\ x \in Int /\ y \in Int
      BY <1>1, <2>1
    <3>. HIDE DEF w, x, y
    <3>2. ((x % w) - (y % w)) % w = (x - y) % w
      BY <3>1, RemainderOfSum
    <3>. QED BY <3>2 DEF w, x, y
  <2>. HIDE DEF t, end, n
  <2>3. (end % n) - 0 = end % n /\ (end % n) % n = end % n
    BY <1>1
  <2>4. 0 + (end - t) = end - t
    BY <1>1, <2>1
  <2>. QED BY <2>1, <2>2, <2>3, <2>4 DEF end, n
<1>. QED BY <1>2, <1>3

(* The last stretch of a frame, after its trials: the levels fade to the   *)
(* frame's end, the step takes the age's place, and the promise forgets    *)
(* the drops that have gone out.                                           *)
LEMMA RainSettles ==
    ASSUME NEW e, e.kind \in RainKinds, TrialEffect(e), NEW p \in RainPromises,
           NEW elapsed \in Nat, NEW picks, NEW m \in Nat, NEW acc,
           RainAfter(e, p, elapsed, picks, acc, m),
           NEW lits, lits = LitBys(e, p, picks, m),
           NEW flow, flow = IF e.kind = "flow" THEN (p.flow + m) % NumLeds ELSE 0,
           NEW end, end = p.age + elapsed,
           NEW rest, rest = Faded(acc.data, Peak * acc.remaining, e.period),
           NEW f, f = [rest EXCEPT !.step = (@ + acc.remaining) % e.interval],
           NEW after, after = [age |-> end, lit |-> lits, flow |-> flow],
           NEW q, q = [after EXCEPT !.lit = [l \in Leds |-> IF RainLevel(e, after, l) = 0
                                                            THEN Never ELSE lits[l]]]
    PROVE  RainState(e, f, q)
<1>. DEFINE t == TimeAfter(e, p.age, m)
<1>1. /\ e.interval \in Nat \ {0} /\ p.age \in Nat /\ end \in Nat
      /\ e.period \in Nat \ {0} /\ NumLeds \in Nat \ {0} /\ FadeScale(e) = Peak
  BY CoordAssumption DEF TrialEffect, RainPromises, FadeScale, RainKinds
<1>4. /\ acc.data \in RainData
      /\ acc.data.step = IF m = 0 THEN p.age % e.interval ELSE 0
      /\ acc.data.flow = flow
      /\ LitSince(e, acc.data, lits, t)
      /\ acc.remaining = p.age + elapsed - TimeAfter(e, p.age, m) /\ acc.remaining \in Nat
  <2>1. acc.data \in RainData
    BY DEF RainAfter
  <2>2. acc.data.step = IF m = 0 THEN p.age % e.interval ELSE 0
    BY ONLY RainAfter(e, p, elapsed, picks, acc, m) DEF RainAfter
  <2>3. acc.data.flow = flow
    BY ONLY RainAfter(e, p, elapsed, picks, acc, m),
          flow = IF e.kind = "flow" THEN (p.flow + m) % NumLeds ELSE 0  DEF RainAfter
  <2>4. LitSince(e, acc.data, lits, t)
    BY DEF RainAfter
  <2>5. acc.remaining = p.age + elapsed - TimeAfter(e, p.age, m) /\ acc.remaining \in Nat
    BY ONLY RainAfter(e, p, elapsed, picks, acc, m) DEF RainAfter
  <2>. QED BY <2>1, <2>2, <2>3, <2>4, <2>5
<1>5. t \in Nat /\ t + acc.remaining = end
  <2>1. TrialTime(e, p.age, m) \in Nat
    BY <1>1, TrialNext
  <2>2. t \in Nat
    BY <1>1, <2>1 DEF TimeAfter
  <2>. DEFINE age == p.age
              left == acc.remaining
  <2>3. left = age + elapsed - t
    BY ONLY <1>4 DEF t, age, left
  <2>4. end = age + elapsed /\ age \in Nat
    BY <1>1
  <2>. HIDE DEF t, age, left
  <2>5. t + left = end
    BY <2>2, <2>3, <2>4
  <2>. QED BY <2>2, <2>5 DEF left
<1>8. rest \in RainData /\ rest.step = acc.data.step /\ rest.flow = flow
      /\ LitSince(e, rest, lits, end)
  <2>. DEFINE data == acc.data
              remaining == acc.remaining
  <2>1. remaining \in Nat /\ t + remaining = end /\ data \in RainData /\ LitSince(e, data, lits, t)
    BY <1>4, <1>5
  <2>. HIDE DEF remaining, data, t
  <2>2. LET x == Faded(data, Peak * remaining, e.period)
        IN  /\ x \in RainData /\ x.step = data.step /\ x.flow = data.flow
            /\ LitSince(e, x, lits, t + remaining)
    BY <1>5, <2>1, LitFades
  <2>. QED BY <1>4, <2>1, <2>2 DEF data, remaining
<1>9. (acc.data.step + acc.remaining) % e.interval = end % e.interval
  <2>. DEFINE step == acc.data.step
              left == acc.remaining
              age == p.age
  <2>1. /\ age \in Nat /\ e.interval \in Nat \ {0}
        /\ step = IF m = 0 THEN age % e.interval ELSE 0
        /\ left = age + elapsed - TimeAfter(e, age, m)
    <3>1. age \in Nat /\ e.interval \in Nat \ {0}
      BY <1>1
    <3>2. step = IF m = 0 THEN age % e.interval ELSE 0
      BY ONLY <1>4 DEF step, age
    <3>3. left = age + elapsed - TimeAfter(e, age, m)
      BY ONLY <1>4 DEF left, age
    <3>. QED BY <3>1, <3>2, <3>3
  <2>. HIDE DEF step, left, age
  <2>2. (step + left) % e.interval = (age + elapsed) % e.interval
    BY <2>1, PlaceReached
  <2>. QED BY <2>2 DEF step, left, age
<1>10. /\ f \in RainData /\ f.step = end % e.interval /\ f.flow = flow
       /\ f.level = rest.level /\ f.rem = rest.rem
  <2>. DEFINE step == (acc.data.step + acc.remaining) % e.interval
  <2>1. step = end % e.interval /\ step \in Nat
    BY <1>1, <1>9
  <2>2. f = [rest EXCEPT !.step = step]
    BY <1>8
  <2>. HIDE DEF step
  <2>. QED BY <1>8, <2>1, <2>2 DEF RainData
<1>11. LitSince(e, f, lits, end)
  BY <1>8, <1>10 DEF LitSince
<1>12. ASSUME NEW l \in Leds
       PROVE  /\ lits[l] \in Int
              /\ RainLevel(e, after, l) = f.level[l]
              /\ f.level[l] = 0 => f.level[l] * e.period - f.rem[l] = 0
  <2>. DEFINE level == f.level[l]
              rem == f.rem[l]
              k == e.period
              parts == level * k - rem
  <2>1. Faint(level, rem, k) /\ parts = Left(e, lits[l], end)
        /\ (lits[l] = Never \/ lits[l] \in 0 .. end)
    BY <1>11 DEF LitSince
  <2>2. RainLevel(e, after, l) = IF lits[l] = Never THEN 0 ELSE LevelOf(e, parts)
    <3>. HIDE DEF parts
    <3>. QED BY <2>1 DEF RainLevel, Left
  <2>3. (parts + k - 1) \div k = level /\ (parts = 0 <=> level = 0)
    <3>. HIDE DEF level, rem, k
    <3>. QED BY <1>1, <2>1, LevelShown DEF k
  <2>4. lits[l] = Never => parts = 0
    BY <2>1 DEF Left
  <2>5. LevelOf(e, parts) = (parts + k - 1) \div k
    BY DEF LevelOf
  <2>. HIDE DEF level, rem, parts
  <2>6. lits[l] \in Int
    BY <1>1, <2>1 DEF Never
  <2>7. RainLevel(e, after, l) = level
    BY <2>2, <2>3, <2>4, <2>5
  <2>. QED BY <2>3, <2>6, <2>7 DEF level, rem, parts
<1>13. flow \in Nat /\ flow < NumLeds /\ (e.kind # "flow" => flow = 0)
  <2>. DEFINE sum == p.flow + m
  <2>1. sum \in Nat
    BY <1>1 DEF RainPromises
  <2>. HIDE DEF sum
  <2>2. sum % NumLeds \in 0 .. NumLeds - 1
    BY <1>1, <2>1
  <2>. QED BY <1>1, <2>2 DEF sum
<1>14. /\ q \in RainPromises /\ q.age = end /\ q.flow = flow
       /\ \A l \in Leds : q.lit[l] = IF f.level[l] = 0 THEN Never ELSE lits[l]
  <2>. DEFINE kept == [l \in Leds |-> IF RainLevel(e, after, l) = 0 THEN Never ELSE lits[l]]
  <2>1. kept \in [Leds -> Int] /\ \A l \in Leds : kept[l] = IF f.level[l] = 0 THEN Never ELSE lits[l]
    BY <1>12 DEF Never
  <2>2. q = [age |-> end, lit |-> kept, flow |-> flow]
    OBVIOUS
  <2>. HIDE DEF kept
  <2>. QED BY <1>1, <1>13, <2>1, <2>2 DEF RainPromises
<1>15. LitSince(e, f, q.lit, end)
  <2>1. ASSUME NEW l \in Leds
        PROVE  /\ q.lit[l] = Never \/ q.lit[l] \in 0 .. end
               /\ f.level[l] * e.period - f.rem[l] = Left(e, q.lit[l], end)
    <3>1. CASE f.level[l] = 0
      BY <1>12, <1>14, <3>1 DEF Left
    <3>2. CASE f.level[l] # 0
      BY <1>11, <1>14, <3>2 DEF LitSince
    <3>. QED BY <3>1, <3>2
  <2>. QED BY <1>11, <2>1 DEF LitSince
<1>. QED BY <1>10, <1>13, <1>14, <1>15 DEF RainState

(* A frame of rain, whenever it comes.                                     *)
LEMMA RainFrame ==
    ASSUME NEW e, e.kind \in RainKinds, TrialEffect(e), NEW d, NEW p, RainState(e, d, p),
           NEW elapsed \in Nat, NEW picks \in [1 .. MaxTrials -> RainDraws(e)]
    PROVE  RainState(e, RainSteps(e, d, elapsed, picks), RainPromise(e, p, elapsed, picks))
<1>. DEFINE n == e.interval
            age == p.age
            end == age + elapsed
            m == Least(MaxTrials, TrialCount(e, age, elapsed))
            t == TimeAfter(e, age, m)
            lits == LitBys(e, p, picks, m)
            acc == AllSteps("rain", e, 0, 0, RainBase(e, d, elapsed), picks)
            rest == Faded(acc.data, Peak * acc.remaining, e.period)
            f == RainSteps(e, d, elapsed, picks)
            flow == IF e.kind = "flow" THEN (p.flow + m) % NumLeds ELSE 0
            after == [age |-> end, lit |-> lits, flow |-> flow]
            q == RainPromise(e, p, elapsed, picks)
<1>1. /\ n \in Nat \ {0} /\ p \in RainPromises /\ age \in Nat /\ end \in Nat
      /\ e.period \in Nat \ {0} /\ NumLeds \in Nat \ {0} /\ FadeScale(e) = Peak
  BY CoordAssumption DEF RainState, TrialEffect, RainPromises, FadeScale, RainKinds
<1>2. m \in 0 .. MaxTrials /\ m \in Nat
      /\ TrialAges(e, age, elapsed) = [k \in 1 .. m |-> TrialTime(e, age, k)]
      /\ Len(TrialAges(e, age, elapsed)) = m
  <2>. DEFINE x == age
  <2>1. x \in Nat /\ e.interval \in Nat \ {0}
    BY <1>1
  <2>. HIDE DEF x
  <2>2. /\ Least(MaxTrials, TrialCount(e, x, elapsed)) \in 0 .. MaxTrials
        /\ TrialAges(e, x, elapsed) =
             [k \in 1 .. Least(MaxTrials, TrialCount(e, x, elapsed)) |-> TrialTime(e, x, k)]
        /\ Len(TrialAges(e, x, elapsed)) = Least(MaxTrials, TrialCount(e, x, elapsed))
    BY <2>1, AgesOfTrials
  <2>. HIDE DEF age
  <2>3. m \in 0 .. MaxTrials => m \in Nat
    BY SizesAssumption
  <2>. QED BY <2>2, <2>3 DEF x
<1>3. RainAfter(e, p, elapsed, picks, acc, m)
  <2>1. acc = AllSteps("rain", e, 0, 0, RainBase(e, d, elapsed), picks)
    OBVIOUS
  <2>. QED BY <2>1, RainTrialsDone
<1>6. /\ f = [rest EXCEPT !.step = (@ + acc.remaining) % n]
  <2>1. acc = FoldLeft(LAMBDA a, b : RainSlice(e, a, b), RainBase(e, d, elapsed), picks)
    BY DEF AllSteps, StepOf
  <2>. QED BY <2>1 DEF RainSteps, RainBase
<1>7. q = [after EXCEPT !.lit = [l \in Leds |-> IF RainLevel(e, after, l) = 0 THEN Never
                                                ELSE lits[l]]]
  <2>. DEFINE trials == TrialAges(e, age, elapsed)
              chosen(k) == IF e.kind = "flow" THEN (p.flow + k) % NumLeds ELSE picks[k]
              times(l) == {trials[k] : k \in {j \in DOMAIN trials : chosen(j) = l}}
              past == [l \in Leds |-> IF times(l) = {} THEN p.lit[l] ELSE Latest(times(l))]
              all == [age |-> end, lit |-> past,
                      flow |-> IF e.kind = "flow" THEN (p.flow + Len(trials)) % NumLeds ELSE 0]
  <2>1. q = [all EXCEPT !.lit = [l \in Leds |-> IF RainLevel(e, all, l) = 0 THEN Never
                                                ELSE past[l]]]
    BY DEF RainPromise, Latest
  <2>2. \A l \in Leds : times(l) = TimesBy(e, p, picks, m, l)
    <3>1. DOMAIN trials = 1 .. m /\ \A k \in 1 .. m : trials[k] = TrialTime(e, age, k)
      BY <1>2
    <3>. HIDE DEF trials, m
    <3>. QED BY <3>1 DEF TimesBy, ChosenBy
  <2>3. past = lits
    <3>. HIDE DEF times, m
    <3>. QED BY <2>2 DEF LitBys, LitBy
  <2>4. all = after
    <3>1. Len(trials) = m
      BY <1>2
    <3>. HIDE DEF m, trials, past
    <3>. QED BY <2>3, <3>1
  <2>. HIDE DEF all, past, after
  <2>. QED BY <2>1, <2>3, <2>4
<1>. HIDE DEF f, q, acc
<1>8. RainAfter(e, p, elapsed, picks, acc, m) /\ m \in Nat /\ p \in RainPromises
  BY <1>1, <1>2, <1>3
<1>. HIDE DEF m
<1>9. /\ lits = LitBys(e, p, picks, m) /\ end = p.age + elapsed
      /\ flow = IF e.kind = "flow" THEN (p.flow + m) % NumLeds ELSE 0
      /\ rest = Faded(acc.data, Peak * acc.remaining, e.period)
      /\ after = [age |-> end, lit |-> lits, flow |-> flow]
  OBVIOUS
<1>. HIDE DEF lits, flow, end, rest, after
<1>10. RainState(e, f, q)
  BY ONLY e.kind \in RainKinds, TrialEffect(e), elapsed \in Nat,
          <1>6, <1>7, <1>8, <1>9, RainSettles
<1>. QED BY <1>10 DEF f, q

-----------------------------------------------------------------------------
(* Fractal and drops *)

FractalState(e, d, p) ==
    d \in [phase : Nat] /\ p \in [age : Nat] /\ d.phase = p.age % e.period

LEMMA FractalFrame ==
    ASSUME NEW e, e.kind = "fractal", TrialEffect(e), NEW d, NEW p, FractalState(e, d, p),
           NEW elapsed \in Nat
    PROVE  FractalState(e, RainFractal(e, d, elapsed), [p EXCEPT !.age = @ + elapsed])
<1>. DEFINE n == e.period
            age == p.age
            end == age + elapsed
            place == (d.phase + elapsed) % n
<1>1. n \in Nat \ {0} /\ age \in Int /\ elapsed \in Int /\ end \in Nat /\ d.phase = age % n
  BY DEF TrialEffect, FractalState
<1>2. RainFractal(e, d, elapsed) = [phase |-> place] /\ [p EXCEPT !.age = @ + elapsed] = [age |-> end]
  BY DEF RainFractal, FractalState
<1>3. place = end % n /\ place \in Nat
  <2>1. d.phase + elapsed = elapsed + (age % n)
    <3>. DEFINE x == age % n
    <3>1. x \in Nat /\ d.phase = x
      BY <1>1
    <3>. HIDE DEF x
    <3>2. d.phase + elapsed = elapsed + x
      BY <3>1
    <3>. QED BY <3>2 DEF x
  <2>. HIDE DEF n, age
  <2>2. (elapsed + (age % n)) % n = (elapsed + age) % n
    BY <1>1, RemainderOfSum
  <2>3. elapsed + age = end
    BY <1>1
  <2>4. end % n \in Nat
    BY <1>1
  <2>. QED BY <2>1, <2>2, <2>3, <2>4
<1>. HIDE DEF place, end
<1>4. place = end % e.period
  BY <1>3 DEF n
<1>. QED BY <1>1, <1>2, <1>3, <1>4 DEF FractalState

Hues == 0 .. HueMax - 1
DropsState(e, d, p) ==
    /\ d \in [seeded : BOOLEAN, drop : Nat, hue : [Leds -> Hues]] /\ p \in [age : Nat]
    /\ d.drop = (DropRate * p.age) % e.period

LEMMA HueDrops ==
    ASSUME NEW hue \in Hues, NEW steps \in {0, 1, 2}
    PROVE  DropHue(hue, steps) \in Hues
BY DEF DropHue, Hues, HueMax

LEMMA DropsFrame ==
    ASSUME NEW e, e.kind = "drops", TrialEffect(e), NEW d, NEW p, DropsState(e, d, p),
           NEW elapsed \in Nat, NEW picks \in [1 .. MaxTrials -> Leds \X {0, 1, 2}],
           NEW seeds, d.seeded \/ seeds \in [Leds -> {0, 1, 2}]
    PROVE  DropsState(e, RainDrops(e, d, elapsed, picks, seeds), [p EXCEPT !.age = @ + elapsed])
<1>. DEFINE n == e.period
            progress == d.drop + elapsed * DropRate
            hues == IF d.seeded THEN d.hue ELSE [l \in Leds |-> DropHue(e.hue, seeds[l])]
            many == Least(progress \div n, MaxTrials)
            nudges == SubSeq(picks, 1, many)
            after == AllSteps("nudge", e, 0, 0, hues, nudges)
            end == p.age + elapsed
            f == RainDrops(e, d, elapsed, picks, seeds)
<1>1. /\ n \in Nat \ {0} /\ e.hue \in Hues /\ p.age \in Nat /\ end \in Nat /\ d.drop \in Nat
      /\ progress \in Nat /\ MaxTrials \in Nat
  BY SizesAssumption DEF TrialEffect, DropsState, Hues, DropRate
<1>2. hues \in [Leds -> Hues]
  <2>1. CASE d.seeded
    BY <2>1 DEF DropsState
  <2>2. CASE ~d.seeded
    BY <1>1, <2>2, HueDrops
  <2>. QED BY <2>1, <2>2
<1>3. nudges \in Seq(Leds \X {0, 1, 2})
  <2>1. many \in 0 .. MaxTrials
    <3>1. progress \div n \in Nat
      <4>. HIDE DEF progress, n
      <4>. QED BY <1>1, QuotientSplits
    <3>. QED BY <1>1, <3>1 DEF Least
  <2>. HIDE DEF many
  <2>. QED BY <1>1, <2>1
<1>4. after \in [Leds -> Hues]
  <2>1. ASSUME NEW a \in [Leds -> Hues], NEW b \in Leds \X {0, 1, 2}
        PROVE  StepOf("nudge", e, 0, 0, a, b) \in [Leds -> Hues]
    <3>1. b[1] \in Leds /\ DropHue(e.hue, b[2]) \in Hues
      BY <1>1, HueDrops
    <3>2. StepOf("nudge", e, 0, 0, a, b) = [a EXCEPT ![b[1]] = DropHue(e.hue, b[2])]
      BY DEF StepOf
    <3>. QED BY <3>1, <3>2
  <2>. HIDE DEF hues, nudges
  <2>. QED BY <1>2, <1>3, <2>1, FoldedIn
<1>5. f = [d EXCEPT !.seeded = TRUE, !.drop = progress % n, !.hue = after]
  <2>1. after = FoldLeft(LAMBDA h, q : [h EXCEPT ![q[1]] = DropHue(e.hue, q[2])], hues, nudges)
    BY DEF AllSteps, StepOf
  <2>. QED BY <2>1 DEF RainDrops
<1>6. progress % n = (DropRate * end) % n /\ progress % n \in Nat
  <2>. DEFINE x == DropRate * elapsed
              y == DropRate * p.age
  <2>1. x \in Int /\ y \in Int /\ x + y = DropRate * end
    <3>1. PICK a \in Nat : a = p.age
      BY <1>1
    <3>2. DropRate * elapsed + DropRate * a = DropRate * (a + elapsed)
      BY DEF DropRate
    <3>. QED BY <3>1, <3>2 DEF DropRate
  <2>2. progress = x + (y % n)
    <3>1. elapsed * DropRate = x
      BY DEF DropRate
    <3>2. d.drop = y % n /\ d.drop \in Int
      BY <1>1 DEF DropsState
    <3>. DEFINE z == y % n
    <3>. HIDE DEF x, y, z
    <3>3. d.drop + x = x + z
      BY <2>1, <3>2 DEF z
    <3>. QED BY <3>1, <3>3 DEF z
  <2>. HIDE DEF n, x, y, progress
  <2>3. (x + (y % n)) % n = (x + y) % n
    BY <1>1, <2>1, RemainderOfSum
  <2>4. progress % n \in Nat
    BY <1>1
  <2>. QED BY <2>1, <2>2, <2>3, <2>4
<1>. DEFINE place == progress % n
<1>7. place = (DropRate * end) % e.period /\ place \in Nat
  BY <1>6
<1>8. f = [seeded |-> TRUE, drop |-> place, hue |-> after]
  <2>. HIDE DEF after, place
  <2>1. f = [d EXCEPT !.seeded = TRUE, !.drop = place, !.hue = after]
    BY <1>5 DEF place
  <2>. HIDE DEF f
  <2>. QED BY <2>1 DEF DropsState
<1>9. [p EXCEPT !.age = @ + elapsed] = [age |-> end]
  BY DEF DropsState
<1>. HIDE DEF place, end, f, after
<1>. QED BY <1>1, <1>4, <1>7, <1>8, <1>9 DEF DropsState, f

-----------------------------------------------------------------------------
(* Starlight *)

StarData == [level : [Leds -> Nat], goal : [Leds -> Nat], rem : [Leds -> Nat], step : Nat]
StarPromises ==
    [age : Nat, from : [Leds -> Int], goal : [Leds -> Int], since : [Leds -> Int]]

(* Where a LED is that set out from a level for a goal some time ago.      *)
Moving(e, level, rem, from, goal, gone) ==
    LET parts == Peak * gone IN
    IF ~e.smooth THEN level = goal
    ELSE IF parts \div e.period >= Abs(goal - from) THEN level = goal /\ rem = 0
    ELSE /\ level = IF goal > from THEN from + parts \div e.period
                    ELSE from - parts \div e.period
         /\ rem = parts % e.period

LEMMA Approaches ==
    ASSUME NEW e, e.smooth, e.period \in Nat \ {0}, NEW from \in Nat, NEW goal \in Nat,
           NEW gone \in Nat, NEW more \in Nat, NEW level \in Nat, NEW rem \in Nat,
           Moving(e, level, rem, from, goal, gone)
    PROVE  LET a == Approach(level, goal, rem, more, e.period)
           IN  Moving(e, a.level, a.rem, from, goal, gone + more)
<1>. DEFINE n == e.period
            q == Peak * gone
            x == Peak * more
            u == q \div n
            r == q % n
            D == Abs(goal - from)
            a == Approach(level, goal, rem, more, n)
            w == Peak * (gone + more)
            num == more * Peak + rem
            adv == num \div n
            s == num % n
<1>1. n \in Nat \ {0} /\ Peak \in Nat \ {0} /\ q \in Nat /\ x \in Nat /\ w = q + x
      /\ more * Peak = x /\ num \in Nat /\ num = x + rem
  BY SizesAssumption
<1>2. D \in Nat /\ D = IF goal > from THEN goal - from ELSE from - goal
  BY DEF Abs
<1>3. u \in Nat /\ r \in 0 .. n - 1 /\ q = u * n + r
  <2>. HIDE DEF q, n
  <2>. QED BY <1>1, QuotientSplits
<1>4. adv \in Nat /\ s \in 0 .. n - 1 /\ num = adv * n + s
  <2>. HIDE DEF num, n
  <2>. QED BY <1>1, QuotientSplits
<1>5. IF u >= D THEN level = goal /\ rem = 0
      ELSE level = (IF goal > from THEN from + u ELSE from - u) /\ rem = r
  BY DEF Moving
<1>6. a = IF adv >= Abs(goal - level) THEN [level |-> goal, rem |-> 0]
          ELSE [level |-> IF level < goal THEN level + adv ELSE level - adv, rem |-> s]
  BY DEF Approach
<1>7. Moving(e, a.level, a.rem, from, goal, gone + more)
        <=> IF w \div n >= D THEN a.level = goal /\ a.rem = 0
            ELSE /\ a.level = IF goal > from THEN from + w \div n ELSE from - w \div n
                 /\ a.rem = w % n
  <2>. HIDE DEF a
  <2>. QED BY DEF Moving
<1>. HIDE DEF n, q, x, u, r, a, w, num, adv, s
<1>8. CASE u >= D
  <2>1. level = goal /\ rem = 0 /\ adv >= Abs(goal - level)
    BY <1>4, <1>5, <1>8 DEF Abs
  <2>2. a = [level |-> goal, rem |-> 0]
    BY <1>6, <2>1
  <2>3. u * n <= w /\ w \in Nat
    <3>1. u * n \in Nat /\ u * n <= q
      BY <1>1, <1>3
    <3>. QED BY <1>1, <3>1
  <2>4. u <= w \div n
    BY <1>1, <1>3, <2>3, QuotientReached
  <2>5. w \div n \in Nat
    BY <1>1, <2>3, QuotientSplits
  <2>6. w \div n >= D
    BY <1>2, <1>3, <1>8, <2>4, <2>5
  <2>. QED BY <1>7, <2>2, <2>6 DEF a, n
<1>9. CASE ~(u >= D)
  <2>1. level = (IF goal > from THEN from + u ELSE from - u) /\ rem = r
    BY <1>5, <1>9
  <2>2. (adv >= Abs(goal - level) <=> u + adv >= D) /\ (level < goal <=> goal > from)
    BY <1>2, <1>3, <1>4, <1>9, <2>1 DEF Abs
  <2>3. w \div n = u + adv /\ w % n = s
    <3>1. w = (u + adv) * n + s
      <4>1. u * n \in Nat /\ adv * n \in Nat /\ (u + adv) * n = u * n + adv * n
        BY <1>1, <1>3, <1>4
      <4>. QED BY <1>1, <1>3, <1>4, <2>1, <4>1
    <3>2. u + adv \in Int
      BY <1>3, <1>4
    <3>3. ((u + adv) * n + s) \div n = u + adv /\ ((u + adv) * n + s) % n = s
      BY <1>1, <1>4, <3>2, QuotientIs
    <3>. QED BY <3>1, <3>3
  <2>4. CASE u + adv >= D
    <3>1. a = [level |-> goal, rem |-> 0]
      BY <1>6, <2>2, <2>4
    <3>. QED BY <1>7, <2>3, <2>4, <3>1 DEF a, n
  <2>5. CASE ~(u + adv >= D)
    <3>1. a = [level |-> IF level < goal THEN level + adv ELSE level - adv, rem |-> s]
      BY <1>6, <2>2, <2>5
    <3>2. (IF level < goal THEN level + adv ELSE level - adv)
            = IF goal > from THEN from + (u + adv) ELSE from - (u + adv)
      BY <1>3, <1>4, <2>1, <2>2
    <3>3. a.level = (IF goal > from THEN from + w \div n ELSE from - w \div n) /\ a.rem = w % n
      BY <2>3, <3>1, <3>2
    <3>. QED BY <1>7, <2>3, <2>5, <3>3 DEF a, n
  <2>. QED BY <2>4, <2>5
<1>. QED BY <1>8, <1>9

LEMMA ApproachTyped ==
    ASSUME NEW period \in Nat \ {0}, NEW goal \in Nat, NEW more \in Nat, NEW level \in Nat,
           NEW rem \in Nat
    PROVE  Approach(level, goal, rem, more, period) \in [level : Nat, rem : Nat]
<1>. DEFINE num == more * Peak + rem
            adv == num \div period
            s == num % period
<1>1. num \in Nat
  BY SizesAssumption
<1>2. adv \in Nat /\ s \in Nat
  <2>. HIDE DEF num
  <2>. QED BY <1>1, QuotientSplits
<1>3. Approach(level, goal, rem, more, period)
        = IF adv >= Abs(goal - level) THEN [level |-> goal, rem |-> 0]
          ELSE [level |-> IF level < goal THEN level + adv ELSE level - adv, rem |-> s]
  BY DEF Approach
<1>. HIDE DEF adv, s
<1>. QED BY <1>2, <1>3 DEF Abs

(* At time t every LED is on its way to its goal since it was last drawn.  *)
StarSince(e, d, p, t) ==
    \A l \in Leds :
        /\ p.from[l] \in Nat /\ p.goal[l] \in Nat /\ p.since[l] \in 0 .. t
        /\ d.goal[l] = p.goal[l]
        /\ Moving(e, d.level[l], d.rem[l], p.from[l], p.goal[l], t - p.since[l])

LEMMA StarShows ==
    ASSUME NEW e, NEW d \in StarData, NEW p \in StarPromises, NEW t \in Nat,
           StarSince(e, d, p, t), NEW l \in Leds
    PROVE  StarLevel(e, p, l, t) = d.level[l]
<1>1. Moving(e, d.level[l], d.rem[l], p.from[l], p.goal[l], t - p.since[l])
  BY DEF StarSince
<1>. DEFINE moved == (Peak * (t - p.since[l])) \div e.period
            far == Abs(p.goal[l] - p.from[l])
<1>2. IF ~e.smooth \/ moved >= far THEN d.level[l] = p.goal[l]
      ELSE d.level[l] = IF p.goal[l] > p.from[l] THEN p.from[l] + moved ELSE p.from[l] - moved
  BY <1>1 DEF Moving
<1>3. StarLevel(e, p, l, t) =
        IF ~e.smooth \/ moved >= far THEN p.goal[l]
        ELSE IF p.goal[l] > p.from[l] THEN p.from[l] + moved ELSE p.from[l] - moved
  BY DEF StarLevel
<1>. HIDE DEF moved, far
<1>4. CASE ~e.smooth \/ moved >= far
  BY <1>2, <1>3, <1>4
<1>5. CASE ~(~e.smooth \/ moved >= far)
  BY <1>2, <1>3, <1>5
<1>. QED BY <1>4, <1>5

LEMMA StarMoves ==
    ASSUME NEW e, e.kind = "starlight", TrialEffect(e), NEW d \in StarData,
           NEW elapsed \in Nat
    PROVE  LET f == StarAdvance(e, d, elapsed)
           IN  /\ f \in StarData /\ f.step = d.step /\ f.goal = d.goal
               /\ \A p \in StarPromises, t \in Nat :
                    StarSince(e, d, p, t) => StarSince(e, f, p, t + elapsed)
<1>. DEFINE f == StarAdvance(e, d, elapsed)
            moved == [l \in Leds |-> Approach(d.level[l], d.goal[l], d.rem[l], elapsed, e.period)]
<1>1. e.period \in Nat \ {0} /\ e.smooth \in BOOLEAN
  BY DEF TrialEffect
<1>2. CASE e.smooth /\ elapsed # 0
  <2>1. moved \in [Leds -> [level : Nat, rem : Nat]]
    <3>1. ASSUME NEW l \in Leds
          PROVE Approach(d.level[l], d.goal[l], d.rem[l], elapsed, e.period) \in [level : Nat, rem : Nat]
      BY <1>1, ApproachTyped DEF StarData
    <3>. QED BY <3>1
  <2>2. f = [d EXCEPT !.level = [l \in Leds |-> moved[l].level],
                      !.rem = [l \in Leds |-> moved[l].rem]]
    BY <1>2 DEF StarAdvance
  <2>3. \A l \in Leds : moved[l] = Approach(d.level[l], d.goal[l], d.rem[l], elapsed, e.period)
    OBVIOUS
  <2>. HIDE DEF moved
  <2>4. /\ f \in StarData /\ f.step = d.step /\ f.goal = d.goal
        /\ \A l \in Leds : f.level[l] = moved[l].level /\ f.rem[l] = moved[l].rem
    <3>. HIDE DEF f
    <3>. QED BY <2>1, <2>2 DEF StarData
  <2>. HIDE DEF f
  <2>5. ASSUME NEW p \in StarPromises, NEW t \in Nat, StarSince(e, d, p, t)
        PROVE  StarSince(e, f, p, t + elapsed)
    <3>1. ASSUME NEW l \in Leds
          PROVE  /\ p.from[l] \in Nat /\ p.goal[l] \in Nat /\ p.since[l] \in 0 .. t + elapsed
                 /\ f.goal[l] = p.goal[l]
                 /\ Moving(e, f.level[l], f.rem[l], p.from[l], p.goal[l], (t + elapsed) - p.since[l])
      <4>. DEFINE gone == t - p.since[l]
                  from == p.from[l]
                  goal == p.goal[l]
                  level == d.level[l]
                  rem == d.rem[l]
                  a == Approach(level, goal, rem, elapsed, e.period)
      <4>1. /\ from \in Nat /\ goal \in Nat /\ gone \in Nat /\ p.since[l] \in 0 .. t
            /\ d.goal[l] = goal /\ level \in Nat /\ rem \in Nat
            /\ Moving(e, level, rem, from, goal, gone)
        BY <2>5 DEF StarSince, StarData
      <4>2. f.level[l] = a.level /\ f.rem[l] = a.rem
        BY <2>3, <2>4, <4>1
      <4>3. gone + elapsed = (t + elapsed) - p.since[l] /\ p.since[l] \in 0 .. t + elapsed
        BY <4>1
      <4>. HIDE DEF a
      <4>4. Moving(e, a.level, a.rem, from, goal, gone + elapsed)
        <5>. HIDE DEF gone, from, goal, level, rem
        <5>. QED BY <1>1, <1>2, <4>1, Approaches DEF a
      <4>. HIDE DEF gone
      <4>5. Moving(e, a.level, a.rem, from, goal, (t + elapsed) - p.since[l])
        BY <4>3, <4>4
      <4>. QED BY <2>4, <4>1, <4>2, <4>3, <4>5
    <3>. QED BY <3>1 DEF StarSince
  <2>. QED BY <2>4, <2>5 DEF f
<1>3. CASE ~(e.smooth /\ elapsed # 0)
  <2>1. f = d
    BY <1>1, <1>3 DEF StarAdvance
  <2>. HIDE DEF f
  <2>2. ASSUME NEW p \in StarPromises, NEW t \in Nat, StarSince(e, d, p, t)
        PROVE  StarSince(e, f, p, t + elapsed)
    <3>1. CASE elapsed = 0
      <4>1. t + elapsed = t
        BY <3>1
      <4>. QED BY <2>1, <2>2, <4>1
    <3>2. CASE ~e.smooth
      <4>1. ASSUME NEW l \in Leds
            PROVE  /\ p.from[l] \in Nat /\ p.goal[l] \in Nat /\ p.since[l] \in 0 .. t
                   /\ d.goal[l] = p.goal[l] /\ d.level[l] = p.goal[l]
        BY <2>2, <3>2 DEF StarSince, Moving
      <4>2. \A l \in Leds : p.since[l] \in 0 .. t + elapsed
        BY <4>1
      <4>. QED BY <2>1, <3>2, <4>1, <4>2 DEF StarSince, Moving
    <3>. QED BY <1>1, <1>3, <3>1, <3>2
  <2>. QED BY <2>1, <2>2 DEF f
<1>. QED BY <1>2, <1>3

StarDraws(e) == UNION {[lit -> e.goals] : lit \in SUBSET Leds}

LEMMA DrawnGoals ==
    ASSUME NEW e, e.kind = "starlight", TrialEffect(e), NEW pick \in StarDraws(e)
    PROVE  DOMAIN pick \subseteq Leds /\ \A l \in DOMAIN pick : pick[l] \in Nat
<1>1. PICK lit \in SUBSET Leds : pick \in [lit -> e.goals]
  BY DEF StarDraws
<1>. QED BY <1>1 DEF TrialEffect

(* A trial at time t: the LEDs that are drawn set out from where they are. *)
LEMMA StarDrawn ==
    ASSUME NEW e, e.kind = "starlight", TrialEffect(e), NEW d \in StarData,
           NEW pick \in StarDraws(e)
    PROVE  LET f == StarTrial(e, d, pick)
           IN  /\ f \in StarData /\ f.step = d.step
               /\ \A p \in StarPromises : \A trials, picks, k :
                    (trials[k] \in Nat /\ picks[k] = pick /\ StarSince(e, d, p, trials[k]))
                      => StarSince(e, f, Toggled(e, trials, picks, p, k), trials[k])
<1>. DEFINE f == StarTrial(e, d, pick)
            goals == [l \in Leds |-> IF l \notin DOMAIN pick THEN d.goal[l]
                                     ELSE IF d.goal[l] = 0 THEN pick[l] ELSE 0]
            rems == [l \in Leds |-> IF l \in DOMAIN pick THEN 0 ELSE d.rem[l]]
            levels == IF e.smooth THEN d.level ELSE goals
<1>1. e.period \in Nat \ {0} /\ e.smooth \in BOOLEAN
  BY DEF TrialEffect
<1>2. goals \in [Leds -> Nat] /\ rems \in [Leds -> Nat]
  BY DrawnGoals DEF StarData
<1>3. f = [d EXCEPT !.goal = goals, !.rem = rems, !.level = levels]
  BY DEF StarTrial
<1>4. levels \in [Leds -> Nat]
  BY <1>2 DEF StarData
<1>5. f \in StarData /\ f.step = d.step /\ f.goal = goals /\ f.rem = rems /\ f.level = levels
  <2>. HIDE DEF f, goals, rems, levels
  <2>. QED BY <1>2, <1>3, <1>4 DEF StarData
<1>. HIDE DEF f
<1>6. ASSUME NEW p \in StarPromises, NEW trials, NEW picks, NEW k,
             trials[k] \in Nat, picks[k] = pick, StarSince(e, d, p, trials[k])
      PROVE  StarSince(e, f, Toggled(e, trials, picks, p, k), trials[k])
  <2>. DEFINE t == trials[k]
              q == Toggled(e, trials, picks, p, k)
  <2>1. \A l \in Leds :
          IF l \in DOMAIN pick
          THEN /\ q.from[l] = StarLevel(e, p, l, t)
               /\ q.goal[l] = IF p.goal[l] = 0 THEN pick[l] ELSE 0
               /\ q.since[l] = t
          ELSE q.from[l] = p.from[l] /\ q.goal[l] = p.goal[l] /\ q.since[l] = p.since[l]
    BY <1>6 DEF Toggled, StarPromises
  <2>. HIDE DEF t, q
  <2>2. t \in Nat /\ StarSince(e, d, p, t)
    BY <1>6 DEF t
  <2>3. ASSUME NEW l \in Leds
        PROVE  /\ q.from[l] \in Nat /\ q.goal[l] \in Nat /\ q.since[l] \in 0 .. t
               /\ f.goal[l] = q.goal[l]
               /\ Moving(e, f.level[l], f.rem[l], q.from[l], q.goal[l], t - q.since[l])
    <3>1. /\ p.from[l] \in Nat /\ p.goal[l] \in Nat /\ p.since[l] \in 0 .. t
          /\ d.goal[l] = p.goal[l] /\ d.level[l] \in Nat
          /\ Moving(e, d.level[l], d.rem[l], p.from[l], p.goal[l], t - p.since[l])
      BY <2>2 DEF StarSince, StarData
    <3>2. CASE l \in DOMAIN pick
      <4>1. StarLevel(e, p, l, t) = d.level[l]
        BY <2>2, StarShows
      <4>2. /\ q.from[l] = d.level[l] /\ q.since[l] = t
            /\ q.goal[l] = goals[l] /\ goals[l] \in Nat
            /\ f.goal[l] = goals[l] /\ f.rem[l] = 0
            /\ f.level[l] = IF e.smooth THEN d.level[l] ELSE goals[l]
        BY <1>2, <1>5, <2>1, <3>1, <3>2, <4>1
      <4>. DEFINE from == d.level[l]
                  goal == goals[l]
      <4>. HIDE DEF goals, levels, rems
      <4>3. Moving(e, IF e.smooth THEN from ELSE goal, 0, from, goal, 0)
        <5>1. from \in Nat /\ goal \in Nat
          BY <3>1, <4>2
        <5>. HIDE DEF from, goal
        <5>2. (Peak * 0) \div e.period = 0 /\ (Peak * 0) % e.period = 0
          <6>1. Peak * 0 = 0 /\ 0 * e.period + 0 = 0 /\ 0 \in 0 .. e.period - 1
            BY <1>1, SizesAssumption
          <6>2. (0 * e.period + 0) \div e.period = 0 /\ (0 * e.period + 0) % e.period = 0
            BY <1>1, <6>1, QuotientIs
          <6>. QED BY <6>1, <6>2
        <5>. QED BY <1>1, <5>1, <5>2 DEF Moving, Abs
      <4>4. t - t = 0
        BY <2>2
      <4>. HIDE DEF goal
      <4>. QED BY <1>1, <2>2, <3>1, <4>2, <4>3, <4>4 DEF goal
    <3>3. CASE l \notin DOMAIN pick
      <4>1. /\ q.from[l] = p.from[l] /\ q.goal[l] = p.goal[l] /\ q.since[l] = p.since[l]
            /\ f.goal[l] = d.goal[l] /\ f.rem[l] = d.rem[l]
            /\ f.level[l] = IF e.smooth THEN d.level[l] ELSE d.goal[l]
        BY <1>5, <2>1, <3>3
      <4>2. ~e.smooth => d.level[l] = d.goal[l]
        BY <3>1 DEF Moving
      <4>. QED BY <3>1, <4>1, <4>2
    <3>. QED BY <3>2, <3>3
  <2>. QED BY <2>3 DEF StarSince, t, q
<1>. QED BY <1>5, <1>6 DEF f

StarState(e, d, p) ==
    /\ d \in StarData /\ p \in StarPromises
    /\ d.step = p.age % e.interval
    /\ StarSince(e, d, p, p.age)

StarBase(e, d, elapsed) ==
    [data |-> [d EXCEPT !.step = (d.step + elapsed) % e.interval],
     remaining |-> elapsed, until |-> e.interval - d.step]

(* After m trials of a frame: the time is that of the last one.            *)
StarAfter(e, age, elapsed, a, q, m) ==
    LET t == TimeAfter(e, age, m) IN
    /\ a.data \in StarData /\ q \in StarPromises
    /\ a.data.step = (age + elapsed) % e.interval
    /\ StarSince(e, a.data, q, t)
    /\ a.remaining = age + elapsed - t
    /\ a.until = TrialTime(e, age, m + 1) - t

LEMMA StarGoesOn ==
    ASSUME NEW e, e.kind = "starlight", TrialEffect(e), NEW age \in Nat, NEW elapsed \in Nat,
           NEW m \in Nat, NEW a, NEW q, StarAfter(e, age, elapsed, a, q, m),
           NEW picks, picks[m + 1] \in StarDraws(e),
           NEW trials, trials[m + 1] = TrialTime(e, age, m + 1),
           NEW toggled, toggled = Toggled(e, trials, picks, q, m + 1), toggled \in StarPromises
    PROVE  StarAfter(e, age, elapsed, StarSlice(e, a, picks[m + 1]), toggled, m + 1)
<1>. DEFINE t == TimeAfter(e, age, m)
            at == TrialTime(e, age, m + 1)
            moved == StarAdvance(e, a.data, a.until)
            new == StarTrial(e, moved, picks[m + 1])
            b == StarSlice(e, a, picks[m + 1])
            n == e.interval
<1>1. e.interval \in Nat \ {0}
  BY DEF TrialEffect
<1>2. /\ a.data \in StarData /\ q \in StarPromises
      /\ StarSince(e, a.data, q, t)
  BY DEF StarAfter
<1>3. a.remaining = age + elapsed - t /\ a.until = at - t
  BY ONLY StarAfter(e, age, elapsed, a, q, m) DEF StarAfter, t, at
<1>4. a.data.step = (age + elapsed) % e.interval
  BY ONLY StarAfter(e, age, elapsed, a, q, m) DEF StarAfter
<1>5. t \in Nat /\ at \in Nat /\ t <= at /\ at # 0 /\ TrialTime(e, age, (m + 1) + 1) = at + n
  <2>1. /\ TrialTime(e, age, m) \in Nat /\ at \in Nat /\ at > age
        /\ at = TrialTime(e, age, m) + n /\ TrialTime(e, age, (m + 1) + 1) = at + n
    <3>. DEFINE k == m + 1
    <3>1. k \in Nat /\ k > 0
      OBVIOUS
    <3>2. TrialTime(e, age, m) \in Nat /\ TrialTime(e, age, m + 1) = TrialTime(e, age, m) + n
      BY <1>1, TrialNext
    <3>. HIDE DEF k
    <3>3. /\ TrialTime(e, age, k) \in Nat /\ TrialTime(e, age, k) > age
          /\ TrialTime(e, age, k + 1) = TrialTime(e, age, k) + n
      BY ONLY <1>1, <3>1, age \in Nat, elapsed \in Nat, TrialNext DEF n
    <3>. QED BY <3>2, <3>3 DEF k
  <2>. HIDE DEF at
  <2>. QED BY <1>1, <2>1 DEF TimeAfter
<1>6. b = [data |-> new, remaining |-> a.remaining - a.until, until |-> n]
  BY DEF StarSlice
<1>. HIDE DEF t, at
<1>7. a.until \in Nat /\ t + a.until = at
  BY <1>3, <1>5
<1>8. moved \in StarData /\ moved.step = a.data.step /\ StarSince(e, moved, q, at)
  <2>. DEFINE data == a.data
              until == a.until
  <2>1. data \in StarData /\ until \in Nat /\ StarSince(e, data, q, t)
    BY <1>2, <1>7
  <2>2. moved = StarAdvance(e, data, until)
    OBVIOUS
  <2>. HIDE DEF data, until, moved
  <2>3. /\ moved \in StarData /\ moved.step = data.step
        /\ \A s \in StarPromises, x \in Nat :
             StarSince(e, data, s, x) => StarSince(e, moved, s, x + until)
    BY <2>1, <2>2, StarMoves
  <2>4. StarSince(e, moved, q, t + until)
    BY <1>2, <1>5, <2>1, <2>3
  <2>. QED BY <1>7, <2>3, <2>4 DEF data, until
<1>. HIDE DEF moved
<1>9. new \in StarData /\ new.step = moved.step /\ StarSince(e, new, toggled, at)
  <2>1. trials[m + 1] = at
    BY DEF at
  <2>. QED BY <1>2, <1>5, <1>8, <2>1, StarDrawn
<1>. HIDE DEF new, b
<1>10. b.remaining = age + elapsed - at /\ b.until = TrialTime(e, age, (m + 1) + 1) - at
  <2>1. b.remaining = a.remaining - a.until /\ b.until = n
    BY <1>6
  <2>. HIDE DEF n
  <2>2. n \in Nat
    BY <1>1 DEF n
  <2>. QED BY <1>3, <1>5, <2>1, <2>2
<1>11. TimeAfter(e, age, m + 1) = at
  BY DEF TimeAfter, at
<1>12. b.data = new
  BY <1>6
<1>13. b.data.step = (age + elapsed) % e.interval
  BY <1>4, <1>8, <1>9, <1>12
<1>14. StarAfter(e, age, elapsed, b, toggled, m + 1)
  BY <1>9, <1>10, <1>11, <1>12, <1>13 DEF StarAfter
<1>. QED BY <1>14 DEF b

LEMMA StarBegins ==
    ASSUME NEW e, e.kind = "starlight", TrialEffect(e), NEW d, NEW p, StarState(e, d, p),
           NEW elapsed \in Nat
    PROVE  StarAfter(e, p.age, elapsed, StarBase(e, d, elapsed), p, 0)
<1>. DEFINE age == p.age
            a == StarBase(e, d, elapsed)
            n == e.interval
            step == (d.step + elapsed) % n
<1>1. e.interval \in Nat \ {0} /\ age \in Nat /\ d \in StarData /\ p \in StarPromises
  BY DEF TrialEffect, StarState, StarPromises
<1>2. a.data = [d EXCEPT !.step = step] /\ a.remaining = elapsed /\ a.until = n - d.step
  BY DEF StarBase
<1>3. step = (age + elapsed) % n /\ step \in Nat
  <2>. DEFINE x == age % n
              m == 0
              left == age + elapsed - TimeAfter(e, age, m)
  <2>1. d.step = x
    BY DEF StarState
  <2>2. left = elapsed /\ m \in Nat /\ x = IF m = 0 THEN age % e.interval ELSE 0
    BY <1>1 DEF TimeAfter
  <2>. HIDE DEF left, m
  <2>3. (x + left) % e.interval = (age + elapsed) % e.interval
    <3>. HIDE DEF x, age
    <3>. QED BY <1>1, <2>2, PlaceReached DEF left
  <2>4. x + left \in Nat
    <3>1. x \in Nat
      BY <1>1
    <3>. HIDE DEF x
    <3>. QED BY <2>2, <3>1
  <2>5. step = (x + left) % n
    BY <2>1, <2>2
  <2>. HIDE DEF x, left
  <2>6. (x + left) % n \in Nat
    BY <1>1, <2>4
  <2>. HIDE DEF step
  <2>. QED BY <2>3, <2>5, <2>6
<1>. HIDE DEF step, a
<1>4. /\ a.data \in StarData /\ a.data.step = step
      /\ a.data.level = d.level /\ a.data.goal = d.goal /\ a.data.rem = d.rem
  BY <1>1, <1>2, <1>3 DEF StarData
<1>5. StarSince(e, a.data, p, age)
  BY <1>4 DEF StarSince, StarState
<1>6. TimeAfter(e, age, 0) = age
  BY DEF TimeAfter
<1>7. a.until = TrialTime(e, age, 0 + 1) - age
  <2>. DEFINE x == age % n
              t0 == TrialTime(e, age, 0)
              t1 == TrialTime(e, age, 0 + 1)
  <2>1. t0 \in Nat /\ t0 + x = age /\ t1 = t0 + n /\ x \in Nat
    <3>. DEFINE k == 0
    <3>1. k \in Nat
      OBVIOUS
    <3>. HIDE DEF k, age
    <3>2. /\ TrialTime(e, age, k) \in Nat /\ TrialTime(e, age, k + 1) = TrialTime(e, age, k) + n
          /\ TrialTime(e, age, 0) + (age % n) = age /\ (age % n) \in 0 .. n - 1
      BY <1>1, <3>1, TrialPlace, TrialNext
    <3>3. \A y \in 0 .. n - 1 : y \in Nat
      BY <1>1
    <3>. QED BY <3>2, <3>3 DEF k
  <2>2. d.step = x
    BY DEF StarState
  <2>. HIDE DEF x, t0, t1
  <2>3. n - x = t1 - (t0 + x)
    <3>. DEFINE w == n
    <3>1. w \in Nat
      BY <1>1
    <3>. HIDE DEF w
    <3>2. w - x = t1 - (t0 + x)
      BY <2>1, <3>1 DEF w
    <3>. QED BY <3>2 DEF w
  <2>. QED BY <1>2, <2>1, <2>2, <2>3 DEF t1
<1>8. a.remaining = age + elapsed - age
  BY <1>1, <1>2
<1>9. a.data.step = (age + elapsed) % e.interval
  BY <1>3, <1>4
<1>10. StarAfter(e, age, elapsed, a, p, 0)
  BY <1>1, <1>4, <1>5, <1>6, <1>7, <1>8, <1>9 DEF StarAfter
<1>. QED BY <1>10 DEF a

StarAccs == [data : StarData, remaining : Int, until : Nat]

LEMMA StarTyped ==
    ASSUME NEW e, e.kind = "starlight", TrialEffect(e), NEW a \in StarAccs,
           NEW pick \in StarDraws(e)
    PROVE  StarSlice(e, a, pick) \in StarAccs
<1>. DEFINE moved == StarAdvance(e, a.data, a.until)
            new == StarTrial(e, moved, pick)
<1>1. e.interval \in Nat /\ a.data \in StarData /\ a.remaining \in Int /\ a.until \in Nat
  BY DEF TrialEffect, StarAccs
<1>2. moved \in StarData
  BY <1>1, StarMoves
<1>. HIDE DEF moved
<1>3. new \in StarData
  BY <1>2, StarDrawn
<1>4. StarSlice(e, a, pick) = [data |-> new, remaining |-> a.remaining - a.until,
                               until |-> e.interval]
  BY DEF StarSlice, moved
<1>. HIDE DEF new
<1>. QED BY <1>1, <1>3, <1>4 DEF StarAccs

LEMMA ToggledTyped ==
    ASSUME NEW e, e.kind = "starlight", TrialEffect(e), NEW q \in StarPromises,
           NEW trials, NEW picks, NEW k, trials[k] \in Int, picks[k] \in StarDraws(e)
    PROVE  Toggled(e, trials, picks, q, k) \in StarPromises
<1>1. e.period \in Nat \ {0} /\ Peak \in Nat
  BY SizesAssumption DEF TrialEffect
<1>2. ASSUME NEW l \in Leds PROVE StarLevel(e, q, l, trials[k]) \in Int
  <2>. DEFINE parts == Peak * (trials[k] - q.since[l])
              moved == parts \div e.period
  <2>1. q.from[l] \in Int /\ q.goal[l] \in Int /\ q.since[l] \in Int
    BY DEF StarPromises
  <2>2. parts \in Int
    BY <1>1, <2>1
  <2>3. moved \in Int
    <3>. HIDE DEF parts
    <3>. QED BY <1>1, <2>2
  <2>4. StarLevel(e, q, l, trials[k]) =
          IF ~e.smooth \/ moved >= Abs(q.goal[l] - q.from[l]) THEN q.goal[l]
          ELSE IF q.goal[l] > q.from[l] THEN q.from[l] + moved ELSE q.from[l] - moved
    BY DEF StarLevel
  <2>. HIDE DEF moved
  <2>. QED BY <2>1, <2>3, <2>4
<1>. DEFINE from == [l \in Leds |-> IF l \in DOMAIN picks[k] THEN StarLevel(e, q, l, trials[k])
                                    ELSE q.from[l]]
            goal == [l \in Leds |-> IF ~(l \in DOMAIN picks[k]) THEN q.goal[l]
                                    ELSE IF q.goal[l] = 0 THEN picks[k][l] ELSE 0]
            since == [l \in Leds |-> IF l \in DOMAIN picks[k] THEN trials[k] ELSE q.since[l]]
<1>3. /\ from \in [Leds -> Int] /\ goal \in [Leds -> Int] /\ since \in [Leds -> Int]
  <2>1. \A l \in DOMAIN picks[k] : picks[k][l] \in Int
    BY DrawnGoals
  <2>. QED BY <1>2, <2>1 DEF StarPromises
<1>4. Toggled(e, trials, picks, q, k) = [q EXCEPT !.from = from, !.goal = goal, !.since = since]
  BY DEF Toggled
<1>. HIDE DEF from, goal, since
<1>. QED BY <1>3, <1>4 DEF StarPromises

LEMMA StarTrialsDone ==
    ASSUME NEW e, e.kind = "starlight", TrialEffect(e), NEW d, NEW p, StarState(e, d, p),
           NEW elapsed \in Nat, NEW picks \in [1 .. MaxTrials -> StarDraws(e)],
           NEW m \in 0 .. MaxTrials, NEW trials, \A k \in 1 .. m : trials[k] = TrialTime(e, p.age, k)
    PROVE  StarAfter(e, p.age, elapsed,
                     AllSteps("star", e, 0, 0, StarBase(e, d, elapsed), SubSeq(picks, 1, m)),
                     AllSteps("toggle", e, trials, picks, p, [k \in 1 .. m |-> k]), m)
<1>. DEFINE age == p.age
            base == StarBase(e, d, elapsed)
            draws == SubSeq(picks, 1, m)
            ks == [k \in 1 .. m |-> k]
            Done(a, q, k) == StarAfter(e, age, elapsed, a, q, k)
<1>1. /\ e.interval \in Nat \ {0} /\ age \in Nat /\ p \in StarPromises /\ m \in Nat
      /\ MaxTrials \in Nat
  BY SizesAssumption DEF TrialEffect, StarState, StarPromises
<1>2. draws \in Seq(StarDraws(e)) /\ Len(draws) = m /\ \A k \in 1 .. m : draws[k] = picks[k]
  BY <1>1
<1>3. ks \in Seq(1 .. m) /\ Len(ks) = m /\ \A k \in 1 .. m : ks[k] = k
  BY <1>1
<1>4. Done(base, p, 0)
  BY StarBegins
<1>5. base \in StarAccs
  <2>1. base = [data |-> base.data, remaining |-> elapsed, until |-> e.interval - d.step]
    BY DEF StarBase
  <2>2. base.data \in StarData
    BY <1>4 DEF StarAfter
  <2>3. e.interval - d.step \in Nat
    <3>1. d.step = age % e.interval
      BY DEF StarState
    <3>2. (age % e.interval) \in 0 .. e.interval - 1
      BY <1>1
    <3>. QED BY <1>1, <3>1, <3>2
  <2>. HIDE DEF base
  <2>. QED BY <2>1, <2>2, <2>3 DEF StarAccs
<1>6. PICK h : Folding(h, "star", e, 0, 0, base, draws)
  <2>1. \A a \in StarAccs, b \in StarDraws(e) : StepOf("star", e, 0, 0, a, b) \in StarAccs
    BY StarTyped DEF StepOf
  <2>. HIDE DEF base, draws
  <2>. QED BY <1>2, <1>5, <2>1, StepFold
<1>7. \A k \in 1 .. m : trials[k] \in Int /\ picks[k] \in StarDraws(e)
  <2>1. ASSUME NEW k \in 1 .. m PROVE TrialTime(e, age, k) \in Int
    <3>1. k \in Nat
      OBVIOUS
    <3>2. TrialTime(e, age, k) \in Nat
      <4>. HIDE DEF age
      <4>. QED BY ONLY <1>1, <3>1, elapsed \in Nat, TrialNext
    <3>. QED BY <3>2
  <2>. QED BY <1>1, <2>1
<1>8. PICK g : Folding(g, "toggle", e, trials, picks, p, ks)
  <2>1. \A a \in StarPromises, b \in 1 .. m : StepOf("toggle", e, trials, picks, a, b) \in StarPromises
    BY <1>7, ToggledTyped DEF StepOf
  <2>. HIDE DEF ks
  <2>. QED BY <1>1, <1>3, <2>1, StepFold
<1>. DEFINE S == {k \in 0 .. m : Done(h[k], g[k], k)}
<1>9. 0 \in S
  <2>1. h[0] = base /\ g[0] = p
    BY <1>6, <1>8 DEF Folding
  <2>. HIDE DEF base, Done
  <2>. QED BY <1>1, <1>4, <2>1
<1>10. ASSUME NEW k \in 1 .. m, k - 1 \in S PROVE k \in S
  <2>. DEFINE j == k - 1
              a == h[j]
              q == g[j]
              toggled == Toggled(e, trials, picks, q, k)
  <2>1. h[k] = StarSlice(e, a, picks[k])
    BY <1>2, <1>6 DEF Folding, StepOf
  <2>2. g[k] = toggled
    BY <1>3, <1>8 DEF Folding, StepOf
  <2>3. Done(a, q, j)
    <3>. HIDE DEF Done
    <3>. QED BY <1>10
  <2>. HIDE DEF a, q
  <2>4. toggled \in StarPromises
    <3>1. q \in StarPromises
      BY <2>3 DEF StarAfter
    <3>. QED BY <1>7, <3>1, ToggledTyped
  <2>5. j \in Nat /\ j + 1 = k
    OBVIOUS
  <2>6. picks[k] \in StarDraws(e) /\ trials[k] = TrialTime(e, age, k)
    BY <1>7
  <2>. HIDE DEF j, toggled
  <2>7. /\ picks[j + 1] \in StarDraws(e) /\ trials[j + 1] = TrialTime(e, age, j + 1)
        /\ toggled = Toggled(e, trials, picks, q, j + 1)
    BY <2>5, <2>6 DEF toggled
  <2>8. Done(StarSlice(e, a, picks[j + 1]), toggled, j + 1)
    <3>. HIDE DEF age
    <3>. QED BY <1>1, <2>3, <2>4, <2>5, <2>7, StarGoesOn
  <2>. HIDE DEF Done
  <2>. QED BY <2>1, <2>2, <2>5, <2>8
<1>. HIDE DEF S, Done
<1>11. m \in S
  <2>1. \A k \in 0 .. m : k \in S
    BY <1>1, <1>9, <1>10, UpTo
  <2>. QED BY <1>1, <2>1
<1>12. Done(h[m], g[m], m)
  BY <1>11 DEF S
<1>13. h[m] = AllSteps("star", e, 0, 0, base, draws) /\ g[m] = AllSteps("toggle", e, trials, picks, p, ks)
  BY <1>2, <1>3, <1>6, <1>8 DEF Folding
<1>. QED BY <1>12, <1>13 DEF Done

(* The number of trials is the same whether it is counted from the step or *)
(* from the age.                                                           *)
LEMMA TrialsCounted ==
    ASSUME NEW n \in Nat \ {0}, NEW age \in Nat, NEW elapsed \in Nat
    PROVE  ((age % n) + elapsed) \div n = (age + elapsed) \div n - age \div n
<1>. DEFINE q == age \div n
            r == age % n
            sum == r + elapsed
            u == sum \div n
            v == sum % n
<1>1. q \in Nat /\ r \in 0 .. n - 1 /\ age = q * n + r
  BY QuotientSplits
<1>. HIDE DEF q, r
<1>2. sum \in Nat
  BY <1>1
<1>. HIDE DEF sum
<1>3. u \in Nat /\ v \in 0 .. n - 1 /\ sum = u * n + v
  BY <1>2, QuotientSplits
<1>. HIDE DEF u, v
<1>4. age + elapsed = (q + u) * n + v
  <2>1. q * n \in Nat /\ u * n \in Nat /\ (q + u) * n = q * n + u * n
    BY <1>1, <1>3
  <2>. QED BY <1>1, <1>3, <2>1 DEF sum
<1>5. (age + elapsed) \div n = q + u
  <2>1. q + u \in Int
    BY <1>1, <1>3
  <2>2. ((q + u) * n + v) \div n = q + u
    BY <1>3, <2>1, QuotientIs
  <2>. QED BY <1>4, <2>2
<1>6. (q + u) - q = u
  BY <1>1, <1>3
<1>. QED BY <1>5, <1>6 DEF q, r, sum, u

(* What a promise of starlight becomes at the end of a frame.              *)
Settled(e, after, end) ==
    [after EXCEPT
       !.age = end,
       !.from = [l \in Leds |-> IF StarLevel(e, after, l, end) = after.goal[l]
                                THEN after.goal[l] ELSE @[l]],
       !.since = [l \in Leds |-> IF StarLevel(e, after, l, end) = after.goal[l]
                                 THEN 0 ELSE @[l]]]

(* After the trials the LEDs move on to the frame's end, where those that  *)
(* have reached their goals are forgotten.                                 *)
LEMMA StarSettles ==
    ASSUME NEW e, e.kind = "starlight", TrialEffect(e), NEW age \in Nat, NEW elapsed \in Nat,
           NEW m \in Nat, m <= TrialCount(e, age, elapsed),
           NEW a, NEW after, StarAfter(e, age, elapsed, a, after, m),
           NEW end, end = age + elapsed,
           NEW f, f = StarAdvance(e, a.data, a.remaining),
           NEW q, q = Settled(e, after, end)
    PROVE  StarState(e, f, q)
<1>. DEFINE t == TimeAfter(e, age, m)
            data == a.data
            left == a.remaining
<1>1. e.interval \in Nat \ {0} /\ e.period \in Nat \ {0} /\ e.smooth \in BOOLEAN /\ end \in Nat
  BY DEF TrialEffect
<1>2. t \in Nat /\ t <= end
  <2>1. TrialTime(e, age, m) \in Nat /\ TrialTime(e, age, m) <= age + elapsed
    BY ONLY <1>1, age \in Nat, elapsed \in Nat, m \in Nat, m <= TrialCount(e, age, elapsed),
            TrialNext, TrialCounts
  <2>. QED BY <2>1 DEF TimeAfter
<1>3. data \in StarData /\ after \in StarPromises /\ StarSince(e, data, after, t)
  BY DEF StarAfter
<1>4. left = age + elapsed - t
  BY ONLY StarAfter(e, age, elapsed, a, after, m) DEF StarAfter, left, t
<1>5. data.step = (age + elapsed) % e.interval
  BY ONLY StarAfter(e, age, elapsed, a, after, m) DEF StarAfter, data
<1>6. f = StarAdvance(e, data, left)
  OBVIOUS
<1>. HIDE DEF t, data, left
<1>7. left \in Nat /\ t + left = end
  BY <1>2, <1>4
<1>8. f \in StarData /\ f.step = data.step /\ StarSince(e, f, after, end)
  <2>1. /\ f \in StarData /\ f.step = data.step
        /\ \A s \in StarPromises, x \in Nat :
             StarSince(e, data, s, x) => StarSince(e, f, s, x + left)
    BY ONLY e.kind = "starlight", TrialEffect(e), <1>3, <1>6, <1>7, StarMoves
  <2>2. StarSince(e, f, after, t + left)
    BY <1>2, <1>3, <2>1
  <2>. QED BY <1>7, <2>1, <2>2
<1>9. f.step = end % e.interval
  BY <1>5, <1>8
<1>10. ASSUME NEW l \in Leds
       PROVE  /\ after.from[l] \in Nat /\ after.goal[l] \in Nat /\ after.since[l] \in 0 .. end
              /\ f.goal[l] = after.goal[l]
              /\ Moving(e, f.level[l], f.rem[l], after.from[l], after.goal[l], end - after.since[l])
              /\ StarLevel(e, after, l, end) = f.level[l]
  <2>1. StarLevel(e, after, l, end) = f.level[l]
    BY ONLY <1>1, <1>3, <1>8, l \in Leds, StarShows
  <2>. QED BY <1>8, <2>1 DEF StarSince
<1>. DEFINE settled(l) == StarLevel(e, after, l, end) = after.goal[l]
            from == [l \in Leds |-> IF settled(l) THEN after.goal[l] ELSE after.from[l]]
            since == [l \in Leds |-> IF settled(l) THEN 0 ELSE after.since[l]]
<1>11. /\ q = [after EXCEPT !.age = end, !.from = from, !.since = since]
  BY DEF Settled
<1>12. from \in [Leds -> Int] /\ since \in [Leds -> Int]
  BY <1>10
<1>13. \A l \in Leds : IF settled(l) THEN from[l] = after.goal[l] /\ since[l] = 0
                       ELSE from[l] = after.from[l] /\ since[l] = after.since[l]
  OBVIOUS
<1>. HIDE DEF from, since
<1>14. q \in StarPromises /\ q.age = end /\ q.from = from /\ q.since = since /\ q.goal = after.goal
  BY <1>1, <1>3, <1>11, <1>12 DEF StarPromises
<1>15. ASSUME NEW l \in Leds
       PROVE  /\ q.from[l] \in Nat /\ q.goal[l] \in Nat /\ q.since[l] \in 0 .. end
              /\ f.goal[l] = q.goal[l]
              /\ Moving(e, f.level[l], f.rem[l], q.from[l], q.goal[l], end - q.since[l])
  <2>1. CASE ~settled(l)
    BY <1>10, <1>13, <1>14, <2>1
  <2>2. CASE settled(l)
    <3>. DEFINE goal == after.goal[l]
                level == f.level[l]
                rem == f.rem[l]
                gone == end - after.since[l]
                moved == (Peak * gone) \div e.period
                place == after.from[l]
    <3>1. level = goal /\ goal \in Nat /\ place \in Nat /\ gone \in Nat
      BY <1>1, <1>10, <2>2
    <3>2. Moving(e, level, rem, place, goal, gone)
      BY <1>10
    <3>3. e.smooth => rem = 0
      <4>1. moved \in Nat
        <5>. DEFINE parts == Peak * gone
        <5>1. parts \in Nat
          <6>. HIDE DEF gone
          <6>. QED BY <3>1, SizesAssumption
        <5>. HIDE DEF parts, gone
        <5>2. parts \div e.period \in Nat
          BY <1>1, <5>1, QuotientSplits
        <5>. QED BY <5>2 DEF parts
      <4>2. CASE e.smooth /\ ~(moved >= Abs(goal - place))
        <5>1. level = IF goal > place THEN place + moved ELSE place - moved
          BY <3>2, <4>2 DEF Moving
        <5>. HIDE DEF moved, goal, place, level
        <5>. QED BY <3>1, <4>1, <4>2, <5>1 DEF Abs
      <4>3. CASE e.smooth /\ moved >= Abs(goal - place)
        BY <3>2, <4>3 DEF Moving
      <4>. QED BY <4>2, <4>3
    <3>4. Moving(e, level, rem, goal, goal, end)
      <4>1. (Peak * end) \div e.period \in Nat
        <5>. DEFINE parts == Peak * end
        <5>1. parts \in Nat
          BY <1>1, SizesAssumption
        <5>. HIDE DEF parts
        <5>2. parts \div e.period \in Nat
          BY <1>1, <5>1, QuotientSplits
        <5>. QED BY <5>2 DEF parts
      <4>. HIDE DEF level, rem, goal
      <4>2. Abs(goal - goal) = 0
        BY <3>1 DEF Abs
      <4>. DEFINE w == (Peak * end) \div e.period
      <4>3. w \in Nat
        BY <4>1
      <4>. HIDE DEF w
      <4>4. w >= Abs(goal - goal)
        BY <4>2, <4>3
      <4>. QED BY <3>1, <3>3, <4>4 DEF Moving, w
    <3>5. q.from[l] = goal /\ q.since[l] = 0 /\ q.goal[l] = goal /\ f.goal[l] = goal
      BY <1>10, <1>13, <1>14, <2>2
    <3>6. end - 0 = end /\ 0 \in 0 .. end
      BY <1>1
    <3>. HIDE DEF goal
    <3>. QED BY <3>1, <3>4, <3>5, <3>6
  <2>. QED BY <2>1, <2>2
<1>16. StarSince(e, f, q, q.age)
  BY <1>14, <1>15 DEF StarSince
<1>. QED BY <1>8, <1>9, <1>14, <1>16 DEF StarState

(* A frame of starlight, whenever it comes.                                *)
LEMMA StarFrame ==
    ASSUME NEW e, e.kind = "starlight", TrialEffect(e), NEW d, NEW p, StarState(e, d, p),
           NEW elapsed \in Nat, NEW picks \in [1 .. MaxTrials -> StarDraws(e)]
    PROVE  StarState(e, StarSteps(e, d, elapsed, picks), StarPromise(e, p, elapsed, picks))
<1>. DEFINE age == p.age
            end == age + elapsed
            count == TrialCount(e, age, elapsed)
            m == Least(MaxTrials, count)
            trials == TrialAges(e, age, elapsed)
            steps == Least((d.step + elapsed) \div e.interval, MaxTrials)
            a == AllSteps("star", e, 0, 0, StarBase(e, d, elapsed), SubSeq(picks, 1, m))
            after == AllSteps("toggle", e, trials, picks, p, [k \in 1 .. m |-> k])
            f == StarSteps(e, d, elapsed, picks)
            q == StarPromise(e, p, elapsed, picks)
<1>1. e.interval \in Nat \ {0} /\ age \in Nat /\ MaxTrials \in Nat
  BY SizesAssumption DEF TrialEffect, StarState, StarPromises
<1>2. count \in Nat
  <2>. DEFINE k == 0
  <2>1. k \in Nat
    OBVIOUS
  <2>. HIDE DEF k, age
  <2>2. TrialCount(e, age, elapsed) \in Nat
    BY ONLY <1>1, <2>1, elapsed \in Nat, TrialCounts
  <2>. QED BY <2>2
<1>3. m \in 0 .. MaxTrials /\ m \in Nat /\ m <= count
  <2>. HIDE DEF count
  <2>. QED BY <1>1, <1>2 DEF Least
<1>4. DOMAIN trials = 1 .. m /\ \A k \in 1 .. m : trials[k] = TrialTime(e, age, k)
  <2>. DEFINE x == age
  <2>. HIDE DEF x
  <2>1. TrialAges(e, x, elapsed) =
          [k \in 1 .. Least(MaxTrials, TrialCount(e, x, elapsed)) |-> TrialTime(e, x, k)]
    BY ONLY DEF TrialAges, TrialTime, TrialCount
  <2>. QED BY <2>1 DEF x
<1>5. steps = m
  <2>1. d.step = age % e.interval
    BY DEF StarState
  <2>2. (d.step + elapsed) \div e.interval = count
    <3>. DEFINE n == e.interval
                x == age
    <3>1. n \in Nat \ {0} /\ x \in Nat /\ d.step = x % n
      BY <1>1, <2>1
    <3>. HIDE DEF n, x
    <3>2. ((x % n) + elapsed) \div n = (x + elapsed) \div n - x \div n
      BY <3>1, TrialsCounted
    <3>. QED BY <3>1, <3>2 DEF n, x, TrialCount
  <2>. HIDE DEF count
  <2>3. steps = Least(count, MaxTrials)
    BY <2>2
  <2>. QED BY <1>1, <1>2, <2>3 DEF Least
<1>. HIDE DEF m, count, trials, steps
<1>6. StarAfter(e, age, elapsed, a, after, m)
  BY <1>3, <1>4, StarTrialsDone
<1>7. f = StarAdvance(e, a.data, a.remaining)
  <2>1. a = FoldLeft(LAMBDA b, pick : StarSlice(e, b, pick), StarBase(e, d, elapsed),
                     SubSeq(picks, 1, m))
    BY DEF AllSteps, StepOf
  <2>. QED BY <1>5, <2>1 DEF StarSteps, StarBase, steps
<1>8. q = Settled(e, after, end)
  <2>1. [k \in DOMAIN trials |-> k] = [k \in 1 .. m |-> k]
    BY <1>4
  <2>2. after = FoldLeft(LAMBDA b, k : Toggled(e, trials, picks, b, k), p,
                         [k \in DOMAIN trials |-> k])
    BY <2>1 DEF AllSteps, StepOf
  <2>. QED BY <2>2 DEF StarPromise, Settled, trials
<1>. HIDE DEF a, after, f, q, end
<1>9. end = age + elapsed
  BY DEF end
<1>. HIDE DEF age
<1>10. StarState(e, f, q)
  <2>1. m <= TrialCount(e, age, elapsed)
    BY <1>3 DEF count
  <2>2. age \in Nat /\ m \in Nat
    BY <1>1, <1>3
  <2>. QED BY ONLY e.kind = "starlight", TrialEffect(e), elapsed \in Nat,
                   <1>6, <1>7, <1>8, <1>9, <2>1, <2>2, StarSettles
<1>. QED BY <1>10 DEF f, q

-----------------------------------------------------------------------------
(* Digital rain *)

Places(e) == e.restart .. e.recycle
Fallers(e) == [seeded : BOOLEAN, head : Places(e), speed : Nat \ {0}]
Launches(e) == [age : Nat, from : Places(e), speed : Nat \ {0}, at : Nat]

(* The first millisecond in which a head that is at a place is past the end. *)
Crossing(e, place, speed) == (e.recycle - place) \div speed + 1

LEMMA CrossesAt ==
    ASSUME NEW e, e.kind = "digital", TrialEffect(e), NEW place \in Places(e),
           NEW speed \in Nat \ {0}
    PROVE  /\ Crossing(e, place, speed) \in Nat \ {0}
           /\ \A j \in Nat : place + speed * j > e.recycle <=> j >= Crossing(e, place, speed)
<1>. DEFINE x == e.recycle - place
            c == x \div speed
            end == e.recycle
<1>1. end \in Int /\ place \in Int /\ x \in Nat
  BY DEF TrialEffect, Places
<1>2. c \in Nat /\ Crossing(e, place, speed) = c + 1
  <2>1. c \in Nat
    <3>. HIDE DEF x
    <3>. QED BY <1>1, QuotientSplits
  <2>. QED BY <2>1 DEF Crossing
<1>3. ASSUME NEW j \in Nat PROVE place + speed * j > end <=> j >= c + 1
  <2>1. j * speed <= x <=> j <= c
    <3>. HIDE DEF x
    <3>. QED BY <1>1, QuotientReached
  <2>. DEFINE y == speed * j
  <2>2. y \in Nat /\ j * speed = y
    OBVIOUS
  <2>. HIDE DEF y, c
  <2>3. y <= x <=> j <= c
    BY <2>1, <2>2
  <2>. HIDE DEF end
  <2>4. x = end - place
    BY DEF end
  <2>. HIDE DEF x
  <2>5. place + y > end <=> j >= c + 1
    BY <1>1, <1>2, <2>2, <2>3, <2>4
  <2>. QED BY <2>5 DEF y
<1>. HIDE DEF c
<1>. QED BY <1>2, <1>3 DEF end

(* The same millisecond whenever it is looked for.                         *)
LEMMA CrossingMoves ==
    ASSUME NEW e, e.kind = "digital", TrialEffect(e), NEW place \in Places(e),
           NEW speed \in Nat \ {0}, NEW j \in Nat, NEW later, later = place + speed * j,
           later \in Places(e)
    PROVE  Crossing(e, place, speed) = j + Crossing(e, later, speed)
<1>. DEFINE x == e.recycle - later
            c == x \div speed
            r == x % speed
            end == e.recycle
<1>1. end \in Int /\ place \in Int /\ later \in Int /\ x \in Nat
  BY DEF TrialEffect, Places
<1>2. c \in Nat /\ r \in 0 .. speed - 1 /\ x = c * speed + r
  <2>. HIDE DEF x
  <2>. QED BY <1>1, QuotientSplits
<1>3. end - place = (j + c) * speed + r
  <2>1. /\ c * speed \in Nat /\ speed * j \in Nat
        /\ (j + c) * speed = speed * j + c * speed
    BY <1>2
  <2>2. x = end - later
    OBVIOUS
  <2>. HIDE DEF x, c, r, end
  <2>. QED BY <1>1, <1>2, <2>1, <2>2
<1>. HIDE DEF c, r
<1>4. (end - place) \div speed = j + c
  <2>1. j + c \in Int
    BY <1>2
  <2>2. ((j + c) * speed + r) \div speed = j + c
    BY <1>2, <2>1, QuotientIs
  <2>. QED BY <1>3, <2>2
<1>5. (j + c) + 1 = j + (c + 1)
  BY <1>2
<1>. QED BY <1>4, <1>5 DEF Crossing, c

PassedAt(e, q) == q.at + Crossing(e, q.from, q.speed)

LEMMA LaunchedWhen ==
    ASSUME NEW e, e.kind = "digital", TrialEffect(e), NEW q \in Launches(e), NEW age \in Nat,
           NEW pick \in e.starts \X e.speeds
    PROVE  /\ PassedAt(e, q) \in Nat /\ Launched(e, age, q, pick) \in Launches(e)
           /\ PassedAt(e, q) > age => Launched(e, age, q, pick) = q
           /\ ~(PassedAt(e, q) > age) => /\ Launched(e, age, q, pick).from = pick[1]
                                         /\ Launched(e, age, q, pick).speed = pick[2]
                                         /\ Launched(e, age, q, pick).at = PassedAt(e, q)
<1>. DEFINE at == PassedAt(e, q)
            new == Launched(e, age, q, pick)
            c == Crossing(e, q.from, q.speed)
            past == {t \in q.at + 1 .. age : q.from + q.speed * (t - q.at) > e.recycle}
            first == CHOOSE t \in past : \A u \in past : t <= u
<1>1. /\ q.from \in Places(e) /\ q.speed \in Nat \ {0} /\ q.at \in Nat
      /\ c \in Nat \ {0} /\ at \in Nat /\ at = q.at + c
  <2>1. q.from \in Places(e) /\ q.speed \in Nat \ {0} /\ q.at \in Nat
    BY DEF Launches
  <2>2. c \in Nat \ {0}
    <3>1. PICK place \in Places(e), speed \in Nat \ {0} : place = q.from /\ speed = q.speed
      BY <2>1
    <3>2. Crossing(e, place, speed) \in Nat \ {0}
      BY CrossesAt
    <3>. QED BY <3>1, <3>2
  <2>3. at = q.at + c
    BY DEF PassedAt
  <2>. HIDE DEF c, at
  <2>. QED BY <2>1, <2>2, <2>3
<1>2. \A j \in Nat : q.from + q.speed * j > e.recycle <=> j >= c
  BY <1>1, CrossesAt
<1>3. ASSUME NEW t PROVE t \in past <=> t \in q.at + 1 .. age /\ t >= at
  <2>1. ASSUME t \in q.at + 1 .. age PROVE q.from + q.speed * (t - q.at) > e.recycle <=> t >= at
    <3>. DEFINE start == q.at
                j == t - start
    <3>1. start \in Nat /\ t \in Nat
      BY <1>1, <2>1
    <3>2. j \in Nat
      BY <1>1, <2>1
    <3>3. q.from + q.speed * j > e.recycle <=> j >= c
      BY <1>2, <3>2
    <3>4. at = start + c
      BY DEF PassedAt
    <3>5. j >= c <=> t >= at
      <4>. HIDE DEF c, start
      <4>. QED BY <1>1, <3>1, <3>4
    <3>. QED BY <3>3, <3>5
  <2>. QED BY <2>1
<1>. HIDE DEF past, at, new
<1>4. new = IF past = {} THEN q
                                  ELSE [q EXCEPT !.from = pick[1], !.speed = pick[2], !.at = first]
  BY DEF Launched, past, new
<1>5. CASE at > age
  <2>1. past = {}
    BY <1>1, <1>3, <1>5
  <2>. QED BY <1>1, <1>4, <1>5, <2>1 DEF at, new
<1>6. CASE ~(at > age)
  <2>1. at \in past /\ \A u \in past : at <= u /\ u \in Nat
    BY <1>1, <1>3, <1>6
  <2>2. first = at
    <3>1. \A t \in past : (\A u \in past : t <= u) => t = at
      BY <1>1, <2>1
    <3>. QED BY <2>1, <3>1
  <2>. DEFINE one == pick[1]
              two == pick[2]
  <2>3. one \in Places(e) /\ two \in Nat \ {0}
    BY DEF TrialEffect, Places
  <2>4. past # {}
    BY <2>1
  <2>. HIDE DEF first, one, two
  <2>5. new = [q EXCEPT !.from = one, !.speed = two, !.at = at]
    BY <1>4, <2>2, <2>4 DEF one, two
  <2>6. new \in Launches(e) /\ new.from = one /\ new.speed = two /\ new.at = at
    BY ONLY <1>1, <2>3, <2>5, q \in Launches(e) DEF Launches
  <2>. QED BY <1>1, <1>6, <2>6 DEF one, two, at, new
<1>. QED BY <1>5, <1>6 DEF at, new

LEMMA FallsWhen ==
    ASSUME NEW e, e.kind = "digital", TrialEffect(e),
           NEW a \in [data : Fallers(e), remaining : Nat],
           NEW pick \in e.starts \X e.speeds,
           NEW c, c = Crossing(e, a.data.head, a.data.speed),
           NEW b, b = Fall(e, a, pick)
    PROVE  /\ c \in Nat \ {0} /\ b \in [data : Fallers(e), remaining : Nat]
           /\ c > a.remaining => b = a
           /\ ~(c > a.remaining) => /\ b.data.head = pick[1] /\ b.data.speed = pick[2]
                                    /\ b.remaining = a.remaining - c
                                    /\ b.data.seeded = a.data.seeded
<1>. DEFINE data == a.data
            left == a.remaining
            one == pick[1]
            two == pick[2]
            new == [data EXCEPT !.head = one, !.speed = two]
<1>1. data \in Fallers(e) /\ left \in Nat
  OBVIOUS
<1>2. one \in Places(e) /\ two \in Nat \ {0}
  BY DEF TrialEffect, Places
<1>3. b = IF c > left \/ left = 0 THEN a ELSE [data |-> new, remaining |-> left - c]
  BY DEF Fall, Crossing
<1>. HIDE DEF data, left, one, two
<1>4. c \in Nat \ {0}
  <2>1. data.head \in Places(e) /\ data.speed \in Nat \ {0}
    BY <1>1 DEF Fallers
  <2>2. c = Crossing(e, data.head, data.speed)
    BY DEF data
  <2>. QED BY <2>1, <2>2, CrossesAt
<1>5. new \in Fallers(e) /\ new.head = one /\ new.speed = two /\ new.seeded = data.seeded
  BY <1>1, <1>2 DEF Fallers
<1>. HIDE DEF new
<1>6. CASE c > left
  <2>1. b = a
    BY <1>3, <1>6
  <2>. QED BY <1>4, <1>6, <2>1 DEF left
<1>7. CASE ~(c > left)
  <2>1. b = [data |-> new, remaining |-> left - c]
    BY <1>1, <1>3, <1>4, <1>7
  <2>2. left - c \in Nat
    BY <1>1, <1>4, <1>7
  <2>3. /\ b \in [data : Fallers(e), remaining : Nat]
        /\ b.data = new /\ b.remaining = left - c
    BY <1>5, <2>1, <2>2
  <2>. QED BY <1>4, <1>5, <1>7, <2>3 DEF data, left, one, two
<1>. QED BY <1>6, <1>7

(* The head is where the launch put it, at time t.                         *)
FallenTo(e, data, q, t) ==
    /\ data \in Fallers(e) /\ data.seeded /\ q \in Launches(e)
    /\ q.at <= t /\ data.speed = q.speed
    /\ data.head = q.from + q.speed * (t - q.at)

DigitalState(e, d, p) ==
    \/ FallenTo(e, d, p, p.age)
    \/ /\ d \in [seeded : BOOLEAN, head : Int, speed : Nat] /\ ~d.seeded
       /\ p \in [age : {0}, from : Int, speed : {0}, at : {0}]

FallAccs(e) == [data : Fallers(e), remaining : Nat]

(* In the middle of a frame the head and its launch belong together.       *)
FallAfter(e, end, a, q) ==
    /\ a \in FallAccs(e) /\ a.remaining <= end
    /\ FallenTo(e, a.data, q, end - a.remaining)

LEMMA FallGoesOn ==
    ASSUME NEW e, e.kind = "digital", TrialEffect(e), NEW end \in Nat, NEW a, NEW q,
           FallAfter(e, end, a, q), NEW pick \in e.starts \X e.speeds
    PROVE  FallAfter(e, end, Fall(e, a, pick), Launched(e, end, q, pick))
<1>. DEFINE data == a.data
            left == a.remaining
            t == end - left
            c == Crossing(e, data.head, data.speed)
            at == PassedAt(e, q)
            one == pick[1]
            two == pick[2]
            b == Fall(e, a, pick)
            s == Launched(e, end, q, pick)
<1>1. /\ data \in Fallers(e) /\ left \in Nat /\ q \in Launches(e) /\ t \in Nat
      /\ data.seeded /\ q.at <= t /\ data.speed = q.speed /\ q.at \in Nat /\ q.speed \in Nat \ {0}
      /\ data.head = q.from + q.speed * (t - q.at)
      /\ data.head \in Places(e) /\ q.from \in Places(e)
  <2>1. data \in Fallers(e) /\ left \in Nat /\ q \in Launches(e) /\ left <= end
    BY DEF FallAfter, FallAccs, FallenTo
  <2>2. FallenTo(e, data, q, t)
    BY DEF FallAfter
  <2>3. /\ q.at <= t /\ data.speed = q.speed /\ data.seeded
        /\ data.head = q.from + q.speed * (t - q.at)
    <3>. HIDE DEF data, t
    <3>. QED BY <2>2 DEF FallenTo
  <2>4. /\ q.at \in Nat /\ q.speed \in Nat \ {0} /\ q.from \in Places(e)
        /\ data.head \in Places(e)
    <3>. HIDE DEF data
    <3>. QED BY <2>1 DEF Fallers, Launches
  <2>5. t \in Nat
    BY <2>1
  <2>. QED BY <2>1, <2>3, <2>4, <2>5
<1>2. /\ c \in Nat \ {0} /\ b \in FallAccs(e)
      /\ c > left => b = a
      /\ ~(c > left) => /\ b.data.head = one /\ b.data.speed = two /\ b.remaining = left - c
                        /\ b.data.seeded = data.seeded
  <2>1. a \in [data : Fallers(e), remaining : Nat] /\ c = Crossing(e, a.data.head, a.data.speed)
    BY DEF FallAfter, FallAccs
  <2>. HIDE DEF b, c
  <2>. QED BY <2>1, FallsWhen DEF FallAccs, b
<1>3. at = t + c
  <2>1. PICK from \in Places(e), place \in Places(e), speed \in Nat \ {0}, start \in Nat, j \in Nat :
          /\ from = q.from /\ place = data.head /\ speed = q.speed /\ start = q.at
          /\ start + j = t /\ place = from + speed * j
    <3>. DEFINE j == t - q.at
    <3>1. j \in Nat /\ q.at + j = t
      BY <1>1
    <3>. QED BY <1>1, <3>1
  <2>2. at = start + Crossing(e, from, speed) /\ c = Crossing(e, place, speed)
    BY <1>1, <2>1 DEF PassedAt
  <2>. HIDE DEF c, at, t
  <2>3. Crossing(e, from, speed) = j + Crossing(e, place, speed)
    BY <2>1, CrossingMoves
  <2>. QED BY <1>2, <2>1, <2>2, <2>3
<1>4. /\ at \in Nat /\ s \in Launches(e)
      /\ at > end => s = q
      /\ ~(at > end) => s.from = one /\ s.speed = two /\ s.at = at
  <2>1. q \in Launches(e)
    BY <1>1
  <2>. QED BY ONLY e.kind = "digital", TrialEffect(e), pick \in e.starts \X e.speeds,
                   end \in Nat, <2>1, LaunchedWhen
<1>. HIDE DEF data, c, at, b, s
<1>5. at > end <=> c > left
  <2>1. t = end - left /\ left \in Nat
    BY <1>1
  <2>. HIDE DEF t, left
  <2>. QED BY <1>1, <1>2, <1>3, <2>1
<1>6. CASE c > left
  <2>1. b = a /\ s = q
    BY <1>2, <1>4, <1>5, <1>6
  <2>. QED BY <2>1 DEF b, s
<1>7. CASE ~(c > left)
  <2>1. /\ b.data.head = one /\ b.data.speed = two /\ b.remaining = left - c
        /\ b.data.seeded
    BY <1>1, <1>2, <1>7
  <2>2. s.from = one /\ s.speed = two /\ s.at = at
    BY <1>4, <1>5, <1>7
  <2>. DEFINE gone == left - c
  <2>3. one \in Int /\ two \in Nat
    BY DEF TrialEffect
  <2>. HIDE DEF one, two
  <2>4. gone \in Nat /\ gone <= end /\ end - gone = at
    <3>1. t = end - left /\ left \in Nat /\ left <= end
      BY <1>1 DEF FallAfter
    <3>. HIDE DEF t, left
    <3>. QED BY <1>1, <1>2, <1>3, <1>7, <3>1
  <2>5. b.remaining = gone
    BY <2>1
  <2>. HIDE DEF gone
  <2>6. one = one + two * (at - at)
    <3>1. at - at = 0 /\ two * 0 = 0
      BY <1>4, <2>3
    <3>. QED BY <2>3, <3>1
  <2>7. b.data \in Fallers(e)
    BY <1>2 DEF FallAccs
  <2>8. FallenTo(e, b.data, s, at)
    BY <1>4, <2>1, <2>2, <2>6, <2>7 DEF FallenTo
  <2>. QED BY <1>2, <2>4, <2>5, <2>8 DEF FallAfter, b, s
<1>. QED BY <1>6, <1>7

LEMMA FallTrialsDone ==
    ASSUME NEW e, e.kind = "digital", TrialEffect(e), NEW end \in Nat, NEW base, NEW p,
           FallAfter(e, end, base, p), NEW picks \in [1 .. MaxTrials -> e.starts \X e.speeds]
    PROVE  FallAfter(e, end, AllSteps("fall", e, 0, 0, base, picks),
                     AllSteps("launch", e, end, 0, p, picks))
<1>. DEFINE n == MaxTrials
            B == e.starts \X e.speeds
<1>1. n \in Nat /\ picks \in Seq(B) /\ Len(picks) = n
  BY SizesAssumption
<1>2. base \in FallAccs(e) /\ p \in Launches(e)
  BY DEF FallAfter, FallenTo
<1>3. PICK h : Folding(h, "fall", e, 0, 0, base, picks)
  <2>1. ASSUME NEW a \in FallAccs(e), NEW b \in B PROVE StepOf("fall", e, 0, 0, a, b) \in FallAccs(e)
    <3>1. Fall(e, a, b) \in FallAccs(e)
      BY FallsWhen DEF FallAccs
    <3>. QED BY <3>1 DEF StepOf
  <2>. QED BY <1>1, <1>2, <2>1, StepFold
<1>4. PICK g : Folding(g, "launch", e, end, 0, p, picks)
  <2>1. \A a \in Launches(e), b \in B : StepOf("launch", e, end, 0, a, b) \in Launches(e)
    BY LaunchedWhen DEF StepOf
  <2>. QED BY <1>1, <1>2, <2>1, StepFold
<1>. DEFINE S == {k \in 0 .. n : FallAfter(e, end, h[k], g[k])}
<1>5. 0 \in S
  BY <1>1, <1>3, <1>4 DEF Folding
<1>6. ASSUME NEW k \in 1 .. n, k - 1 \in S PROVE k \in S
  <2>1. h[k] = Fall(e, h[k - 1], picks[k]) /\ g[k] = Launched(e, end, g[k - 1], picks[k])
    BY <1>1, <1>3, <1>4 DEF Folding, StepOf
  <2>2. FallAfter(e, end, h[k - 1], g[k - 1]) /\ picks[k] \in B
    BY <1>1, <1>6
  <2>. QED BY <2>1, <2>2, FallGoesOn
<1>. HIDE DEF S
<1>7. n \in S
  <2>1. \A k \in 0 .. n : k \in S
    BY <1>1, <1>5, <1>6, UpTo
  <2>. QED BY <1>1, <2>1
<1>. QED BY <1>1, <1>3, <1>4, <1>7 DEF S, Folding

(* The place on the ring that is left of a head past the end.              *)
LEMMA RingPlace ==
    ASSUME NEW low \in Int, NEW high \in Int, low <= high, NEW x \in Int, x >= low,
           NEW span, span = high - low + 1,
           NEW place, place = low + ((x - low) % span)
    PROVE  /\ place \in low .. high
           /\ \A h \in low .. high : (x - h) % span = 0 <=> h = place
<1>. DEFINE d == x - low
            r == d % span
            u == d \div span
<1>1. span \in Nat \ {0} /\ d \in Nat
  OBVIOUS
<1>2. u \in Nat /\ r \in 0 .. span - 1 /\ d = u * span + r
  <2>. HIDE DEF d
  <2>. QED BY <1>1, QuotientSplits
<1>3. place = low + r
  OBVIOUS
<1>. HIDE DEF r, u
<1>4. place \in low .. high
  BY <1>2, <1>3
<1>5. (x - place) % span = 0
  <2>1. x - place = u * span + 0
    <3>1. u * span \in Int
      BY <1>1, <1>2
    <3>. QED BY <1>2, <1>3, <3>1
  <2>2. u \in Int /\ 0 \in 0 .. span - 1
    BY <1>1, <1>2
  <2>3. (u * span + 0) % span = 0
    BY ONLY <1>1, <2>2, RemainderUnique
  <2>. QED BY <2>1, <2>3
<1>6. ASSUME NEW h \in low .. high, (x - h) % span = 0 PROVE h = place
  <2>1. x - h \in Int
    OBVIOUS
  <2>2. PICK v \in Int : x - h = v * span + ((x - h) % span)
    BY <1>1, <2>1, RemainderSplits
  <2>. DEFINE i == h - low
  <2>3. i \in 0 .. span - 1
    OBVIOUS
  <2>4. d = v * span + i
    <3>1. v * span \in Int
      BY <1>1
    <3>. QED BY <1>6, <2>2, <3>1
  <2>. HIDE DEF i, d
  <2>5. (v * span + i) % span = i
    BY <1>1, <2>3, RemainderUnique
  <2>6. r = i
    BY <2>4, <2>5 DEF r
  <2>. QED BY <1>3, <2>6 DEF i
<1>. QED BY <1>4, <1>5, <1>6

LEMMA FallBegins ==
    ASSUME NEW e, e.kind = "digital", TrialEffect(e), NEW d, NEW p, DigitalState(e, d, p),
           NEW elapsed \in Nat, NEW seed, d.seeded \/ seed \in e.starts \X e.speeds,
           NEW data, data = IF d.seeded THEN d
                            ELSE [seeded |-> TRUE, head |-> seed[1], speed |-> seed[2]],
           NEW first, first = IF p.speed # 0 THEN p
                              ELSE [p EXCEPT !.from = seed[1], !.speed = seed[2]]
    PROVE  /\ p.age \in Nat
           /\ FallAfter(e, p.age + elapsed, [data |-> data, remaining |-> elapsed], first)
<1>. DEFINE a == [data |-> data, remaining |-> elapsed]
            end == p.age + elapsed
<1>1. /\ p.age \in Nat /\ FallenTo(e, data, first, p.age)
  <2>1. CASE FallenTo(e, d, p, p.age)
    <3>1. d \in Fallers(e) /\ p \in Launches(e)
      BY <2>1 DEF FallenTo
    <3>2. d.seeded /\ p.speed # 0 /\ p.age \in Nat
      BY <2>1, <3>1 DEF FallenTo, Fallers, Launches
    <3>. QED BY <2>1, <3>2
  <2>2. CASE /\ d \in [seeded : BOOLEAN, head : Int, speed : Nat] /\ ~d.seeded
             /\ p \in [age : {0}, from : Int, speed : {0}, at : {0}]
    <3>. DEFINE one == seed[1]
                two == seed[2]
    <3>1. ~d.seeded /\ p.speed = 0 /\ p.age = 0 /\ p.at = 0
      BY <2>2
    <3>2. one \in Places(e) /\ two \in Nat \ {0} /\ one \in Int
      BY <3>1 DEF TrialEffect, Places
    <3>. HIDE DEF one, two
    <3>3. PICK o \in Places(e) : o = one
      BY <3>2
    <3>4. PICK w \in Nat \ {0} : w = two
      BY <3>2
    <3>5. data = [seeded |-> TRUE, head |-> o, speed |-> w]
      BY <3>1, <3>3, <3>4 DEF one, two
    <3>6. first = [p EXCEPT !.from = o, !.speed = w]
      BY <3>1, <3>3, <3>4 DEF one, two
    <3>8. data \in Fallers(e) /\ data.head = o /\ data.speed = w /\ data.seeded
      <4>. DEFINE yes == TRUE
      <4>1. yes \in BOOLEAN /\ yes
        OBVIOUS
      <4>2. data = [seeded |-> yes, head |-> o, speed |-> w]
        BY <3>5
      <4>. HIDE DEF yes
      <4>. QED BY ONLY <4>1, <4>2, o \in Places(e), w \in Nat \ {0} DEF Fallers
    <3>9. first \in Launches(e) /\ first.from = o /\ first.speed = w /\ first.at = 0
      <4>1. p \in [age : Nat, from : Int, speed : Nat, at : Nat] /\ p.at = 0
        BY <2>2
      <4>. QED BY ONLY <3>6, <4>1, o \in Places(e), w \in Nat \ {0} DEF Launches
    <3>7. one = one + two * (0 - 0)
      <4>1. 0 - 0 = 0 /\ two * 0 = 0
        BY <3>2
      <4>. QED BY <3>2, <4>1
    <3>. QED BY <3>1, <3>3, <3>4, <3>7, <3>8, <3>9 DEF FallenTo
  <2>. QED BY <2>1, <2>2 DEF DigitalState
<1>2. a \in FallAccs(e)
  BY <1>1 DEF FallAccs, FallenTo
<1>3. a.data = data /\ a.remaining = elapsed
  OBVIOUS
<1>. HIDE DEF a
<1>4. a.remaining <= end /\ end - a.remaining = p.age
  BY <1>1, <1>3
<1>. QED BY <1>1, <1>2, <1>3, <1>4 DEF FallAfter, a

(* The last stretch of a frame, and the ring if the launches ran out.      *)
LEMMA FallSettles ==
    ASSUME NEW e, e.kind = "digital", TrialEffect(e), NEW end \in Nat, NEW a, NEW q,
           FallAfter(e, end, a, q),
           NEW place, place = a.data.head + a.data.speed * a.remaining,
           NEW span, span = e.recycle - e.restart + 1,
           NEW f, f = [a.data EXCEPT !.head = IF place > e.recycle
                                              THEN e.restart + ((place - e.restart) % span)
                                              ELSE place],
           NEW after, after = [q EXCEPT !.age = end],
           NEW s, s = IF HeadAt(after) <= e.recycle THEN after
                      ELSE [after EXCEPT !.at = end, !.from = Around(e, HeadAt(after))]
    PROVE  DigitalState(e, f, s)
<1>. DEFINE data == a.data
            left == a.remaining
            low == e.restart
            high == e.recycle
            spot == low + ((place - low) % span)
            new == IF place > high THEN spot ELSE place
<1>1. low \in Int /\ high \in Int /\ low <= high
  BY DEF TrialEffect
<1>2. /\ data \in Fallers(e) /\ left \in Nat /\ q \in Launches(e) /\ left <= end
      /\ FallenTo(e, data, q, end - left)
  BY DEF FallAfter, FallAccs, FallenTo
<1>3. /\ q.at <= end - left /\ data.speed = q.speed /\ data.seeded
      /\ data.head = q.from + q.speed * ((end - left) - q.at)
  <2>. HIDE DEF data, left
  <2>. QED BY <1>2 DEF FallenTo
<1>4. /\ q.at \in Nat /\ q.speed \in Nat \ {0} /\ q.from \in Int
      /\ data.head \in Int /\ data.head >= low
  <2>. HIDE DEF data
  <2>. QED BY <1>1, <1>2 DEF Fallers, Launches, Places
<1>5. after \in Launches(e) /\ after.age = end /\ after.at = q.at /\ after.from = q.from
      /\ after.speed = q.speed
  BY <1>2 DEF Launches
<1>6. place = q.from + q.speed * (end - q.at) /\ place \in Int /\ place >= low
  <2>1. PICK speed \in Nat, j \in Nat, k \in Nat, from \in Int, head1 \in Int :
          /\ speed = q.speed /\ j = (end - left) - q.at /\ k = left /\ from = q.from
          /\ head1 = data.head
    <3>. DEFINE j == (end - left) - q.at
    <3>1. j \in Nat
      BY <1>2, <1>3, <1>4
    <3>. QED BY <1>2, <1>4, <3>1
  <2>2. head1 = from + speed * j
    BY <1>3, <2>1
  <2>3. place = head1 + speed * k
    BY <1>3, <2>1
  <2>4. speed * j + speed * k = speed * (j + k) /\ speed * j \in Nat /\ speed * k \in Nat
    OBVIOUS
  <2>5. j + k = end - q.at
    <3>. HIDE DEF left
    <3>. QED BY <1>2, <1>3, <1>4, <2>1
  <2>6. place = from + speed * (j + k) /\ place \in Int /\ place >= head1
    BY <2>2, <2>3, <2>4
  <2>. QED BY <1>1, <1>4, <2>1, <2>5, <2>6
<1>7. HeadAt(after) = place
  BY <1>5, <1>6 DEF HeadAt
<1>8. spot \in low .. high /\ Around(e, place) = spot
  <2>1. PICK lo \in Int, hi \in Int, x \in Int :
          lo = low /\ hi = high /\ x = place /\ lo <= hi /\ x >= lo
    BY <1>1, <1>6
  <2>2. PICK wide, at : wide = hi - lo + 1 /\ at = lo + ((x - lo) % wide)
    OBVIOUS
  <2>3. lo <= hi /\ x >= lo /\ wide = hi - lo + 1 /\ at = lo + ((x - lo) % wide)
    BY <2>1, <2>2
  <2>4. at \in lo .. hi /\ \A h \in lo .. hi : (x - h) % wide = 0 <=> h = at
    BY ONLY lo \in Int, hi \in Int, x \in Int, <2>3, RingPlace
  <2>5. (CHOOSE h \in lo .. hi : (x - h) % wide = 0) = at
    BY ONLY <2>4
  <2>6. wide = span /\ spot = at
    BY <2>1, <2>2
  <2>7. Around(e, place) = CHOOSE h \in low .. high : (place - h) % span = 0
    BY DEF Around
  <2>. QED BY <2>1, <2>4, <2>5, <2>6, <2>7
<1>. HIDE DEF spot
<1>9. new \in Places(e) /\ new \in Int
  BY <1>1, <1>6, <1>8 DEF Places
<1>. HIDE DEF data
<1>10. f \in Fallers(e) /\ f.head = new /\ f.speed = data.speed /\ f.seeded
  <2>1. f = [data EXCEPT !.head = new]
    BY DEF data, spot
  <2>. HIDE DEF new
  <2>. QED BY ONLY <1>2, <1>3, <1>9, <2>1 DEF Fallers
<1>11. CASE place <= high
  <2>1. s = after /\ new = place
    BY <1>1, <1>6, <1>7, <1>11
  <2>2. q.at <= end
    <3>. HIDE DEF left
    <3>. QED BY <1>2, <1>3, <1>4
  <2>3. FallenTo(e, f, after, after.age)
    BY <1>3, <1>5, <1>6, <1>10, <2>1, <2>2 DEF FallenTo
  <2>. QED BY <2>1, <2>3 DEF DigitalState
<1>12. CASE ~(place <= high)
  <2>1. s = [after EXCEPT !.at = end, !.from = spot]
    BY <1>7, <1>8, <1>12
  <2>2. new = spot
    BY <1>1, <1>6, <1>12
  <2>3. s \in Launches(e) /\ s.age = end /\ s.at = end /\ s.from = spot /\ s.speed = q.speed
    BY <1>5, <1>9, <2>1, <2>2 DEF Launches
  <2>4. spot = spot + q.speed * (end - end)
    <3>1. end - end = 0 /\ q.speed * 0 = 0 /\ spot \in Int
      BY <1>4, <1>9, <2>2
    <3>. QED BY <3>1
  <2>5. end <= end
    OBVIOUS
  <2>6. FallenTo(e, f, s, s.age)
    BY <1>3, <1>10, <2>2, <2>3, <2>4, <2>5 DEF FallenTo
  <2>. QED BY <2>6 DEF DigitalState
<1>. QED BY <1>11, <1>12, <1>1, <1>6

(* A frame of a column, whenever it comes.                                 *)
LEMMA DigitalFrame ==
    ASSUME NEW e, e.kind = "digital", TrialEffect(e), NEW d, NEW p, DigitalState(e, d, p),
           NEW elapsed \in Nat, NEW picks \in [1 .. MaxTrials -> e.starts \X e.speeds],
           NEW seed, d.seeded \/ seed \in e.starts \X e.speeds
    PROVE  DigitalState(e, Columns(e, d, elapsed, picks, seed),
                        ColumnPromise(e, p, elapsed, picks, seed))
<1>. DEFINE data == IF d.seeded THEN d
                    ELSE [seeded |-> TRUE, head |-> seed[1], speed |-> seed[2]]
            first == IF p.speed # 0 THEN p
                     ELSE [p EXCEPT !.from = seed[1], !.speed = seed[2]]
            end == p.age + elapsed
            base == [data |-> data, remaining |-> elapsed]
            a == AllSteps("fall", e, 0, 0, base, picks)
            q == AllSteps("launch", e, end, 0, first, picks)
            place == a.data.head + a.data.speed * a.remaining
            span == e.recycle - e.restart + 1
            after == [q EXCEPT !.age = end]
            f == [a.data EXCEPT !.head = IF place > e.recycle
                                         THEN e.restart + ((place - e.restart) % span)
                                         ELSE place]
            s == IF HeadAt(after) <= e.recycle THEN after
                 ELSE [after EXCEPT !.at = end, !.from = Around(e, HeadAt(after))]
<1>1. p.age \in Nat /\ FallAfter(e, end, base, first)
  <2>1. PICK data1 : data1 = data
    OBVIOUS
  <2>2. PICK first1 : first1 = first
    OBVIOUS
  <2>3. p.age \in Nat /\ FallAfter(e, p.age + elapsed, [data |-> data1, remaining |-> elapsed], first1)
    BY <2>1, <2>2, FallBegins
  <2>. QED BY <2>1, <2>2, <2>3
<1>2. Columns(e, d, elapsed, picks, seed) = f
  <2>1. a = FoldLeft(LAMBDA b, pick : Fall(e, b, pick), base, picks)
    BY DEF AllSteps, StepOf
  <2>. QED BY <2>1 DEF Columns
<1>3. ColumnPromise(e, p, elapsed, picks, seed) = s
  <2>1. q = FoldLeft(LAMBDA b, pick : Launched(e, end, b, pick), first, picks)
    BY DEF AllSteps, StepOf
  <2>. QED BY <2>1 DEF ColumnPromise
<1>4. end \in Nat
  BY <1>1
<1>. HIDE DEF base, first, end
<1>5. FallAfter(e, end, a, q)
  BY <1>1, <1>4, FallTrialsDone
<1>. HIDE DEF a, q
<1>6. /\ place = a.data.head + a.data.speed * a.remaining
      /\ span = e.recycle - e.restart + 1
      /\ after = [q EXCEPT !.age = end]
      /\ f = [a.data EXCEPT !.head = IF place > e.recycle
                                     THEN e.restart + ((place - e.restart) % span)
                                     ELSE place]
      /\ s = IF HeadAt(after) <= e.recycle THEN after
             ELSE [after EXCEPT !.at = end, !.from = Around(e, HeadAt(after))]
  OBVIOUS
<1>. HIDE DEF place, span, after, f, s
<1>7. DigitalState(e, f, s)
  BY ONLY e.kind = "digital", TrialEffect(e), <1>4, <1>5, <1>6, FallSettles
<1>. QED BY <1>2, <1>3, <1>7

-----------------------------------------------------------------------------
(* The effects with trials, over a run *)

TrialState(e, d, p) ==
    /\ e.kind \in RainKinds => RainState(e, d, p)
    /\ e.kind = "drops" => DropsState(e, d, p)
    /\ e.kind = "fractal" => FractalState(e, d, p)
    /\ e.kind = "starlight" => StarState(e, d, p)
    /\ e.kind = "digital" => DigitalState(e, d, p)

(* A reset leaves nothing lit, nothing on its way and no time.             *)
LEMMA TrialReset ==
    ASSUME NEW e, TrialEffect(e)
    PROVE  TrialState(e, Zero(e), Blank(e))
<1>1. CASE e.kind \in RainKinds
  <2>. DEFINE d == [level |-> AllDark, rem |-> AllDark, step |-> 0, flow |-> 0]
              p == [age |-> 0, lit |-> [l \in Leds |-> Never], flow |-> 0]
  <2>1. Zero(e) = d /\ Blank(e) = p
    BY <1>1 DEF Zero, Blank, HitKinds, RainKinds
  <2>2. e.period \in Nat \ {0} /\ e.interval \in Nat \ {0} /\ NumLeds \in Nat \ {0}
    BY <1>1, CoordAssumption DEF TrialEffect
  <2>3. d \in RainData /\ p \in RainPromises
    BY DEF RainData, RainPromises, AllDark, Never
  <2>4. LitSince(e, d, p.lit, 0)
    <3>1. ASSUME NEW l \in Leds
          PROVE  /\ Faint(d.level[l], d.rem[l], e.period) /\ p.lit[l] = Never
                 /\ d.level[l] * e.period - d.rem[l] = Left(e, p.lit[l], 0)
      <4>1. d.level[l] = 0 /\ d.rem[l] = 0 /\ p.lit[l] = Never
        BY DEF AllDark
      <4>2. 0 * e.period - 0 = 0 /\ 0 \in 0 .. e.period - 1
        BY <2>2
      <4>. HIDE DEF d, p
      <4>. QED BY <4>1, <4>2 DEF Faint, Left
    <3>. QED BY <3>1 DEF LitSince
  <2>5. 0 % e.interval = 0
    BY <2>2
  <2>6. RainState(e, d, p)
    <3>1. d.step = 0 /\ d.flow = 0 /\ p.age = 0 /\ p.flow = 0
      OBVIOUS
    <3>. HIDE DEF d, p
    <3>. QED BY <2>2, <2>3, <2>4, <2>5, <3>1 DEF RainState
  <2>. QED BY <1>1, <2>1, <2>6 DEF TrialState, RainKinds
<1>2. CASE e.kind = "drops"
  <2>1. /\ Zero(e) = [seeded |-> FALSE, drop |-> 0, hue |-> AllDark]
        /\ Blank(e) = [age |-> 0]
    BY <1>2 DEF Zero, Blank, HitKinds, RainKinds
  <2>2. e.period \in Nat \ {0} /\ (DropRate * 0) % e.period = 0
    <3>1. DropRate * 0 = 0 /\ e.period \in Nat \ {0}
      BY <1>2 DEF TrialEffect, DropRate
    <3>. QED BY <3>1
  <2>3. AllDark \in [Leds -> Hues]
    BY DEF AllDark, Hues, HueMax
  <2>4. /\ Zero(e) \in [seeded : BOOLEAN, drop : Nat, hue : [Leds -> Hues]]
        /\ Blank(e) \in [age : Nat] /\ Zero(e).drop = 0 /\ Blank(e).age = 0
    BY <2>1, <2>3
  <2>5. DropsState(e, Zero(e), Blank(e))
    BY <2>2, <2>4 DEF DropsState
  <2>. QED BY <1>2, <2>5 DEF TrialState, RainKinds
<1>3. CASE e.kind = "fractal"
  <2>1. Zero(e) = [phase |-> 0] /\ Blank(e) = [age |-> 0]
    BY <1>3 DEF Zero, Blank, HitKinds, RainKinds
  <2>2. 0 % e.period = 0
    BY <1>3 DEF TrialEffect
  <2>3. FractalState(e, Zero(e), Blank(e))
    BY <2>1, <2>2 DEF FractalState
  <2>. QED BY <1>3, <2>3 DEF TrialState, RainKinds
<1>4. CASE e.kind = "starlight"
  <2>. DEFINE d == [level |-> AllDark, goal |-> AllDark, rem |-> AllDark, step |-> 0]
              p == [age |-> 0, from |-> AllDark, goal |-> AllDark, since |-> AllDark]
  <2>1. Zero(e) = d /\ Blank(e) = p
    BY <1>4 DEF Zero, Blank, HitKinds, RainKinds
  <2>2. /\ e.period \in Nat \ {0} /\ e.interval \in Nat \ {0} /\ 0 % e.interval = 0
        /\ Peak \in Nat
    BY <1>4, SizesAssumption DEF TrialEffect
  <2>3. d \in StarData /\ p \in StarPromises
    BY DEF StarData, StarPromises, AllDark
  <2>4. Moving(e, 0, 0, 0, 0, 0)
    <3>1. Peak * 0 = 0 /\ 0 \div e.period = 0 /\ Abs(0 - 0) = 0
      BY <2>2 DEF Abs
    <3>. QED BY <3>1 DEF Moving
  <2>5. /\ d.step = 0 /\ p.age = 0
        /\ \A l \in Leds : /\ d.level[l] = 0 /\ d.goal[l] = 0 /\ d.rem[l] = 0
                           /\ p.from[l] = 0 /\ p.goal[l] = 0 /\ p.since[l] = 0
    BY DEF AllDark
  <2>. HIDE DEF d, p
  <2>6. StarSince(e, d, p, 0)
    <3>1. 0 - 0 = 0 /\ 0 \in 0 .. 0
      OBVIOUS
    <3>. QED BY <2>4, <2>5, <3>1 DEF StarSince
  <2>7. StarState(e, d, p)
    BY <2>2, <2>3, <2>5, <2>6 DEF StarState
  <2>. QED BY <1>4, <2>1, <2>7 DEF TrialState, RainKinds
<1>5. CASE e.kind = "digital"
  <2>1. /\ Zero(e) = [seeded |-> FALSE, head |-> 0, speed |-> 0]
        /\ Blank(e) = [age |-> 0, from |-> Never, speed |-> 0, at |-> 0]
    BY <1>5 DEF Zero, Blank, HitKinds, RainKinds
  <2>2. Zero(e) \in [seeded : BOOLEAN, head : Int, speed : Nat] /\ ~Zero(e).seeded
    BY <2>1
  <2>3. Blank(e) \in [age : {0}, from : Int, speed : {0}, at : {0}]
    BY <2>1 DEF Never
  <2>4. DigitalState(e, Zero(e), Blank(e))
    BY <2>2, <2>3 DEF DigitalState
  <2>. QED BY <1>5, <2>4 DEF TrialState, RainKinds
<1>. QED BY <1>1, <1>2, <1>3, <1>4, <1>5 DEF TrialState

(* What the relation says, as the run checks it.                           *)
LEMMA TrialShows ==
    ASSUME NEW e, TrialEffect(e), NEW d, NEW p, TrialState(e, d, p)
    PROVE  TrialKept(e, d, p)
<1>1. CASE e.kind \in RainKinds
  <2>1. RainState(e, d, p) /\ e.period \in Nat \ {0} /\ FadeScale(e) = Peak
    BY <1>1 DEF TrialState, TrialEffect, FadeScale, RainKinds
  <2>2. ASSUME NEW l \in Leds PROVE d.level[l] = RainLevel(e, p, l)
    <3>. DEFINE level == d.level[l]
                rem == d.rem[l]
                n == e.period
                parts == level * n - rem
    <3>1. Faint(level, rem, n) /\ parts = Left(e, p.lit[l], p.age)
      BY <2>1 DEF RainState, LitSince
    <3>2. RainLevel(e, p, l) = IF p.lit[l] = Never THEN 0 ELSE LevelOf(e, parts)
      <4>. HIDE DEF parts
      <4>. QED BY <3>1 DEF RainLevel, Left
    <3>3. (parts + n - 1) \div n = level /\ (parts = 0 <=> level = 0)
      <4>. HIDE DEF level, rem, n
      <4>. QED BY <2>1, <3>1, LevelShown DEF n
    <3>4. p.lit[l] = Never => parts = 0
      BY <3>1 DEF Left
    <3>5. LevelOf(e, parts) = (parts + n - 1) \div n
      BY DEF LevelOf
    <3>. HIDE DEF level, rem, parts
    <3>6. RainLevel(e, p, l) = level
      BY <3>2, <3>3, <3>4, <3>5
    <3>. QED BY <3>6 DEF level
  <2>. QED BY <1>1, <2>1, <2>2 DEF TrialKept, RainState, RainKinds
<1>2. CASE e.kind = "drops"
  <2>1. DropsState(e, d, p)
    BY <1>2 DEF TrialState
  <2>2. \A l \in Leds : d.hue[l] \in Hues
    BY <2>1 DEF DropsState
  <2>. QED BY <1>2, <2>1, <2>2 DEF TrialKept, DropsState, RainKinds, Hues
<1>3. CASE e.kind = "fractal"
  BY <1>3 DEF TrialState, TrialKept, FractalState, RainKinds
<1>4. CASE e.kind = "starlight"
  <2>1. StarState(e, d, p)
    BY <1>4 DEF TrialState
  <2>2. d \in StarData /\ p \in StarPromises /\ p.age \in Nat /\ StarSince(e, d, p, p.age)
    BY <2>1 DEF StarState, StarPromises
  <2>3. \A l \in Leds : d.level[l] = StarLevel(e, p, l, p.age)
    BY <2>2, StarShows
  <2>. QED BY <1>4, <2>1, <2>3 DEF TrialKept, StarState, RainKinds
<1>5. CASE e.kind = "digital"
  <2>1. DigitalState(e, d, p)
    BY <1>5 DEF TrialState
  <2>2. d.seeded => FallenTo(e, d, p, p.age)
    BY <2>1 DEF DigitalState
  <2>3. d.seeded => d.head = HeadAt(p) /\ d.head \in e.restart .. e.recycle
    BY <2>2 DEF FallenTo, HeadAt, Fallers, Places
  <2>. QED BY <1>5, <2>3 DEF TrialKept, RainKinds
<1>6. CASE e.kind \notin RainKinds \cup {"drops", "fractal", "starlight", "digital"}
  BY <1>6 DEF TrialKept, RainKinds
<1>. QED BY <1>1, <1>2, <1>3, <1>4, <1>5, <1>6

(* A frame, whatever the random generator answers.                         *)
LEMMA TrialFrame ==
    ASSUME NEW e, TrialEffect(e), NEW d, NEW p, TrialState(e, d, p),
           NEW roll \in Rolls(e, d), NEW frame, NEW other, NEW elapsed \in Nat,
           frame.elapsed = elapsed, other.elapsed = elapsed, NEW last, NEW presses
    PROVE  TrialState(e, Render(e, d, frame, roll), Promised(e, p, other, last, presses, roll))
<1>1. roll.picks \in [1 .. MaxTrials -> Draws(e)] /\ roll.seed \in Seeds(e, d)
  BY DEF Rolls
<1>2. CASE e.kind \in RainKinds
  <2>1. /\ Render(e, d, frame, roll) = RainSteps(e, d, elapsed, roll.picks)
        /\ Promised(e, p, other, last, presses, roll) = RainPromise(e, p, elapsed, roll.picks)
    BY <1>2 DEF Render, Promised, HitKinds, RainKinds
  <2>2. Draws(e) = RainDraws(e)
    BY <1>2 DEF Draws, RainDraws, RainKinds
  <2>3. RainState(e, d, p)
    BY <1>2 DEF TrialState
  <2>4. RainState(e, RainSteps(e, d, elapsed, roll.picks), RainPromise(e, p, elapsed, roll.picks))
    BY <1>1, <1>2, <2>2, <2>3, RainFrame
  <2>. QED BY <1>2, <2>1, <2>4 DEF TrialState, RainKinds
<1>3. CASE e.kind = "drops"
  <2>1. /\ Render(e, d, frame, roll) = RainDrops(e, d, elapsed, roll.picks, roll.seed)
        /\ Promised(e, p, other, last, presses, roll) = [p EXCEPT !.age = @ + elapsed]
    BY <1>3 DEF Render, Promised, HitKinds, RainKinds
  <2>2. Draws(e) = Leds \X {0, 1, 2}
    BY <1>3 DEF Draws
  <2>3. DropsState(e, d, p) /\ (d.seeded \/ roll.seed \in [Leds -> {0, 1, 2}])
    BY <1>1, <1>3 DEF TrialState, Seeds
  <2>4. DropsState(e, RainDrops(e, d, elapsed, roll.picks, roll.seed), [p EXCEPT !.age = @ + elapsed])
    BY <1>1, <1>3, <2>2, <2>3, DropsFrame
  <2>. QED BY <1>3, <2>1, <2>4 DEF TrialState, RainKinds
<1>4. CASE e.kind = "fractal"
  <2>1. /\ Render(e, d, frame, roll) = RainFractal(e, d, elapsed)
        /\ Promised(e, p, other, last, presses, roll) = [p EXCEPT !.age = @ + elapsed]
    BY <1>4 DEF Render, Promised, HitKinds, RainKinds
  <2>2. FractalState(e, RainFractal(e, d, elapsed), [p EXCEPT !.age = @ + elapsed])
    BY <1>4, FractalFrame DEF TrialState
  <2>. QED BY <1>4, <2>1, <2>2 DEF TrialState, RainKinds
<1>5. CASE e.kind = "starlight"
  <2>1. /\ Render(e, d, frame, roll) = StarSteps(e, d, elapsed, roll.picks)
        /\ Promised(e, p, other, last, presses, roll) = StarPromise(e, p, elapsed, roll.picks)
    BY <1>5 DEF Render, Promised, HitKinds, RainKinds
  <2>2. Draws(e) = StarDraws(e)
    BY <1>5 DEF Draws, StarDraws
  <2>3. StarState(e, d, p)
    BY <1>5 DEF TrialState
  <2>4. StarState(e, StarSteps(e, d, elapsed, roll.picks), StarPromise(e, p, elapsed, roll.picks))
    BY <1>1, <1>5, <2>2, <2>3, StarFrame
  <2>. QED BY <1>5, <2>1, <2>4 DEF TrialState, RainKinds
<1>6. CASE e.kind = "digital"
  <2>1. /\ Render(e, d, frame, roll) = Columns(e, d, elapsed, roll.picks, roll.seed)
        /\ Promised(e, p, other, last, presses, roll)
             = ColumnPromise(e, p, elapsed, roll.picks, roll.seed)
    BY <1>6 DEF Render, Promised, HitKinds, RainKinds
  <2>2. Draws(e) = e.starts \X e.speeds
    BY <1>6 DEF Draws
  <2>3. DigitalState(e, d, p) /\ (d.seeded \/ roll.seed \in e.starts \X e.speeds)
    BY <1>1, <1>6 DEF TrialState, Seeds
  <2>4. DigitalState(e, Columns(e, d, elapsed, roll.picks, roll.seed),
                     ColumnPromise(e, p, elapsed, roll.picks, roll.seed))
    BY <1>1, <1>6, <2>2, <2>3, DigitalFrame
  <2>. QED BY <1>6, <2>1, <2>4 DEF TrialState, RainKinds
<1>. QED BY <1>2, <1>3, <1>4, <1>5, <1>6 DEF TrialState

(* An effect without an end animates from its first frame to the next      *)
(* reset, activation or deactivation: its time is the time it was shown.   *)
Trials(e) == /\ run[e].animating = shown
             /\ TrialState(e, fx[e], promise[e])
TrialsKept == \A e \in fitted.effects : e.kind \notin EventKinds => Trials(e)

LEMMA TrialsFitted ==
    ASSUME fitted \in Fittings, NEW e \in fitted.effects
    PROVE  TrialEffect(e)
BY FittingsAssumption

LEMMA TrialsInit == Init => TrialsKept
<1>. SUFFICES ASSUME Init, NEW e \in fitted.effects, e.kind \notin EventKinds PROVE Trials(e)
  BY DEF TrialsKept
<1>1. /\ fitted \in Fittings /\ shown = FALSE /\ run[e] = [animating |-> FALSE, last |-> 0]
      /\ fx[e] = Zero(e) /\ promise[e] = Blank(e)
  BY DEF Init
<1>2. TrialState(e, fx[e], promise[e])
  BY <1>1, TrialsFitted, TrialReset
<1>3. run[e].animating = shown
  <2>. DEFINE off == FALSE
  <2>1. run[e] = [animating |-> off, last |-> 0] /\ shown = off
    BY <1>1
  <2>. HIDE DEF off
  <2>. QED BY <2>1
<1>. QED BY <1>2, <1>3 DEF Trials

(* A reset takes the promise with it; a gate or the output only the time.  *)
LEMMA StartKeepsTrials ==
    ASSUME Typed, HitsKept, TrialsKept, NEW repaint \in BOOLEAN, StartPass(repaint)
    PROVE  TrialsKept'
<1>. DEFINE leaves == active /\ ~(allowed /\ gate)
            restarts == resetPending \/ active # (allowed /\ gate)
<1>1. fitted' = fitted /\ shown' = (shown /\ ~restarts) /\ fitted \in Fittings
  BY DEF StartPass, HitsKept
<1>2. \A e \in fitted.effects :
         /\ fx'[e] = IF resetPending THEN Zero(e)
                     ELSE IF leaves THEN Deactivated(e, fx[e]) ELSE fx[e]
         /\ run'[e] = IF restarts THEN [run[e] EXCEPT !.animating = FALSE] ELSE run[e]
         /\ promise'[e] = IF resetPending \/ (leaves /\ e.kind \in EventKinds)
                          THEN Blank(e) ELSE promise[e]
  BY DEF StartPass
<1>3. restarts \in BOOLEAN /\ shown \in BOOLEAN
  BY DEF Typed
<1>4. ASSUME NEW e \in fitted.effects, e.kind \notin EventKinds
      PROVE  Trials(e)'
  <2>1. Trials(e) /\ run[e] \in Runs
    BY <1>4 DEF TrialsKept, Typed
  <2>2. run'[e].animating = shown'
    <3>. DEFINE r == run[e]
                q == run'[e]
    <3>1. /\ r \in Runs /\ r.animating = shown
          /\ q = IF restarts THEN [r EXCEPT !.animating = FALSE] ELSE r
      BY <1>2, <2>1 DEF Trials
    <3>. HIDE DEF r, q, restarts
    <3>2. CASE restarts
      <4>1. q = [r EXCEPT !.animating = FALSE] /\ shown' = FALSE
        BY <1>1, <1>3, <3>1, <3>2
      <4>2. q.animating = FALSE
        BY <3>1, <4>1 DEF Runs
      <4>. QED BY <4>1, <4>2 DEF q
    <3>3. CASE ~restarts
      BY <1>1, <1>3, <3>1, <3>3 DEF q
    <3>. QED BY <1>3, <3>2, <3>3
  <2>3. TrialState(e, fx'[e], promise'[e])
    <3>1. CASE resetPending
      <4>1. fx'[e] = Zero(e) /\ promise'[e] = Blank(e)
        BY <1>2, <3>1
      <4>. QED BY <1>1, <4>1, TrialsFitted, TrialReset
    <3>2. CASE ~resetPending
      <4>1. fx'[e] = fx[e] /\ promise'[e] = promise[e]
        BY <1>2, <1>4, <3>2 DEF Deactivated
      <4>. QED BY <2>1, <4>1 DEF Trials
    <3>. QED BY <3>1, <3>2
  <2>. QED BY <2>2, <2>3 DEF Trials
<1>. QED BY <1>1, <1>4 DEF TrialsKept

(* These effects hear nothing.                                             *)
LEMMA DeliverKeepsTrials ==
    ASSUME TrialsKept, Deliver
    PROVE  TrialsKept'
<1>1. UNCHANGED <<fitted, run, shown>>
  BY DEF Deliver
<1>2. ASSUME NEW e \in fitted.effects, e.kind \notin EventKinds
      PROVE  fx'[e] = fx[e] /\ promise'[e] = promise[e]
  <2>. DEFINE ev == slots[tail]
              heard == gate /\ active /\ ev.led # NoLed
  <2>1. CASE heard
    <3>1. fx'[e] = OnEvent(e, fx[e], ev).data /\ promise'[e] = Heard(e, promise[e], ev)
      BY <2>1 DEF Deliver
    <3>2. OnEvent(e, fx[e], ev) = [data |-> fx[e], changed |-> FALSE] /\ e.kind # "ripple"
      BY <1>2 DEF OnEvent, EventKinds
    <3>. QED BY <3>1, <3>2 DEF Heard
  <2>2. CASE ~heard
    BY <2>2 DEF Deliver
  <2>. QED BY <2>1, <2>2
<1>. QED BY <1>1, <1>2 DEF TrialsKept, Trials

LEMMA PaintKeepsTrials ==
    ASSUME Typed, HitsKept, TrialsKept, Paint
    PROVE  TrialsKept'
<1>1. fitted' = fitted /\ phase = "input" /\ fitted \in Fittings /\ pass.now \in Nat
  BY DEF Paint, HitsKept, Arrivals
<1>2. CASE gate
  <2>1. PICK roll :
        /\ \A e \in fitted.effects : roll[e] \in Rolls(e, fx[e])
        /\ fx' = [e \in fitted.effects |-> Render(e, fx[e], FrameFor(e), roll[e])]
        /\ run' = [e \in fitted.effects |->
                     [animating |-> Evolving(e, fx'[e]), last |-> pass.now]]
        /\ promise' = [e \in fitted.effects |->
             Promised(e, promise[e], PromiseFrame(e), run[e].last, arrived, roll[e])]
    <3>1. PICK roll :
        /\ \A e \in fitted.effects : roll[e] \in Rolls(e, fx[e])
        /\ LET data == [e \in fitted.effects |-> Render(e, fx[e], FrameFor(e), roll[e])]
           IN /\ fx' = data
              /\ run' = [e \in fitted.effects |->
                           [animating |-> Evolving(e, data[e]), last |-> pass.now]]
        /\ promise' = [e \in fitted.effects |->
             Promised(e, promise[e], PromiseFrame(e), run[e].last, arrived, roll[e])]
      BY <1>2 DEF Paint
    <3>2. run' = [e \in fitted.effects |->
                    [animating |-> Evolving(e, fx'[e]), last |-> pass.now]]
      BY <3>1
    <3>. QED BY <3>1, <3>2
  <2>2. shown' = TRUE
    BY <1>2 DEF Paint
  <2>3. ASSUME NEW e \in fitted.effects, e.kind \notin EventKinds PROVE Trials(e)'
    <3>1. Trials(e) /\ TrialEffect(e) /\ run[e].last \in Nat /\ run[e].last <= pass.now
      BY <1>1, <2>3, TrialsFitted DEF TrialsKept, HitsKept, LastFrames
    <3>2. run'[e].animating = shown'
      <4>1. Evolving(e, fx'[e]) = TRUE
        BY <2>3 DEF Evolving, EventKinds
      <4>. QED BY <2>1, <2>2, <4>1
    <3>. DEFINE elapsed == IF shown THEN pass.now - run[e].last ELSE 0
    <3>3. elapsed \in Nat
      BY <1>1, <3>1
    <3>4. FrameFor(e).elapsed = elapsed /\ PromiseFrame(e).elapsed = elapsed
      <4>. DEFINE last == run[e].last
                  local == pass.now
      <4>1. Most(0, local - last) = local - last
        <5>1. last \in Nat /\ local \in Nat /\ last <= local
          BY <1>1, <3>1
        <5>. HIDE DEF last, local
        <5>. QED BY <5>1 DEF Most
      <4>2. run[e].animating = shown
        BY <3>1 DEF Trials
      <4>. QED BY <4>1, <4>2 DEF FrameFor, PromiseFrame
    <3>5. /\ fx'[e] = Render(e, fx[e], FrameFor(e), roll[e])
          /\ promise'[e] =
               Promised(e, promise[e], PromiseFrame(e), run[e].last, arrived, roll[e])
          /\ roll[e] \in Rolls(e, fx[e])
      BY <2>1
    <3>. HIDE DEF elapsed
    <3>6. TrialState(e, fx'[e], promise'[e])
      <4>1. TrialState(e, fx[e], promise[e])
        BY <3>1 DEF Trials
      <4>. QED BY <3>1, <3>3, <3>4, <3>5, <4>1, TrialFrame
    <3>. QED BY <3>2, <3>6 DEF Trials
  <2>. QED BY <1>1, <2>3 DEF TrialsKept
<1>3. CASE ~gate
  BY <1>1, <1>3 DEF Paint, TrialsKept, Trials
<1>. QED BY <1>2, <1>3

LEMMA TrialsStep == Typed /\ HitsKept /\ TrialsKept /\ [Next]_vars => TrialsKept'
<1>. SUFFICES ASSUME Typed, HitsKept, TrialsKept, [Next]_vars PROVE TrialsKept'
  OBVIOUS
<1>1. UNCHANGED <<fitted, run, fx, promise, shown>> => TrialsKept'
  BY DEF TrialsKept, Trials
<1>2. CASE UNCHANGED vars
  BY <1>1, <1>2 DEF vars, frames
<1>3. CASE Elapse
  BY <1>1, <1>3 DEF Elapse, history
<1>4. ASSUME NEW ev \in Events, KeyEvent(ev) PROVE TrialsKept'
  BY <1>1, <1>4 DEF KeyEvent, history
<1>5. ASSUME NEW late \in 0 .. MaxLag, ClockCommand(late) PROVE TrialsKept'
  BY <1>1, <1>5 DEF ClockCommand
<1>6. CASE SwitchOutput
  BY <1>1, <1>6 DEF SwitchOutput
<1>7. CASE SwitchGate
  BY <1>1, <1>7 DEF SwitchGate, history
<1>8. CASE RequestReset
  BY <1>1, <1>8 DEF RequestReset, history
<1>9. ASSUME NEW repaint \in BOOLEAN, StartPass(repaint) PROVE TrialsKept'
  BY <1>9, StartKeepsTrials
<1>10. CASE Deliver
  BY <1>10, DeliverKeepsTrials
<1>11. CASE Paint
  BY <1>11, PaintKeepsTrials
<1>12. CASE Skip
  BY <1>1, <1>12 DEF Skip
<1>13. CASE FinishFrame
  BY <1>1, <1>13 DEF FinishFrame
<1>14. CASE ReportDropped
  BY <1>1, <1>14 DEF ReportDropped, frames
<1>. QED BY <1>2, <1>3, <1>4, <1>5, <1>6, <1>7, <1>8, <1>9, <1>10, <1>11, <1>12, <1>13,
            <1>14 DEF Next

LEMMA TrialsShown == HitsKept /\ TrialsKept => TrialsExact
<1>. SUFFICES ASSUME HitsKept, TrialsKept, NEW e \in fitted.effects, e.kind \notin EventKinds
              PROVE  TrialKept(e, fx[e], promise[e])
  BY DEF TrialsExact
<1>1. TrialEffect(e) /\ TrialState(e, fx[e], promise[e])
  BY TrialsFitted DEF HitsKept, TrialsKept, Trials
<1>. QED BY <1>1, TrialShows

(***************************************************************************)
(* The random effects' trials happen at the multiples of their interval of *)
(* the time they were shown, and what a trial lit or set out fades or      *)
(* moves from its own time, a head is where its launch put it, a pulse and *)
(* the drops where their rate is: whatever the effects' properties, the    *)
(* number of LEDs, the draws and the frames there were, also when a frame  *)
(* came so late that trials were left out (effects/rain.c,                 *)
(* effects/starlight.c, effects/digital_rain.c).                           *)
(***************************************************************************)
THEOREM TrialsStayExact == Spec => []TrialsExact
<1>1. Init => Typed /\ OnGrid /\ Armed /\ HitsKept /\ TrialsKept
  BY PacedInit, HitsInit, TrialsInit
<1>2. Typed /\ OnGrid /\ Armed /\ HitsKept /\ TrialsKept /\ [Next]_vars
        => Typed' /\ OnGrid' /\ Armed' /\ HitsKept' /\ TrialsKept'
  BY PacedStep, ArmedStep, HitsStep, TrialsStep
<1>3. HitsKept /\ TrialsKept => TrialsExact
  BY TrialsShown
<1>. QED BY <1>1, <1>2, <1>3, PTL DEF Spec
=============================================================================
