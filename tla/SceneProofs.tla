---------------------------- MODULE SceneProofs ----------------------------
(***************************************************************************)
(* Theorems about Scene, for any number of overlays and of effects to      *)
(* choose from, whichever overlays choose and cover: what the callbacks    *)
(* are promised, and which overlays a pass serves.                         *)
(***************************************************************************)
EXTENDS Scene, WellFoundedInduction, TLAPS

-----------------------------------------------------------------------------
(* A participant's callbacks *)

LEMMA ResetSound ==
    ASSUME NEW p \in Participants, Sound(p)
    PROVE  LET q == CallbacksReset(p)
           IN /\ q \in Participants /\ Sound(q)
              /\ q.active = p.active /\ q.initialized /\ ~q.owed /\ ~q.running
BY DEF CallbacksReset, SeesReset, Participants, Sound

LEMMA SetActiveSound ==
    ASSUME NEW p \in Participants, Sound(p), NEW on \in BOOLEAN, on => ~p.owed
    PROVE  LET q == CallbacksSetActive(p, on)
           IN /\ q \in Participants /\ Sound(q)
              /\ q.active = on /\ (q.owed => p.owed)
              /\ q.running = (p.running /\ on)
<1>1. CASE p.active = on
  BY <1>1 DEF CallbacksSetActive, Sound, Participants
<1>2. CASE p.active # on
  <2>. DEFINE r == IF on /\ ~p.initialized THEN CallbacksReset(p) ELSE p
  <2>1. /\ r \in Participants /\ Sound(r) /\ r.active = p.active /\ (r.owed => p.owed)
        /\ on => r.initialized
    BY ResetSound
  <2>. HIDE DEF r
  <2>2. /\ r.known # "new" /\ (r.known = "on") # on /\ ~(on /\ r.owed)
        /\ r.breaches = {} /\ r.initialized
    BY <1>2, <2>1 DEF Sound, Participants
  <2>3. SeesActivity(r, on) =
           [r EXCEPT !.known = IF on THEN "on" ELSE "off", !.running = FALSE]
    BY <2>1, <2>2 DEF SeesActivity, Breach, Participants
  <2>4. CallbacksSetActive(p, on) =
           [SeesActivity(r, on) EXCEPT !.active = on, !.animating = FALSE]
    BY <1>2 DEF CallbacksSetActive, ActiveAnimating, r
  <2>5. ~p.running \/ ~on
    BY <1>2 DEF Sound
  <2>. DEFINE act == SeesActivity(r, on)
              q == CallbacksSetActive(p, on)
  <2>6. /\ act \in Participants
        /\ act.initialized = TRUE /\ act.known = (IF on THEN "on" ELSE "off")
        /\ act.owed = r.owed /\ act.running = FALSE /\ act.breaches = {}
    BY <2>1, <2>2, <2>3 DEF Participants
  <2>. HIDE DEF act
  <2>7. /\ q.initialized = TRUE /\ q.active = on /\ q.animating = FALSE
        /\ q.known = (IF on THEN "on" ELSE "off") /\ q.owed = r.owed
        /\ q.running = FALSE /\ q.breaches = {}
    <3>1. q = [act EXCEPT !.active = on, !.animating = FALSE]
      BY <2>4 DEF act
    <3>. QED BY <3>1, <2>6 DEF Participants
  <2>8. q \in Participants
    <3>1. q = [act EXCEPT !.active = on, !.animating = FALSE]
      BY <2>4 DEF act
    <3>. QED BY <3>1, <2>6 DEF Participants
  <2>. HIDE DEF q
  <2>9. q.active = (q.known = "on") /\ q.initialized = (q.known # "new")
    BY <2>7
  <2>10. Sound(q)
    BY <2>7, <2>9 DEF Sound
  <2>. QED
    BY <2>1, <2>5, <2>7, <2>8, <2>10 DEF q
<1>. QED BY <1>1, <1>2

LEMMA InputSound ==
    ASSUME NEW p \in Participants, Sound(p), ~p.owed
    PROVE  CallbacksOnEvent(p) = p
BY DEF CallbacksOnEvent, SeesInput, Breach, Sound, Participants

LEMMA RenderSound ==
    ASSUME NEW p \in Participants, Sound([p EXCEPT !.animating = p.running]), p.active, ~p.owed,
           NEW late \in BOOLEAN, NEW again \in BOOLEAN,
           NEW elapsed \in BOOLEAN, elapsed = (late /\ p.running)
    PROVE  CallbacksRender(p, elapsed, late, again) =
              [p EXCEPT !.running = again, !.animating = again]
<1>1. SeesInput(p) = p
  BY DEF SeesInput, Breach, Sound, Participants
<1>2. SeesFrame(p, elapsed, late, again) = [p EXCEPT !.running = again]
  BY <1>1 DEF SeesFrame, Breach, Participants
<1>. QED BY <1>2 DEF CallbacksRender, Participants

-----------------------------------------------------------------------------
(* Reconciling a selector *)

SameOwner(x, y) ==
    /\ y.part = x.part /\ y.wanted = x.wanted /\ y.resetPending = x.resetPending
    /\ y.active = x.active /\ y.index = x.index

LEMMA SelectedType ==
    ASSUME NEW x \in Scenes
    PROVE  Selected(x) \in Slots \cup {NoSlot} /\ NoSlot \notin Slots
BY DEF Selected, Scenes, Slots, NoSlot

LEMMA RetireShape ==
    ASSUME NEW x \in Scenes, \A s \in Slots : Sound(x.instances[s].part)
    PROVE  LET y == RetireLive(x)
               retired(s) == x.live = s /\ s # Selected(x)
           IN /\ y \in Scenes /\ SameOwner(x, y) /\ y.resetRequested = x.resetRequested
              /\ y.live = IF x.live = Selected(x) THEN x.live ELSE NoSlot
              /\ \A s \in Slots :
                    /\ y.instances[s].part =
                          IF retired(s) THEN CallbacksSetActive(x.instances[s].part, FALSE)
                          ELSE x.instances[s].part
                    /\ y.instances[s].pending = x.instances[s].pending
<1>1. CASE x.live = NoSlot \/ x.live = Selected(x)
  BY <1>1, SelectedType DEF RetireLive, SameOwner, Scenes
<1>2. CASE ~(x.live = NoSlot \/ x.live = Selected(x))
  <2>. DEFINE l == x.live
              p == CallbacksSetActive(x.instances[l].part, FALSE)
              i == [x.instances EXCEPT ![l] = [part |-> p, pending |-> x.instances[l].pending]]
  <2>1. l \in Slots /\ x.instances \in [Slots -> Instances]
    BY <1>2 DEF Scenes
  <2>2. p \in Participants
    BY <2>1, SetActiveSound DEF Instances
  <2>3. [x.instances[l] EXCEPT !.part = p] =
           [part |-> p, pending |-> x.instances[l].pending]
    <3>1. \A c \in Instances, q \in Participants :
             [c EXCEPT !.part = q] = [part |-> q, pending |-> c.pending]
      BY DEF Instances
    <3>. QED BY <2>1, <2>2, <3>1
  <2>. HIDE DEF p
  <2>4. RetireLive(x) = [x EXCEPT !.instances = i, !.live = NoSlot]
    BY <1>2, <2>1, <2>3, Zenon DEF RetireLive, p
  <2>5. i \in [Slots -> Instances]
    BY <2>1, <2>2 DEF Instances
  <2>6. \A s \in Slots : i[s] = IF s = l THEN [part |-> p, pending |-> x.instances[l].pending]
                                ELSE x.instances[s]
    BY <2>1
  <2>. HIDE DEF i
  <2>. DEFINE y == RetireLive(x)
  <2>7. /\ y \in Scenes /\ SameOwner(x, y) /\ y.resetRequested = x.resetRequested
        /\ y.live = NoSlot /\ y.instances = i
    BY <2>4, <2>5 DEF SameOwner, Scenes
  <2>. HIDE DEF y
  <2>8. ASSUME NEW s \in Slots
        PROVE  /\ y.instances[s].part =
                     IF x.live = s /\ s # Selected(x)
                     THEN CallbacksSetActive(x.instances[s].part, FALSE)
                     ELSE x.instances[s].part
               /\ y.instances[s].pending = x.instances[s].pending
    <3>1. CASE s = l
      <4>1. y.instances[s].part = p /\ y.instances[s].pending = x.instances[s].pending
        BY <2>6, <2>7, <3>1
      <4>2. p = CallbacksSetActive(x.instances[s].part, FALSE)
        BY <3>1 DEF p
      <4>. QED BY <1>2, <3>1, <4>1, <4>2
    <3>2. CASE s # l
      BY <2>6, <2>7, <3>2
    <3>. QED BY <3>1, <3>2
  <2>. QED
    BY <1>2, <2>7, <2>8 DEF y
<1>. QED BY <1>1, <1>2

LEMMA MarkShape ==
    ASSUME NEW x \in Scenes
    PROVE  LET y == MarkResets(x)
           IN /\ y \in Scenes /\ SameOwner(x, y) /\ y.live = x.live /\ ~y.resetRequested
              /\ \A s \in Slots :
                    /\ y.instances[s].part = x.instances[s].part
                    /\ y.instances[s].pending =
                          (x.instances[s].pending \/ x.resetRequested)
<1>. DEFINE i == [s \in Slots |-> [part |-> x.instances[s].part,
                    pending |-> x.instances[s].pending \/ x.resetRequested]]
<1>1. MarkResets(x) = [x EXCEPT !.resetRequested = FALSE, !.instances = i]
  BY DEF MarkResets, Scenes
<1>2. \A s \in Slots : /\ x.instances[s].part \in Participants
                       /\ x.instances[s].pending \in BOOLEAN
                       /\ x.resetRequested \in BOOLEAN
  BY DEF Scenes, Instances
<1>3. \A s \in Slots : i[s] \in Instances
  BY <1>2, Zenon DEF Instances
<1>4. i \in [Slots -> Instances]
  BY <1>3
<1>5. \A s \in Slots : /\ i[s].part = x.instances[s].part
                       /\ i[s].pending = (x.instances[s].pending \/ x.resetRequested)
  OBVIOUS
<1>. HIDE DEF i
<1>. QED
  BY <1>1, <1>4, <1>5 DEF SameOwner, Scenes

LEMMA EnlivenShape ==
    ASSUME NEW x \in Scenes, \A s \in Slots : Sound(x.instances[s].part),
           \A s \in Slots : Selected(x) = s /\ x.instances[s].part.owed =>
                               x.instances[s].pending
    PROVE  LET y == Enliven(x)
               ready(s) == IF x.instances[s].pending THEN CallbacksReset(x.instances[s].part)
                           ELSE x.instances[s].part
           IN /\ y \in Scenes /\ SameOwner(x, y) /\ y.resetRequested = x.resetRequested
              /\ y.live = IF Selected(x) = NoSlot THEN x.live ELSE Selected(x)
              /\ \A s \in Slots :
                    /\ y.instances[s].part =
                          IF s = Selected(x) THEN CallbacksSetActive(ready(s), TRUE)
                          ELSE x.instances[s].part
                    /\ y.instances[s].pending = (s # Selected(x) /\ x.instances[s].pending)
<1>1. CASE Selected(x) = NoSlot
  BY <1>1, SelectedType DEF Enliven, SameOwner, Scenes, Instances
<1>2. CASE Selected(x) # NoSlot
  <2>. DEFINE l == Selected(x)
              r == IF x.instances[l].pending THEN CallbacksReset(x.instances[l].part)
                   ELSE x.instances[l].part
              p == CallbacksSetActive(r, TRUE)
              i == [x.instances EXCEPT ![l] = [part |-> p, pending |-> FALSE]]
  <2>1. l \in Slots /\ x.instances \in [Slots -> Instances]
    BY <1>2, SelectedType DEF Scenes
  <2>2. r \in Participants /\ Sound(r) /\ ~r.owed
    BY <2>1, ResetSound DEF Instances
  <2>3. p \in Participants
    BY <2>2, SetActiveSound
  <2>. HIDE DEF p
  <2>4. Enliven(x) = [x EXCEPT !.live = l, !.instances = i]
    BY <1>2 DEF Enliven, p
  <2>5. i \in [Slots -> Instances]
    BY <2>1, <2>3 DEF Instances
  <2>6. \A s \in Slots : i[s] = IF s = l THEN [part |-> p, pending |-> FALSE]
                                ELSE x.instances[s]
    BY <2>1
  <2>7. \A s \in Slots : x.instances[s].pending \in BOOLEAN
    BY <2>1 DEF Instances
  <2>. HIDE DEF i
  <2>. DEFINE y == Enliven(x)
  <2>8. /\ y \in Scenes /\ SameOwner(x, y) /\ y.resetRequested = x.resetRequested
        /\ y.live = l /\ y.instances = i
    BY <2>1, <2>4, <2>5 DEF SameOwner, Scenes
  <2>. HIDE DEF y
  <2>9. ASSUME NEW s \in Slots
        PROVE  /\ y.instances[s].part =
                     IF s = Selected(x)
                     THEN CallbacksSetActive(IF x.instances[s].pending
                                             THEN CallbacksReset(x.instances[s].part)
                                             ELSE x.instances[s].part, TRUE)
                     ELSE x.instances[s].part
               /\ y.instances[s].pending = (s # Selected(x) /\ x.instances[s].pending)
    <3>1. CASE s = l
      <4>1. y.instances[s].part = p /\ ~y.instances[s].pending
        BY <2>6, <2>8, <3>1
      <4>2. p = CallbacksSetActive(IF x.instances[s].pending
                                   THEN CallbacksReset(x.instances[s].part)
                                   ELSE x.instances[s].part, TRUE)
        BY <3>1 DEF p
      <4>3. y.instances[s].pending = FALSE
        BY <2>6, <2>8, <3>1
      <4>. QED BY <3>1, <4>1, <4>2, <4>3
    <3>2. CASE s # l
      BY <2>6, <2>7, <2>8, <3>2
    <3>. QED BY <3>1, <3>2
  <2>. QED
    BY <1>2, <2>8, <2>9 DEF y
<1>. QED BY <1>1, <1>2

(* Whatever was selected, activated or reset before: afterwards the        *)
(* selected instance is the live one if its owner is active, has seen the  *)
(* resets, and the others are inactive and remember theirs.                *)
LEMMA ReconcileSound ==
    ASSUME NEW x \in Scenes,
           \A s \in Slots : /\ Sound(x.instances[s].part)
                            /\ x.instances[s].part.active = (x.live = s)
                            /\ Selected(x) = s /\ x.instances[s].part.owed =>
                                  x.resetRequested \/ x.instances[s].pending
    PROVE  LET y == Reconcile(x)
           IN /\ y \in Scenes /\ SameOwner(x, y) /\ ~y.resetRequested
              /\ y.live = Selected(x)
              /\ \A s \in Slots :
                    /\ Sound(y.instances[s].part)
                    /\ y.instances[s].part.active = (y.live = s)
                    /\ y.instances[s].part.running =>
                          x.instances[s].part.running /\ ~x.resetRequested
                    /\ y.instances[s].part.owed => /\ x.instances[s].part.owed
                                                   /\ y.live # s
                    /\ y.live # s /\ (x.resetRequested \/ x.instances[s].pending) =>
                          y.instances[s].pending
<1>. DEFINE r == RetireLive(x)
            m == MarkResets(r)
            y == Enliven(m)
<1>1. x.live \in Slots \cup {NoSlot} /\ Selected(x) \in Slots \cup {NoSlot} /\ NoSlot \notin Slots
  BY SelectedType DEF Scenes
<1>2. /\ r \in Scenes /\ SameOwner(x, r) /\ r.resetRequested = x.resetRequested
      /\ r.live = IF x.live = Selected(x) THEN x.live ELSE NoSlot
      /\ \A s \in Slots :
            /\ r.instances[s].part =
                  IF x.live = s /\ s # Selected(x)
                  THEN CallbacksSetActive(x.instances[s].part, FALSE)
                  ELSE x.instances[s].part
            /\ r.instances[s].pending = x.instances[s].pending
  BY RetireShape
<1>. HIDE DEF r
<1>3. /\ m \in Scenes /\ SameOwner(r, m) /\ m.live = r.live /\ ~m.resetRequested
      /\ \A s \in Slots : /\ m.instances[s].part = r.instances[s].part
                          /\ m.instances[s].pending =
                                (r.instances[s].pending \/ r.resetRequested)
  BY <1>2, MarkShape
<1>. HIDE DEF m
<1>4. Selected(m) = Selected(x) /\ SameOwner(x, m)
  BY <1>2, <1>3 DEF SameOwner, Selected
<1>5. \A s \in Slots : x.instances[s].part \in Participants
  BY DEF Scenes, Instances
<1>6. ASSUME NEW s \in Slots
      PROVE  LET a == m.instances[s].part
                 b == x.instances[s].part
             IN /\ Sound(a) /\ a \in Participants
                /\ a.active = (x.live = s /\ s = Selected(x))
                /\ (a.running => b.running) /\ (a.owed => b.owed)
                /\ s = Selected(x) => a = b
  <2>1. CASE x.live = s /\ s # Selected(x)
    <3>. DEFINE q == CallbacksSetActive(x.instances[s].part, FALSE)
    <3>1. /\ q \in Participants /\ Sound(q) /\ q.active = FALSE
          /\ q.owed => x.instances[s].part.owed
          /\ q.running = (x.instances[s].part.running /\ FALSE)
      BY <1>5, SetActiveSound
    <3>. HIDE DEF q
    <3>2. m.instances[s].part = q
      BY <1>2, <1>3, <2>1 DEF q
    <3>. QED BY <2>1, <3>1, <3>2
  <2>2. CASE ~(x.live = s /\ s # Selected(x))
    <3>1. m.instances[s].part = x.instances[s].part
      <4>1. r.instances[s].part = x.instances[s].part
        BY <1>2, <2>2
      <4>2. m.instances[s].part = r.instances[s].part
        BY <1>3
      <4>. QED BY <4>1, <4>2
    <3>2. (x.live = s) = (x.live = s /\ s = Selected(x))
      BY <2>2
    <3>3. x.instances[s].part.active = (x.live = s /\ s = Selected(x))
      BY <3>2
    <3>. QED BY <1>5, <3>1, <3>3
  <2>. QED BY <2>1, <2>2
<1>7. \A s \in Slots : Selected(m) = s /\ m.instances[s].part.owed => m.instances[s].pending
  BY <1>2, <1>3, <1>4, <1>6
<1>8. /\ y \in Scenes /\ SameOwner(m, y) /\ y.resetRequested = m.resetRequested
      /\ y.live = IF Selected(m) = NoSlot THEN m.live ELSE Selected(m)
      /\ \A s \in Slots :
            /\ y.instances[s].part =
                  IF s = Selected(m)
                  THEN CallbacksSetActive(IF m.instances[s].pending
                                          THEN CallbacksReset(m.instances[s].part)
                                          ELSE m.instances[s].part, TRUE)
                  ELSE m.instances[s].part
            /\ y.instances[s].pending = (s # Selected(m) /\ m.instances[s].pending)
  BY <1>3, <1>6, <1>7, EnlivenShape
<1>. HIDE DEF y
<1>9. y.live = Selected(x)
  BY <1>1, <1>2, <1>3, <1>4, <1>8
<1>10. ASSUME NEW s \in Slots
       PROVE  /\ Sound(y.instances[s].part)
              /\ y.instances[s].part.active = (y.live = s)
              /\ y.instances[s].part.running =>
                    x.instances[s].part.running /\ ~x.resetRequested
              /\ y.instances[s].part.owed => /\ x.instances[s].part.owed
                                             /\ y.live # s
              /\ y.live # s /\ (x.resetRequested \/ x.instances[s].pending) =>
                    y.instances[s].pending
  <2>1. CASE s = Selected(x)
    <3>. DEFINE a == m.instances[s].part
                b == IF m.instances[s].pending THEN CallbacksReset(a) ELSE a
    <3>1. /\ b \in Participants /\ Sound(b) /\ ~b.owed
          /\ b.running => a.running /\ ~m.instances[s].pending
      BY <1>4, <1>6, <1>7, <2>1, ResetSound
    <3>. HIDE DEF b
    <3>2. LET q == CallbacksSetActive(b, TRUE)
          IN Sound(q) /\ q.active /\ (q.owed => b.owed) /\ q.running = (b.running /\ TRUE)
      BY <3>1, SetActiveSound
    <3>3. y.instances[s].part = CallbacksSetActive(b, TRUE)
      BY <1>4, <1>8, <2>1 DEF b
    <3>4. b.running => x.instances[s].part.running /\ ~x.resetRequested
      BY <1>2, <1>3, <1>6, <3>1
    <3>. QED BY <1>9, <2>1, <3>1, <3>2, <3>3, <3>4
  <2>2. CASE s # Selected(x)
    <3>1. y.instances[s].part = m.instances[s].part /\ ~m.instances[s].part.active
      BY <1>4, <1>6, <1>8, <2>2
    <3>2. ~m.instances[s].part.running
      BY <1>6, <3>1 DEF Sound
    <3>3. (x.resetRequested \/ x.instances[s].pending) => y.instances[s].pending
      BY <1>2, <1>3, <1>4, <1>8, <2>2
    <3>. QED BY <1>6, <1>9, <2>2, <3>1, <3>2, <3>3
  <2>. QED BY <2>1, <2>2
<1>11. SameOwner(x, y) /\ ~y.resetRequested /\ y \in Scenes
  BY <1>3, <1>4, <1>8 DEF SameOwner
<1>. QED BY <1>9, <1>10, <1>11 DEF Reconcile, y, m, r

-----------------------------------------------------------------------------
(* What a pass does to an overlay *)

LEMMA PartSet ==
    ASSUME NEW x \in Scenes, NEW p \in Participants
    PROVE  LET y == [x EXCEPT !.part = p]
           IN /\ y \in Scenes /\ y.part = p
              /\ y.wanted = x.wanted /\ y.resetPending = x.resetPending
              /\ y.active = x.active /\ y.index = x.index /\ y.live = x.live
              /\ y.resetRequested = x.resetRequested /\ y.instances = x.instances
BY DEF Scenes

LEMMA InstanceSet ==
    ASSUME NEW x \in Scenes, NEW l \in Slots, NEW p \in Participants
    PROVE  LET y == [x EXCEPT !.instances[l].part = p]
           IN /\ y \in Scenes /\ SameOwner(x, y) /\ y.live = x.live
              /\ y.resetRequested = x.resetRequested
              /\ \A s \in Slots :
                    /\ y.instances[s].part = IF s = l THEN p ELSE x.instances[s].part
                    /\ y.instances[s].pending = x.instances[s].pending
<1>. DEFINE new == [part |-> p, pending |-> x.instances[l].pending]
            i == [x.instances EXCEPT ![l] = new]
            y == [x EXCEPT !.instances[l].part = p]
<1>1. x.instances \in [Slots -> Instances]
  BY DEF Scenes
<1>2. [x.instances[l] EXCEPT !.part = p] = new
  <2>1. \A c \in Instances : [c EXCEPT !.part = p] = [part |-> p, pending |-> c.pending]
    BY DEF Instances
  <2>. QED BY <1>1, <2>1
<1>3. y = [x EXCEPT !.instances = i]
  BY <1>2, Zenon
<1>4. i \in [Slots -> Instances]
  BY <1>1 DEF Instances
<1>5. \A s \in Slots : i[s] = IF s = l THEN new ELSE x.instances[s]
  BY <1>1
<1>. HIDE DEF i, y
<1>6. /\ y \in Scenes /\ SameOwner(x, y) /\ y.live = x.live
      /\ y.resetRequested = x.resetRequested /\ y.instances = i
  BY <1>3, <1>4 DEF Scenes, SameOwner
<1>7. \A s \in Slots : /\ y.instances[s].part = IF s = l THEN p ELSE x.instances[s].part
                       /\ y.instances[s].pending = x.instances[s].pending
  BY <1>5, <1>6
<1>. QED BY <1>6, <1>7 DEF y

(* An active overlay's selector reconciles to the selected effect, unless  *)
(* a reset of the overlay is still to come.                                *)
LEMMA ReconcileActive ==
    ASSUME NEW x \in Scenes, \A s \in Slots : Sound(x.instances[s].part), Coherent(x),
           ~x.resetPending
    PROVE  LET y == Reconcile(x)
           IN /\ y \in Scenes /\ SameOwner(x, y) /\ Coherent(y)
              /\ x.part.active => y.live \in Slots /\ y.live = y.index
                                  /\ ~y.instances[y.live].part.owed
              /\ \A s \in Slots : Sound(y.instances[s].part)
<1>. DEFINE y == Reconcile(x)
<1>1. /\ y \in Scenes /\ SameOwner(x, y) /\ ~y.resetRequested
      /\ y.live = Selected(x)
      /\ \A s \in Slots :
            /\ Sound(y.instances[s].part)
            /\ y.instances[s].part.active = (y.live = s)
            /\ y.instances[s].part.running =>
                  x.instances[s].part.running /\ ~x.resetRequested
            /\ y.instances[s].part.owed => /\ x.instances[s].part.owed
                                           /\ y.live # s
            /\ y.live # s /\ (x.resetRequested \/ x.instances[s].pending) =>
                  y.instances[s].pending
  BY ReconcileSound DEF Coherent
<1>. HIDE DEF y
<1>2. x.index \in Slots /\ NoSlot \notin Slots
  BY SelectedType DEF Scenes
<1>3. y.live = (IF x.active THEN x.index ELSE NoSlot) /\ y.index = x.index
      /\ y.part = x.part /\ y.active = x.active
  BY <1>1 DEF Selected, SameOwner
<1>4. (y.live # NoSlot) <=> x.active
  BY <1>2, <1>3
<1>5. y.active = y.part.active /\ y.active = (y.live # NoSlot)
  BY <1>3, <1>4 DEF Coherent, Scenes
<1>6. ASSUME NEW s \in Slots
      PROVE  /\ y.instances[s].part.active = (y.live = s)
             /\ y.instances[s].part.running => y.part.running
             /\ y.instances[s].part.owed =>
                   y.resetPending \/ y.resetRequested \/ y.instances[s].pending
  BY <1>1, <1>3 DEF Coherent
<1>7. Coherent(y)
  BY <1>5, <1>6 DEF Coherent
<1>8. x.part.active => x.active
  BY DEF Coherent
<1>. QED BY <1>1, <1>2, <1>3, <1>7, <1>8 DEF y

LEMMA ResetLives ==
    ASSUME NEW o \in Overlays, NEW x \in Scenes, Living(o, x)
    PROVE  LET y == [ResetOverlay(o, x) EXCEPT !.resetPending = FALSE]
           IN /\ y \in Scenes /\ Living(o, y)
              /\ y.part.active = x.part.active /\ y.wanted = x.wanted
              /\ ~y.resetPending /\ y.index = x.index
<1>. DEFINE z == ResetOwner(o, x)
            p == CallbacksReset(z.part)
            y == [ResetOverlay(o, x) EXCEPT !.resetPending = FALSE]
<1>1. /\ z \in Scenes /\ SameOwner(x, z)
      /\ \A s \in Slots : Sound(z.instances[s].part)
      /\ o \in Choosing =>
            /\ (z.live # NoSlot) <=> x.active
            /\ \A s \in Slots :
                  /\ z.instances[s].part.active = (z.live = s)
                  /\ ~z.instances[s].part.running
                  /\ z.instances[s].part.owed => z.instances[s].pending
  <2>1. CASE o \notin Choosing
    BY <2>1 DEF ResetOwner, SameOwner, Living
  <2>2. CASE o \in Choosing
    <3>. DEFINE w == [x EXCEPT !.resetRequested = TRUE]
    <3>1. /\ w \in Scenes /\ SameOwner(x, w) /\ w.resetRequested
          /\ w.live = x.live /\ w.instances = x.instances
      BY DEF Scenes, SameOwner
    <3>. HIDE DEF w
    <3>2. \A s \in Slots : /\ Sound(w.instances[s].part)
                           /\ w.instances[s].part.active = (w.live = s)
      BY <2>2, <3>1 DEF Living, Coherent
    <3>3. Selected(w) = (IF x.active THEN x.index ELSE NoSlot)
          /\ x.index \in Slots /\ NoSlot \notin Slots
      BY <3>1, SelectedType DEF Selected, SameOwner, Scenes
    <3>4. LET v == Reconcile(w)
          IN /\ v \in Scenes /\ SameOwner(w, v) /\ v.live = Selected(w)
             /\ \A s \in Slots :
                   /\ Sound(v.instances[s].part)
                   /\ v.instances[s].part.active = (v.live = s)
                   /\ v.instances[s].part.running =>
                         w.instances[s].part.running /\ ~w.resetRequested
                   /\ v.instances[s].part.owed => /\ w.instances[s].part.owed
                                                  /\ v.live # s
                   /\ v.live # s /\ (w.resetRequested \/ w.instances[s].pending) =>
                         v.instances[s].pending
      BY <3>1, <3>2, ReconcileSound
    <3>5. z = Reconcile(w)
      BY <2>2 DEF ResetOwner, w
    <3>. HIDE DEF z
    <3>6. SameOwner(x, z)
      BY <3>1, <3>4, <3>5 DEF SameOwner
    <3>. QED BY <3>1, <3>3, <3>4, <3>5, <3>6
  <2>. QED BY <2>1, <2>2
<1>. HIDE DEF z
<1>2. z.part = x.part /\ x.part \in Participants /\ Sound(x.part)
  BY <1>1 DEF SameOwner, Living, Scenes
<1>3. /\ p \in Participants /\ Sound(p)
      /\ p.active = x.part.active /\ ~p.owed /\ ~p.running
  BY <1>2, ResetSound
<1>. HIDE DEF p
<1>4. y = [z EXCEPT !.part = p, !.resetPending = FALSE]
  BY <1>1 DEF ResetOverlay, p, z, Scenes
<1>. HIDE DEF y
<1>5. /\ y \in Scenes /\ y.part = p /\ y.wanted = x.wanted /\ ~y.resetPending
      /\ y.index = x.index /\ y.active = x.active /\ y.live = z.live /\ y.instances = z.instances
  BY <1>1, <1>3, <1>4 DEF Scenes, SameOwner
<1>6. ASSUME o \in Choosing PROVE Coherent(y)
  <2>1. x.active = x.part.active
    BY <1>6 DEF Living, Coherent
  <2>2. y.active = y.part.active /\ y.active = (y.live # NoSlot)
    BY <1>1, <1>3, <1>5, <1>6, <2>1 DEF Scenes
  <2>. QED BY <1>1, <1>5, <1>6, <2>2 DEF Coherent
<1>7. Living(o, y)
  BY <1>1, <1>3, <1>5, <1>6 DEF Living
<1>. QED BY <1>3, <1>5, <1>7 DEF y

LEMMA ActivateLives ==
    ASSUME NEW o \in Overlays, NEW x \in Scenes, Living(o, x),
           NEW on \in BOOLEAN, on => ~x.resetPending
    PROVE  LET y == ActivateOverlay(o, x, on)
           IN /\ y \in Scenes /\ Living(o, y)
              /\ y.part.active = on /\ y.wanted = x.wanted
              /\ y.resetPending = x.resetPending /\ y.index = x.index
              /\ y.part.running = (x.part.running /\ on)
<1>. DEFINE z == IF o \in Choosing /\ x.part.active # on
                 THEN Reconcile([x EXCEPT !.active = on]) ELSE x
            p == CallbacksSetActive(z.part, on)
            y == ActivateOverlay(o, x, on)
<1>1. /\ z \in Scenes /\ z.part = x.part /\ z.wanted = x.wanted
      /\ z.resetPending = x.resetPending /\ z.index = x.index
      /\ \A s \in Slots : Sound(z.instances[s].part)
      /\ o \in Choosing =>
            /\ z.active = on /\ z.active = (z.live # NoSlot)
            /\ \A s \in Slots :
                  /\ z.instances[s].part.active = (z.live = s)
                  /\ z.instances[s].part.running => x.part.running /\ on
                  /\ z.instances[s].part.owed =>
                        z.resetPending \/ z.resetRequested \/ z.instances[s].pending
  <2>1. CASE o \notin Choosing
    BY <2>1 DEF Living
  <2>2. CASE o \in Choosing /\ x.part.active = on
    <3>1. \A s \in Slots : x.instances[s].part.running => x.part.running /\ x.part.active
      BY <2>2 DEF Living, Coherent, Sound
    <3>. QED BY <2>2, <3>1 DEF Living, Coherent
  <2>3. CASE o \in Choosing /\ x.part.active # on
    <3>. DEFINE w == [x EXCEPT !.active = on]
    <3>1. /\ w \in Scenes /\ w.part = x.part /\ w.wanted = x.wanted
          /\ w.resetPending = x.resetPending /\ w.active = on
          /\ w.resetRequested = x.resetRequested /\ w.index = x.index
          /\ w.live = x.live /\ w.instances = x.instances
      BY DEF Scenes
    <3>. HIDE DEF w
    <3>2. Selected(w) = (IF on THEN x.index ELSE NoSlot)
          /\ x.index \in Slots /\ NoSlot \notin Slots
      BY <3>1, SelectedType DEF Selected, Scenes
    <3>3. ASSUME NEW s \in Slots
          PROVE  /\ Sound(w.instances[s].part)
                 /\ w.instances[s].part.active = (w.live = s)
                 /\ Selected(w) = s /\ w.instances[s].part.owed =>
                       w.resetRequested \/ w.instances[s].pending
      BY <2>3, <3>1, <3>2 DEF Living, Coherent
    <3>4. LET v == Reconcile(w)
          IN /\ v \in Scenes /\ SameOwner(w, v) /\ ~v.resetRequested
             /\ v.live = Selected(w)
             /\ \A s \in Slots :
                   /\ Sound(v.instances[s].part)
                   /\ v.instances[s].part.active = (v.live = s)
                   /\ v.instances[s].part.running =>
                         w.instances[s].part.running /\ ~w.resetRequested
                   /\ v.instances[s].part.owed => /\ w.instances[s].part.owed
                                                  /\ v.live # s
                   /\ v.live # s /\ (w.resetRequested \/ w.instances[s].pending) =>
                         v.instances[s].pending
      BY <3>1, <3>3, ReconcileSound
    <3>5. z = Reconcile(w)
      BY <2>3 DEF w
    <3>. HIDE DEF z
    <3>6. /\ z \in Scenes /\ z.part = x.part /\ z.wanted = x.wanted
          /\ z.resetPending = x.resetPending /\ z.active = on /\ z.index = x.index
          /\ z.live = (IF on THEN x.index ELSE NoSlot)
      BY <3>1, <3>2, <3>4, <3>5 DEF SameOwner
    <3>7. z.active = (z.live # NoSlot)
      BY <3>2, <3>6
    <3>8. ASSUME NEW s \in Slots
          PROVE  ~z.instances[s].part.running
      <4>1. CASE on
        <5>1. ~x.instances[s].part.active
          <6>1. x.live = NoSlot
            BY <2>3, <4>1 DEF Living, Coherent
          <6>. QED BY <2>3, <3>2, <6>1 DEF Living, Coherent
        <5>2. ~x.instances[s].part.running
          BY <5>1 DEF Living, Sound
        <5>. QED BY <3>1, <3>4, <3>5, <5>2
      <4>2. CASE ~on
        <5>1. ~z.instances[s].part.active
          BY <3>2, <3>4, <3>5, <3>6, <4>2
        <5>2. Sound(z.instances[s].part)
          BY <3>4, <3>5
        <5>. QED BY <5>1, <5>2 DEF Sound
      <4>. QED BY <4>1, <4>2
    <3>9. ASSUME NEW s \in Slots, z.instances[s].part.owed
          PROVE  z.resetPending \/ z.resetRequested \/ z.instances[s].pending
      <4>1. x.resetPending \/ x.resetRequested \/ x.instances[s].pending
        BY <2>3, <3>1, <3>4, <3>5, <3>9 DEF Living, Coherent
      <4>. QED BY <3>1, <3>4, <3>5, <3>6, <3>9, <4>1
    <3>. QED BY <3>4, <3>5, <3>6, <3>7, <3>8, <3>9
  <2>. QED BY <2>1, <2>2, <2>3
<1>. HIDE DEF z
<1>2. x.part \in Participants /\ Sound(x.part) /\ (on => ~x.part.owed)
      /\ (x.part.owed => x.resetPending)
  BY DEF Living, Scenes
<1>3. /\ p \in Participants /\ Sound(p) /\ p.active = on /\ (p.owed => x.part.owed)
      /\ p.running = (x.part.running /\ on)
  BY <1>1, <1>2, SetActiveSound
<1>. HIDE DEF p
<1>4. y = [z EXCEPT !.part = p]
  BY DEF ActivateOverlay, p, z
<1>. HIDE DEF y
<1>5. /\ y \in Scenes /\ y.part = p /\ y.wanted = z.wanted
      /\ y.resetPending = z.resetPending /\ y.index = z.index
      /\ y.active = z.active /\ y.live = z.live
      /\ y.resetRequested = z.resetRequested /\ y.instances = z.instances
  BY <1>1, <1>3, <1>4, PartSet
<1>6. ASSUME o \in Choosing PROVE Coherent(y)
  BY <1>1, <1>3, <1>5, <1>6 DEF Coherent
<1>7. Living(o, y)
  BY <1>1, <1>2, <1>3, <1>5, <1>6 DEF Living
<1>. QED BY <1>1, <1>3, <1>5, <1>7 DEF y

LEMMA InputLives ==
    ASSUME NEW o \in Overlays, NEW x \in Scenes, Living(o, x), ~x.resetPending
    PROVE  LET y == InputToOverlay(o, x)
           IN /\ y \in Scenes /\ Living(o, y)
              /\ y.part = x.part /\ y.wanted = x.wanted
              /\ y.resetPending = x.resetPending /\ y.index = x.index
<1>. DEFINE y == InputToOverlay(o, x)
<1>1. x.part \in Participants /\ Sound(x.part) /\ ~x.part.owed
  BY DEF Living, Scenes
<1>2. CallbacksOnEvent(x.part) = x.part
  BY <1>1, InputSound
<1>3. CASE ~x.part.active
  BY <1>3 DEF InputToOverlay
<1>4. CASE x.part.active /\ o \notin Choosing
  <2>1. y = [x EXCEPT !.part = x.part]
    BY <1>2, <1>4 DEF InputToOverlay
  <2>2. y = x
    BY <2>1 DEF Scenes
  <2>. QED BY <2>2
<1>5. CASE x.part.active /\ o \in Choosing
  <2>. DEFINE z == Reconcile(x)
              p == z.instances[z.live].part
  <2>1. /\ z \in Scenes /\ SameOwner(x, z) /\ Coherent(z)
        /\ z.live \in Slots /\ z.live = z.index /\ ~p.owed
        /\ \A s \in Slots : Sound(z.instances[s].part)
    BY <1>5, ReconcileActive DEF Living
  <2>. HIDE DEF z
  <2>2. p \in Participants
    BY <2>1 DEF Scenes, Instances
  <2>3. CallbacksOnEvent(p) = p
    BY <2>1, <2>2, InputSound
  <2>4. SeesAsLive(z, p) = p
    BY <2>1 DEF SeesAsLive, Breach
  <2>5. z.part = x.part
    BY <2>1 DEF SameOwner
  <2>6. y = [z EXCEPT !.part = x.part, !.instances[z.live].part = p]
    BY <1>2, <1>5, <2>3, <2>4, <2>5, Zenon DEF InputToOverlay, ReconcileForEvent, z, p
  <2>7. [z EXCEPT !.part = x.part] = z
    BY <2>1, <2>5 DEF Scenes
  <2>8. y = [z EXCEPT !.instances[z.live].part = p]
    BY <2>6, <2>7
  <2>. HIDE DEF y
  <2>9. /\ y \in Scenes /\ SameOwner(z, y) /\ y.live = z.live
        /\ y.resetRequested = z.resetRequested
        /\ \A s \in Slots :
              /\ y.instances[s].part = (IF s = z.live THEN p ELSE z.instances[s].part)
              /\ y.instances[s].pending = z.instances[s].pending
    BY <2>1, <2>2, <2>8, InstanceSet
  <2>10. \A s \in Slots : y.instances[s].part = z.instances[s].part
    BY <2>9
  <2>11. Coherent(y) /\ SameOwner(x, y)
    <3>1. SameOwner(x, y) /\ y.active = z.active /\ y.part = z.part
          /\ y.resetPending = z.resetPending
      BY <2>1, <2>9 DEF SameOwner
    <3>2. y.active = y.part.active /\ y.active = (y.live # NoSlot)
      BY <2>1, <2>9, <3>1, Zenon DEF Coherent
    <3>3. ASSUME NEW s \in Slots
          PROVE  /\ y.instances[s].part.active = (y.live = s)
                 /\ y.instances[s].part.running => y.part.running
                 /\ y.instances[s].part.owed =>
                       y.resetPending \/ y.resetRequested \/ y.instances[s].pending
      BY <2>1, <2>9, <2>10, <3>1 DEF Coherent
    <3>. QED BY <3>1, <3>2, <3>3 DEF Coherent
  <2>12. Living(o, y)
    BY <2>1, <2>10, <2>11 DEF Living, SameOwner
  <2>. QED BY <2>9, <2>11, <2>12 DEF SameOwner, y
<1>. QED BY <1>3, <1>4, <1>5

LEMMA RenderLives ==
    ASSUME NEW o \in Overlays, NEW x \in Scenes, Living(o, x), ~x.resetPending,
           NEW late \in BOOLEAN, NEW again \in BOOLEAN
    PROVE  LET y == RenderOverlay(o, x, late, again)
           IN /\ y \in Scenes /\ Living(o, y)
              /\ y.part.active = x.part.active /\ y.wanted = x.wanted
              /\ y.resetPending = x.resetPending /\ y.index = x.index
              /\ y.part.running = (IF x.part.active THEN again ELSE x.part.running)
              /\ x.part.active /\ o \in Choosing => y.live = y.index
<1>. DEFINE y == RenderOverlay(o, x, late, again)
            elapsed == x.part.animating /\ late
            p == [x.part EXCEPT !.running = again, !.animating = again]
<1>1. /\ x.part \in Participants /\ Sound(x.part) /\ ~x.part.owed
      /\ x.part.animating = x.part.running
  BY DEF Living, Scenes, Sound
<1>2. CASE ~x.part.active
  BY <1>2 DEF RenderOverlay
<1>3. ASSUME x.part.active
      PROVE  /\ CallbacksRender(x.part, elapsed, late, again) = p
             /\ p \in Participants /\ Sound(p) /\ p.active = x.part.active
             /\ p.running = again /\ ~p.owed
  <2>1. [x.part EXCEPT !.animating = x.part.running] = x.part
    BY <1>1 DEF Participants
  <2>2. elapsed \in BOOLEAN /\ elapsed = (late /\ x.part.running)
    BY <1>1
  <2>3. CallbacksRender(x.part, elapsed, late, again) = p
    <3>. DEFINE a == x.part
    <3>1. /\ a \in Participants /\ Sound([a EXCEPT !.animating = a.running])
          /\ a.active /\ ~a.owed /\ elapsed = (late /\ a.running) /\ elapsed \in BOOLEAN
      BY <1>1, <1>3, <2>1, <2>2
    <3>. HIDE DEF a, elapsed
    <3>2. CallbacksRender(a, elapsed, late, again) =
             [a EXCEPT !.running = again, !.animating = again]
      BY <3>1, RenderSound
    <3>. QED BY <3>2 DEF a
  <2>4. /\ p \in Participants /\ p.active = x.part.active /\ p.running = again
        /\ p.animating = again /\ p.known = x.part.known /\ p.owed = x.part.owed
        /\ p.initialized = x.part.initialized /\ p.breaches = x.part.breaches
    BY <1>1 DEF Participants
  <2>. HIDE DEF p
  <2>5. Sound(p)
    BY <1>1, <1>3, <2>4 DEF Sound
  <2>. QED BY <1>1, <2>3, <2>4, <2>5
<1>. HIDE DEF p
<1>4. CASE x.part.active /\ o \notin Choosing
  <2>1. y = [x EXCEPT !.part = p]
    BY <1>3, <1>4 DEF RenderOverlay
  <2>. HIDE DEF y
  <2>2. /\ y \in Scenes /\ y.part = p /\ y.wanted = x.wanted
        /\ y.resetPending = x.resetPending /\ y.index = x.index
        /\ y.instances = x.instances
    BY <1>3, <1>4, <2>1, PartSet
  <2>3. Living(o, y)
    BY <1>3, <1>4, <2>2 DEF Living
  <2>. QED BY <1>3, <1>4, <2>2, <2>3 DEF y
<1>5. CASE x.part.active /\ o \in Choosing
  <2>. DEFINE z == Reconcile([x EXCEPT !.part = p])
              a == z.instances[z.live].part
              c == RestartClock(a, elapsed)
              q == [c EXCEPT !.running = again, !.animating = again]
  \* The selector is reconciled before the owner's frame counts for it.
  <2>1. /\ z \in Scenes /\ z.part = p /\ z.wanted = x.wanted
        /\ z.resetPending = x.resetPending /\ z.active /\ z.index = x.index
        /\ z.live = z.index /\ z.live \in Slots /\ ~z.resetRequested
        /\ \A s \in Slots :
              /\ Sound(z.instances[s].part)
              /\ z.instances[s].part.active = (z.live = s)
              /\ z.instances[s].part.running => x.part.running
              /\ z.instances[s].part.owed => z.live # s /\ z.instances[s].pending
    <3>. DEFINE w == [x EXCEPT !.part = p]
    <3>1. /\ w \in Scenes /\ w.part = p /\ w.wanted = x.wanted
          /\ w.resetPending = x.resetPending /\ w.active = x.active
          /\ w.index = x.index /\ w.live = x.live
          /\ w.resetRequested = x.resetRequested /\ w.instances = x.instances
      BY <1>3, <1>5, PartSet
    <3>. HIDE DEF w
    <3>2. \A s \in Slots : /\ Sound(w.instances[s].part)
                           /\ w.instances[s].part.active = (w.live = s)
                           /\ w.instances[s].part.owed =>
                                 w.resetRequested \/ w.instances[s].pending
                           /\ w.instances[s].part.running => x.part.running
      BY <1>5, <3>1 DEF Living, Coherent
    <3>3. LET v == Reconcile(w)
          IN /\ v \in Scenes /\ SameOwner(w, v) /\ ~v.resetRequested
             /\ v.live = Selected(w)
             /\ \A s \in Slots :
                   /\ Sound(v.instances[s].part)
                   /\ v.instances[s].part.active = (v.live = s)
                   /\ v.instances[s].part.running =>
                         w.instances[s].part.running /\ ~w.resetRequested
                   /\ v.instances[s].part.owed => /\ w.instances[s].part.owed
                                                  /\ v.live # s
                   /\ v.live # s /\ (w.resetRequested \/ w.instances[s].pending) =>
                         v.instances[s].pending
      BY <3>1, <3>2, ReconcileSound
    <3>4. x.active = TRUE /\ x.index \in Slots
      BY <1>5 DEF Living, Coherent, Scenes
    <3>5. Selected(w) = x.index
      BY <3>1, <3>4 DEF Selected
    <3>6. z = Reconcile(w)
      BY DEF w
    <3>. HIDE DEF z
    <3>7. /\ z \in Scenes /\ z.part = p /\ z.wanted = x.wanted
          /\ z.resetPending = x.resetPending /\ z.active /\ z.index = x.index
          /\ z.live = z.index /\ z.live \in Slots /\ ~z.resetRequested
      BY <3>1, <3>3, <3>4, <3>5, <3>6 DEF SameOwner
    <3>8. ASSUME NEW s \in Slots
          PROVE  /\ Sound(z.instances[s].part)
                 /\ z.instances[s].part.active = (z.live = s)
                 /\ z.instances[s].part.running => x.part.running
                 /\ z.instances[s].part.owed => z.live # s /\ z.instances[s].pending
      BY <3>2, <3>3, <3>6
    <3>. QED BY <3>7, <3>8
  <2>. HIDE DEF z
  <2>2. a \in Participants /\ Sound(a) /\ a.active /\ ~a.owed
        /\ a.animating = a.running /\ (a.running => x.part.running)
    BY <2>1 DEF Scenes, Instances, Sound
  <2>. HIDE DEF a
  \* Both clocks run, or the instance starts afresh with its owner.
  <2>3. /\ c = [a EXCEPT !.animating = a.animating /\ elapsed]
        /\ c \in Participants /\ c.active /\ ~c.owed /\ c.running = a.running
        /\ c.animating = (a.animating /\ elapsed)
        /\ [c EXCEPT !.animating = c.running] = a
        /\ (c.animating /\ late) \in BOOLEAN
        /\ (c.animating /\ late) = (late /\ c.running)
    <3>1. (a.animating /\ elapsed) \in BOOLEAN
      BY Zenon
    <3>2. c = [a EXCEPT !.animating = a.animating /\ elapsed]
      BY DEF RestartClock
    <3>3. /\ c \in Participants /\ c.active /\ ~c.owed /\ c.running = a.running
          /\ c.animating = (a.animating /\ elapsed)
      BY <2>2, <3>1, <3>2 DEF Participants
    <3>4. [c EXCEPT !.animating = c.running] = a
      BY <2>2, <3>1, <3>2, <3>3 DEF Participants
    <3>5. (c.animating /\ late) = (late /\ c.running)
      BY <1>1, <2>2, <3>3
    <3>6. (c.animating /\ late) \in BOOLEAN
      BY Zenon
    <3>. QED BY <3>2, <3>3, <3>4, <3>5, <3>6
  <2>. HIDE DEF c
  <2>4. CallbacksRender(c, c.animating /\ late, late, again) = q
    <3>. DEFINE e == c.animating /\ late
    <3>1. e \in BOOLEAN /\ e = (late /\ c.running)
      BY <2>3
    <3>2. Sound([c EXCEPT !.animating = c.running]) /\ c \in Participants
          /\ c.active /\ ~c.owed
      BY <2>2, <2>3
    <3>. HIDE DEF e
    <3>3. CallbacksRender(c, e, late, again) = q
      BY <3>1, <3>2, RenderSound
    <3>. QED BY <3>3 DEF e
  <2>5. /\ q \in Participants /\ Sound(q) /\ q.active /\ q.running = again /\ ~q.owed
    <3>1. q = [a EXCEPT !.running = again, !.animating = again]
      BY <2>2, <2>3 DEF Participants
    <3>2. /\ q \in Participants /\ q.active = a.active /\ q.running = again
          /\ q.animating = again /\ q.known = a.known /\ q.owed = a.owed
          /\ q.initialized = a.initialized /\ q.breaches = a.breaches
      BY <2>2, <3>1 DEF Participants
    <3>. HIDE DEF q
    <3>. QED BY <2>2, <3>2 DEF Sound
  <2>6. SeesAsLive(z, q) = q
    BY <2>1 DEF SeesAsLive, Breach
  <2>7. y = [z EXCEPT !.instances[z.live].part = q]
    <3>. DEFINE new == [x EXCEPT !.part = CallbacksRender(x.part, elapsed, late, again)]
                v == Reconcile(new)
                b == RestartClock(v.instances[v.live].part, elapsed)
    <3>1. y = [v EXCEPT !.instances[v.live].part =
                  SeesAsLive(v, CallbacksRender(b, b.animating /\ late, late, again))]
      BY <1>5, Zenon DEF RenderOverlay
    <3>2. v = z
      BY <1>3, <1>5 DEF z
    <3>3. b = c
      BY <3>2 DEF a, c
    <3>. HIDE DEF v, b, y
    <3>. QED BY <2>4, <2>6, <3>1, <3>2, <3>3
  <2>. HIDE DEF y, q
  <2>8. /\ y \in Scenes /\ SameOwner(z, y) /\ y.live = z.live
        /\ y.resetRequested = z.resetRequested
        /\ \A s \in Slots :
              /\ y.instances[s].part = (IF s = z.live THEN q ELSE z.instances[s].part)
              /\ y.instances[s].pending = z.instances[s].pending
    BY <2>1, <2>5, <2>7, InstanceSet
  <2>9. /\ y.part = p /\ y.wanted = x.wanted /\ y.resetPending = x.resetPending
        /\ y.active = z.active /\ y.index = x.index /\ y.live = y.index
    BY <2>1, <2>8 DEF SameOwner
  <2>10. ASSUME NEW s \in Slots
         PROVE  /\ Sound(y.instances[s].part)
                /\ y.instances[s].part.active = (y.live = s)
                /\ y.instances[s].part.running => y.part.running
                /\ y.instances[s].part.owed => y.instances[s].pending
    <3>1. CASE s = z.live
      <4>1. y.instances[s].part = q /\ y.live = s
        BY <2>8, <3>1
      <4>. QED BY <1>3, <1>5, <2>5, <2>9, <4>1 DEF Participants
    <3>2. CASE s # z.live
      <4>1. y.instances[s].part = z.instances[s].part /\ ~z.instances[s].part.active
            /\ y.instances[s].pending = z.instances[s].pending
        BY <2>1, <2>8, <3>2
      <4>2. ~z.instances[s].part.running
        BY <2>1, <4>1 DEF Sound
      <4>. QED BY <2>1, <2>8, <4>1, <4>2
    <3>. QED BY <3>1, <3>2
  <2>11. y.active = y.part.active /\ y.active = (y.live # NoSlot)
    <3>1. y.live # NoSlot
      BY <2>1, <2>8, SelectedType
    <3>2. y.active = TRUE /\ y.part.active = TRUE
      BY <1>3, <1>5, <2>1, <2>9 DEF Scenes, Participants
    <3>. QED BY <3>1, <3>2
  <2>12. Coherent(y)
    BY <2>10, <2>11 DEF Coherent
  <2>13. Living(o, y)
    BY <1>3, <1>5, <2>9, <2>10, <2>12 DEF Living
  <2>. QED BY <1>3, <1>5, <2>8, <2>9, <2>13 DEF y
<1>. QED BY <1>2, <1>4, <1>5

-----------------------------------------------------------------------------
(* Operations between passes *)

LEMMA OwedSound ==
    ASSUME NEW p \in Participants, Sound(p)
    PROVE  LET q == [p EXCEPT !.owed = TRUE]
           IN q \in Participants /\ Sound(q) /\ q.active = p.active /\ q.running = p.running
<1>. DEFINE q == [p EXCEPT !.owed = TRUE]
<1>1. /\ q \in Participants /\ q.active = p.active /\ q.running = p.running
      /\ q.animating = p.animating /\ q.known = p.known
      /\ q.initialized = p.initialized /\ q.breaches = p.breaches
  BY DEF Participants
<1>. HIDE DEF q
<1>2. Sound(q)
  BY <1>1 DEF Sound
<1>. QED BY <1>1, <1>2 DEF q

LEMMA OwingShape ==
    ASSUME NEW x \in Scenes
    PROVE  LET y == Owing(x)
           IN /\ y \in Scenes /\ SameOwner(x, y) /\ y.live = x.live
              /\ y.resetRequested = x.resetRequested
              /\ \A s \in Slots :
                    y.instances[s].part = [x.instances[s].part EXCEPT !.owed = TRUE]
<1>. DEFINE i == [s \in Slots |-> [x.instances[s] EXCEPT !.part.owed = TRUE]]
<1>1. \A c \in Instances : /\ [c EXCEPT !.part.owed = TRUE] \in Instances
                           /\ [c EXCEPT !.part.owed = TRUE].part =
                                 [c.part EXCEPT !.owed = TRUE]
  <2>1. SUFFICES ASSUME NEW c \in Instances
                 PROVE  /\ [c EXCEPT !.part.owed = TRUE] \in Instances
                        /\ [c EXCEPT !.part.owed = TRUE].part =
                              [c.part EXCEPT !.owed = TRUE]
    OBVIOUS
  <2>. DEFINE p == [c.part EXCEPT !.owed = TRUE]
  <2>2. p \in Participants
    BY DEF Instances, Participants
  <2>3. [c EXCEPT !.part.owed = TRUE] = [c EXCEPT !.part = p]
    OBVIOUS
  <2>. HIDE DEF p
  <2>4. [c EXCEPT !.part = p] \in Instances /\ [c EXCEPT !.part = p].part = p
    BY <2>2 DEF Instances
  <2>. QED BY <2>3, <2>4 DEF p
<1>2. x.instances \in [Slots -> Instances]
  BY DEF Scenes
<1>3. i \in [Slots -> Instances]
      /\ \A s \in Slots : i[s].part = [x.instances[s].part EXCEPT !.owed = TRUE]
  BY <1>1, <1>2
<1>4. Owing(x) = [x EXCEPT !.instances = i]
  BY DEF Owing
<1>. HIDE DEF i
<1>. QED BY <1>3, <1>4 DEF Scenes, SameOwner

(* A selection, or a reset that every effect owes and that is requested of *)
(* the selector or of the whole overlay, breaks nothing.                   *)
LEMMA RequestLives ==
    ASSUME NEW o \in Overlays, NEW x \in Scenes, Living(o, x), NEW y \in Scenes,
           y.part.active = x.part.active, y.part.running = x.part.running, Sound(y.part),
           y.part.owed => x.part.owed \/ y.resetPending, x.resetPending => y.resetPending,
           y.active = x.active, y.live = x.live,
           \A s \in Slots :
              \/ y.instances[s] = x.instances[s]
              \/ /\ y.instances[s].part = [x.instances[s].part EXCEPT !.owed = TRUE]
                 /\ y.resetPending \/ y.resetRequested,
           x.resetRequested => y.resetRequested
    PROVE  Living(o, y)
<1>1. \A s \in Slots : x.instances[s].part \in Participants /\ Sound(x.instances[s].part)
  BY DEF Living, Scenes, Instances
<1>2. ASSUME NEW s \in Slots
      PROVE  /\ Sound(y.instances[s].part)
             /\ y.instances[s].part.active = x.instances[s].part.active
             /\ y.instances[s].part.running = x.instances[s].part.running
             /\ y.instances[s] = x.instances[s] \/ y.resetPending \/ y.resetRequested
  BY <1>1, OwedSound
<1>3. ASSUME o \in Choosing PROVE Coherent(y)
  <2>1. Coherent(x)
    BY <1>3 DEF Living
  <2>2. y.active = y.part.active /\ y.active = (y.live # NoSlot)
    BY <2>1, Zenon DEF Coherent
  <2>3. ASSUME NEW s \in Slots
        PROVE  /\ y.instances[s].part.active = (y.live = s)
               /\ y.instances[s].part.running => y.part.running
               /\ y.instances[s].part.owed =>
                     y.resetPending \/ y.resetRequested \/ y.instances[s].pending
    <3>1. y.instances[s].part.active = (y.live = s)
      <4>1. x.instances[s].part.active = (x.live = s)
        BY <2>1, Zenon DEF Coherent
      <4>. QED BY <1>2, <4>1, Zenon
    <3>2. y.instances[s].part.running => y.part.running
      BY <1>2, <2>1 DEF Coherent
    <3>3. y.instances[s].part.owed =>
             y.resetPending \/ y.resetRequested \/ y.instances[s].pending
      BY <1>2, <2>1 DEF Coherent
    <3>. QED BY <3>1, <3>2, <3>3
  <2>. QED BY <2>2, <2>3 DEF Coherent
<1>. QED BY <1>2, <1>3 DEF Living

LEMMA SelectLives ==
    ASSUME NEW o \in Overlays, NEW x \in Scenes, Living(o, x), NEW s \in Slots
    PROVE  [x EXCEPT !.index = s] \in Scenes /\ Living(o, [x EXCEPT !.index = s])
<1>. DEFINE y == [x EXCEPT !.index = s]
<1>1. /\ y \in Scenes /\ y.part = x.part /\ y.active = x.active /\ y.live = x.live
      /\ y.resetPending = x.resetPending /\ y.resetRequested = x.resetRequested
      /\ y.instances = x.instances
  BY DEF Scenes
<1>. HIDE DEF y
<1>2. Sound(x.part)
  BY DEF Living
<1>3. Living(o, y)
  BY <1>1, <1>2, RequestLives
<1>. QED BY <1>1, <1>3 DEF y

LEMMA SelectorResetLives ==
    ASSUME NEW o \in Overlays, NEW x \in Scenes, Living(o, x), NEW s \in Slots
    PROVE  LET y == [Owing(x) EXCEPT !.index = s, !.resetRequested = TRUE]
           IN y \in Scenes /\ Living(o, y)
<1>. DEFINE z == Owing(x)
            y == [z EXCEPT !.index = s, !.resetRequested = TRUE]
<1>1. /\ z \in Scenes /\ SameOwner(x, z) /\ z.live = x.live
      /\ \A t \in Slots : z.instances[t].part = [x.instances[t].part EXCEPT !.owed = TRUE]
  BY OwingShape
<1>. HIDE DEF z
<1>2. /\ y \in Scenes /\ y.part = x.part /\ y.active = x.active /\ y.live = x.live
      /\ y.resetPending = x.resetPending /\ y.resetRequested
      /\ y.instances = z.instances
  BY <1>1 DEF Scenes, SameOwner
<1>. HIDE DEF y
<1>3. Sound(x.part)
  BY DEF Living
<1>4. Living(o, y)
  BY <1>1, <1>2, <1>3, RequestLives
<1>. QED BY <1>2, <1>4 DEF y, z

LEMMA RuntimeResetLives ==
    ASSUME NEW o \in Overlays, NEW x \in Scenes, Living(o, x)
    PROVE  LET y == [AllOwing(o, x) EXCEPT !.resetPending = TRUE]
           IN y \in Scenes /\ Living(o, y)
<1>. DEFINE z == IF o \in Choosing THEN Owing(x) ELSE x
            p == [x.part EXCEPT !.owed = TRUE]
            y == [AllOwing(o, x) EXCEPT !.resetPending = TRUE]
<1>1. /\ z \in Scenes /\ SameOwner(x, z) /\ z.live = x.live
      /\ z.resetRequested = x.resetRequested
      /\ \A s \in Slots :
            \/ z.instances[s] = x.instances[s]
            \/ z.instances[s].part = [x.instances[s].part EXCEPT !.owed = TRUE]
  <2>1. CASE o \in Choosing
    BY <2>1, OwingShape
  <2>2. CASE o \notin Choosing
    BY <2>2 DEF SameOwner
  <2>. QED BY <2>1, <2>2
<1>2. x.part \in Participants /\ Sound(x.part) /\ z.part = x.part
  BY <1>1 DEF Living, Scenes, SameOwner
<1>3. p \in Participants /\ Sound(p) /\ p.active = x.part.active /\ p.running = x.part.running
  BY <1>2, OwedSound
<1>4. AllOwing(o, x) = [z EXCEPT !.part = p]
  <2>1. AllOwing(o, x) = [z EXCEPT !.part.owed = TRUE]
    BY DEF AllOwing
  <2>2. [z EXCEPT !.part.owed = TRUE] = [z EXCEPT !.part = [z.part EXCEPT !.owed = TRUE]]
    OBVIOUS
  <2>. QED BY <1>2, <2>1, <2>2
<1>. HIDE DEF z, p
<1>5. y = [z EXCEPT !.part = p, !.resetPending = TRUE]
  BY <1>1, <1>4 DEF Scenes
<1>. HIDE DEF y
<1>6. /\ y \in Scenes /\ y.part = p /\ y.active = x.active /\ y.live = x.live
      /\ y.resetPending /\ y.resetRequested = x.resetRequested
      /\ y.instances = z.instances
  BY <1>1, <1>3, <1>5 DEF Scenes, SameOwner
<1>7. Living(o, y)
  BY <1>1, <1>3, <1>6, RequestLives
<1>. QED BY <1>6, <1>7 DEF y

Lives == \A o \in Overlays : Living(o, scene[o])

LEMMA ClientLives ==
    ASSUME EngineTypes, Lives, ClientNext
    PROVE  EngineTypes' /\ Lives' /\ phase' = "idle" /\ repaint'
<1>1. /\ phase' = "idle" /\ repaint' = TRUE
      /\ UNCHANGED <<paint, inputChanged>>
  BY DEF ClientNext, SetGate, SelectSlot, ResetSelector, ResetState, SwitchOutput, Operation
<1>2. gate' \in [Overlays -> BOOLEAN] /\ allowed' \in BOOLEAN /\ animating' \in BOOLEAN
  BY DEF EngineTypes, ClientNext, SetGate, SelectSlot, ResetSelector, ResetState,
         SwitchOutput, control
<1>3. scene \in [Overlays -> Scenes]
  BY DEF EngineTypes
<1>4. scene' \in [Overlays -> Scenes] /\ Lives'
  <2>1. CASE UNCHANGED scene
    BY <1>3, <2>1 DEF Lives
  <2>2. ASSUME NEW o \in Choosing, NEW s \in Slots, SelectSlot(o, s)
        PROVE  scene' \in [Overlays -> Scenes] /\ Lives'
    <3>1. o \in Overlays
      BY KindsAssumption
    <3>2. scene' = [scene EXCEPT ![o] = [scene[o] EXCEPT !.index = s]]
      BY <2>2 DEF SelectSlot
    <3>3. /\ [scene[o] EXCEPT !.index = s] \in Scenes
          /\ Living(o, [scene[o] EXCEPT !.index = s])
      BY <1>3, <3>1, SelectLives DEF Lives
    <3>. DEFINE y == [scene[o] EXCEPT !.index = s]
    <3>. HIDE DEF y
    <3>4. /\ scene' \in [Overlays -> Scenes]
          /\ \A q \in Overlays : scene'[q] = IF q = o THEN y ELSE scene[q]
      BY <1>3, <3>1, <3>2, <3>3 DEF y
    <3>. QED BY <3>3, <3>4 DEF Lives, y
  <2>3. ASSUME NEW o \in Choosing, ResetSelector(o)
        PROVE  scene' \in [Overlays -> Scenes] /\ Lives'
    <3>1. o \in Overlays
      BY KindsAssumption
    <3>2. PICK s \in Slots :
             scene' = [scene EXCEPT ![o] = [Owing(scene[o]) EXCEPT !.index = s,
                                                                   !.resetRequested = TRUE]]
      BY <2>3 DEF ResetSelector
    <3>. DEFINE y == [Owing(scene[o]) EXCEPT !.index = s, !.resetRequested = TRUE]
    <3>3. y \in Scenes /\ Living(o, y)
      BY <1>3, <3>1, SelectorResetLives DEF Lives
    <3>. HIDE DEF y
    <3>4. /\ scene' \in [Overlays -> Scenes]
          /\ \A q \in Overlays : scene'[q] = IF q = o THEN y ELSE scene[q]
      BY <1>3, <3>1, <3>2, <3>3 DEF y
    <3>. QED BY <3>3, <3>4 DEF Lives
  <2>4. ASSUME NEW o \in Overlays
        PROVE  RuntimeReset[o] \in Scenes /\ Living(o, RuntimeReset[o])
    BY <1>3, RuntimeResetLives DEF RuntimeReset, Lives
  <2>5. CASE ResetState
    <3>1. PICK initial \in [Choosing -> Slots] :
             scene' = [o \in Overlays |->
                 IF o \in Choosing
                 THEN [RuntimeReset[o] EXCEPT !.index = initial[o], !.resetRequested = TRUE]
                 ELSE RuntimeReset[o]]
      BY <2>5 DEF ResetState
    <3>2. ASSUME NEW o \in Overlays
          PROVE  scene'[o] \in Scenes /\ Living(o, scene'[o])
      <4>1. CASE o \notin Choosing
        BY <2>4, <3>1, <4>1
      <4>2. CASE o \in Choosing
        <5>. DEFINE x == RuntimeReset[o]
                    y == [x EXCEPT !.index = initial[o], !.resetRequested = TRUE]
        <5>1. x \in Scenes /\ Living(o, x) /\ initial[o] \in Slots
          BY <2>4, <4>2
        <5>. HIDE DEF x
        <5>2. /\ y \in Scenes /\ y.part = x.part /\ y.active = x.active
              /\ y.live = x.live /\ y.resetPending = x.resetPending
              /\ y.resetRequested /\ y.instances = x.instances
          BY <5>1 DEF Scenes
        <5>3. scene'[o] = y
          BY <3>1, <4>2 DEF x
        <5>. HIDE DEF y
        <5>4. Sound(x.part)
          BY <5>1 DEF Living
        <5>5. Living(o, y)
          BY <5>1, <5>2, <5>4, RequestLives
        <5>. QED BY <5>2, <5>3, <5>5
      <4>. QED BY <4>1, <4>2
    <3>3. scene' \in [Overlays -> Scenes]
      BY <3>1, <3>2
    <3>. QED BY <3>2, <3>3 DEF Lives
  <2>6. CASE SwitchOutput
    <3>1. UNCHANGED scene \/ scene' = RuntimeReset
      BY <2>6 DEF SwitchOutput, ResumedScene
    <3>2. RuntimeReset \in [Overlays -> Scenes]
      BY <2>4 DEF RuntimeReset
    <3>. QED BY <2>1, <2>4, <3>1, <3>2 DEF Lives
  <2>7. ASSUME NEW o \in Overlays, SetGate(o) PROVE UNCHANGED scene
    BY <2>7 DEF SetGate
  <2>. QED BY <2>1, <2>2, <2>3, <2>5, <2>6, <2>7 DEF ClientNext
<1>. QED BY <1>1, <1>2, <1>4 DEF EngineTypes

-----------------------------------------------------------------------------
(* The pass *)

(* Overlays from the last covering one on are those no covering one hides. *)
LEMMA LastCoveringIsLast ==
    ASSUME EngineTypes
    PROVE  LET covers == {o \in Covering : gate[o]}
           IN IF covers = {} THEN LastCovering = NoOverlay
              ELSE LastCovering \in covers /\ \A c \in covers : c <= LastCovering
<1>. DEFINE covers == {o \in Covering : gate[o]}
            depths == {NumOverlays - c : c \in covers}
<1>1. CASE covers = {}
  BY <1>1 DEF LastCovering
<1>2. CASE covers # {}
  <2>1. covers \subseteq 1..NumOverlays /\ NumOverlays \in Nat
    BY KindsAssumption, OverlaysAssumption DEF Overlays
  <2>2. depths \in SUBSET Nat /\ depths # {}
    BY <1>2, <2>1
  <2>3. PICK d \in depths : \A e \in depths : d <= e
    <3>. DEFINE below == {pair \in Nat \X Nat : pair[1] < pair[2]}
    <3>. HIDE DEF depths
    <3>1. IsWellFoundedOn(below, Nat)
      BY NatLessThanWellFounded DEF OpToRel
    <3>2. PICK d \in depths : \A e \in depths : <<e, d>> \notin below
      <4>. HIDE DEF below
      <4>. QED BY <2>2, <3>1, WFMin
    <3>3. \A e \in depths : ~(e < d) /\ e \in Nat /\ d \in Nat
      BY <2>2, <3>2
    <3>. QED BY <3>3
  <2>4. PICK o \in covers : d = NumOverlays - o
    BY <2>3
  <2>5. ASSUME NEW c \in covers PROVE c <= o
    <3>1. NumOverlays - c \in depths
      OBVIOUS
    <3>2. NumOverlays - o <= NumOverlays - c
      BY <2>3, <2>4, <3>1
    <3>. QED BY <2>1, <3>2
  <2>6. LastCovering = CHOOSE q \in covers : \A c \in covers : c <= q
    BY <1>2 DEF LastCovering
  <2>7. LastCovering \in covers /\ \A c \in covers : c <= LastCovering
    <3>. HIDE DEF covers
    <3>. QED BY <2>4, <2>5, <2>6
  <2>. QED BY <1>2, <2>7
<1>. QED BY <1>1, <1>2

LEMMA WantedIsVisible ==
    ASSUME EngineTypes, NEW o \in Overlays
    PROVE  Wanted(o) = Visible(o)
<1>. DEFINE covers == {q \in Covering : gate[q]}
<1>1. o \in Nat /\ covers \subseteq Nat
  <2>1. \A q \in Overlays : q \in Nat
    BY OverlaysAssumption DEF Overlays
  <2>. QED BY <2>1, KindsAssumption
<1>2. CASE covers = {}
  <2>1. LastCovering = 0
    BY <1>2, LastCoveringIsLast DEF NoOverlay
  <2>2. \A c \in Covering : ~gate[c]
    BY <1>2
  <2>3. allowed => First = 0
    BY <2>1 DEF First
  <2>4. allowed => o >= First
    BY <1>1, <2>3
  <2>. QED BY <2>2, <2>4 DEF Wanted, Visible
<1>3. CASE covers # {}
  <2>1. LastCovering \in covers /\ \A c \in covers : c <= LastCovering
    BY <1>3, LastCoveringIsLast
  <2>2. allowed => First = LastCovering
    BY DEF First
  <2>3. (LastCovering <= o) <=> (\A c \in covers : c <= o)
    <3>. HIDE DEF covers
    <3>. QED BY <1>1, <2>1
  <2>4. (\A c \in covers : c <= o) <=> (\A c \in Covering : gate[c] => c <= o)
    OBVIOUS
  <2>5. allowed => ((o >= First) <=> (\A c \in Covering : gate[c] => c <= o))
    BY <1>1, <2>1, <2>2, <2>3, <2>4
  <2>. QED BY <2>5 DEF Wanted, Visible
<1>. QED BY <1>2, <1>3

(* The rest of the invariant for a step of a pass, overlay by overlay.     *)
LEMMA VisibleKept ==
    ASSUME UNCHANGED <<gate, allowed>>, NEW o \in Overlays
    PROVE  Visible(o)' = Visible(o) /\ Wanted(o)' = Wanted(o)
BY DEF Visible, Wanted, First, LastCovering

LEMMA StartPassStep ==
    ASSUME EngineTypes, SceneInv, StartPass
    PROVE  EngineTypes' /\ SceneInv'
<1>1. /\ phase = "idle" /\ phase' = "deactivate" /\ ~repaint' /\ repaint' = FALSE
      /\ inputChanged' = FALSE /\ UNCHANGED <<gate, allowed, animating>>
      /\ scene' = [o \in Overlays |-> [scene[o] EXCEPT !.wanted = Wanted(o)]]
  BY DEF StartPass, control
<1>2. /\ paint' \in BOOLEAN /\ (repaint => paint')
  <2>1. PICK due \in BOOLEAN : paint' = (repaint \/ due)
    BY DEF StartPass
  <2>2. (repaint \/ due) \in BOOLEAN
    BY Zenon
  <2>. QED BY <2>1, <2>2
<1>3. ASSUME NEW o \in Overlays
      PROVE  /\ scene'[o] \in Scenes /\ Living(o, scene'[o])
             /\ scene'[o].wanted = Wanted(o) /\ scene'[o].part = scene[o].part
             /\ scene'[o].resetPending = scene[o].resetPending
  <2>. DEFINE x == scene[o]
              w == Wanted(o)
              y == [x EXCEPT !.wanted = w]
  <2>1. x \in Scenes /\ Living(o, x)
    BY DEF EngineTypes, SceneInv
  <2>2. w \in BOOLEAN
    BY Zenon DEF Wanted
  <2>3. scene'[o] = y
    BY <1>1
  <2>. HIDE DEF x, w
  <2>4. /\ y \in Scenes /\ y.wanted = w /\ y.part = x.part /\ y.active = x.active
        /\ y.live = x.live /\ y.resetPending = x.resetPending
        /\ y.resetRequested = x.resetRequested /\ y.instances = x.instances
    BY <2>1, <2>2 DEF Scenes
  <2>. HIDE DEF y
  <2>5. Sound(x.part)
    BY <2>1 DEF Living
  <2>6. Living(o, y)
    BY <2>1, <2>4, <2>5, RequestLives
  <2>. QED BY <2>3, <2>4, <2>6 DEF x, w
<1>4. scene' \in [Overlays -> Scenes]
  BY <1>1, <1>3
<1>5. EngineTypes'
  BY <1>1, <1>2, <1>4 DEF EngineTypes
<1>6. PassInv'
  BY <1>1, <1>3, VisibleKept DEF PassInv
<1>7. SettledInv'
  BY <1>1, <1>2, <1>3, VisibleKept DEF SceneInv, SettledInv
<1>. QED BY <1>3, <1>5, <1>6, <1>7 DEF SceneInv

(* A loop of a pass changes each overlay by itself; while nothing is to be *)
(* painted it leaves their activity and their clocks alone.                *)
LEMMA LoopStep ==
    ASSUME EngineTypes, SceneInv, NEW from, NEW to \in {"reset", "activate", "input"},
           from # "idle", InPass(from, to), scene' \in [Overlays -> Scenes],
           \A o \in Overlays :
              /\ Living(o, scene'[o]) /\ scene'[o].wanted = scene[o].wanted
              /\ to \in {"reset", "activate"} => (scene'[o].part.active => scene[o].wanted)
              /\ to \in {"activate", "input"} => ~scene'[o].resetPending
              /\ to = "input" => scene'[o].part.active = scene[o].wanted
              /\ scene[o].part.active = scene[o].wanted /\ ~scene[o].resetPending =>
                    /\ scene'[o].part.active = scene[o].wanted
                    /\ scene'[o].part.running = scene[o].part.running
                    /\ ~scene'[o].resetPending
    PROVE  EngineTypes' /\ SceneInv'
<1>1. /\ phase # "idle" /\ phase' = to
      /\ UNCHANGED <<gate, allowed, repaint, animating, paint, inputChanged>>
  BY DEF InPass, control
<1>2. EngineTypes'
  BY <1>1 DEF EngineTypes
<1>3. PassInv'
  BY <1>1, VisibleKept DEF SceneInv, PassInv
<1>4. SettledInv'
  <2>. SUFFICES ASSUME allowed, ~repaint, ~paint
                PROVE  /\ \A o \in Overlays :
                             scene'[o].part.active = Visible(o)' /\ ~scene'[o].resetPending
                       /\ animating' =
                             (\E o \in Overlays : Visible(o)' /\ scene'[o].part.running)
    BY <1>1 DEF SettledInv
  <2>1. /\ \A o \in Overlays :
              scene[o].part.active = Visible(o) /\ ~scene[o].resetPending
        /\ animating = (\E o \in Overlays : Visible(o) /\ scene[o].part.running)
    BY DEF SceneInv, SettledInv
  <2>2. \A o \in Overlays : scene[o].wanted = Visible(o)
    BY <1>1, WantedIsVisible DEF SceneInv, PassInv
  <2>3. ASSUME NEW o \in Overlays
        PROVE  /\ scene'[o].part.active = Visible(o)'
               /\ scene'[o].part.running = scene[o].part.running
               /\ ~scene'[o].resetPending /\ Visible(o)' = Visible(o)
    BY <1>1, <2>1, <2>2, VisibleKept
  <2>. QED BY <1>1, <2>1, <2>3
<1>. QED BY <1>2, <1>3, <1>4 DEF SceneInv

LEMMA DeactivateStep ==
    ASSUME EngineTypes, SceneInv, Deactivate
    PROVE  EngineTypes' /\ SceneInv'
<1>1. /\ InPass("deactivate", "reset")
      /\ scene' = [o \in Overlays |->
             IF scene[o].wanted THEN scene[o] ELSE ActivateOverlay(o, scene[o], FALSE)]
  BY DEF Deactivate
<1>2. ASSUME NEW o \in Overlays
      PROVE  /\ scene'[o] \in Scenes /\ Living(o, scene'[o])
             /\ scene'[o].wanted = scene[o].wanted
             /\ scene'[o].part.active => scene[o].wanted
             /\ scene[o].part.active = scene[o].wanted /\ ~scene[o].resetPending =>
                    /\ scene'[o].part.active = scene[o].wanted
                    /\ scene'[o].part.running = scene[o].part.running
                    /\ ~scene'[o].resetPending
  <2>. DEFINE x == scene[o]
              y == ActivateOverlay(o, x, FALSE)
  <2>1. x \in Scenes /\ Living(o, x)
    BY DEF EngineTypes, SceneInv
  <2>2. /\ y \in Scenes /\ Living(o, y) /\ y.part.active = FALSE /\ y.wanted = x.wanted
        /\ y.resetPending = x.resetPending /\ y.part.running = (x.part.running /\ FALSE)
    BY <2>1, ActivateLives
  <2>3. scene'[o] = IF x.wanted THEN x ELSE y
    BY <1>1
  <2>4. x.wanted \in BOOLEAN /\ x.part.running \in BOOLEAN /\ y.part.running \in BOOLEAN
        /\ (x.part.running => x.part.active)
    BY <2>1, <2>2 DEF Scenes, Participants, Living, Sound
  <2>. HIDE DEF x, y
  <2>5. CASE x.wanted
    BY <2>1, <2>3, <2>5 DEF x
  <2>6. CASE ~x.wanted
    <3>1. /\ x.wanted = FALSE /\ ~y.part.running
          /\ x.part.active = x.wanted => x.part.running = y.part.running
      BY <2>2, <2>4, <2>6
    <3>2. scene'[o] = y
      BY <2>3, <2>6
    <3>. QED BY <2>2, <3>1, <3>2 DEF x
  <2>. QED BY <2>5, <2>6
<1>3. scene' \in [Overlays -> Scenes]
  BY <1>1, <1>2
<1>. QED BY <1>1, <1>2, <1>3, LoopStep

LEMMA ResetStep ==
    ASSUME EngineTypes, SceneInv, Reset
    PROVE  EngineTypes' /\ SceneInv'
<1>1. /\ InPass("reset", "activate") /\ phase = "reset"
      /\ scene' = [o \in Overlays |->
             IF NeedsReset(scene[o])
             THEN [ResetOverlay(o, scene[o]) EXCEPT !.resetPending = FALSE] ELSE scene[o]]
  BY DEF Reset, InPass
<1>2. ASSUME NEW o \in Overlays
      PROVE  /\ scene'[o] \in Scenes /\ Living(o, scene'[o])
             /\ scene'[o].wanted = scene[o].wanted
             /\ scene'[o].part.active => scene[o].wanted
             /\ ~scene'[o].resetPending
             /\ scene[o].part.active = scene[o].wanted /\ ~scene[o].resetPending =>
                    /\ scene'[o].part.active = scene[o].wanted
                    /\ scene'[o].part.running = scene[o].part.running
  <2>. DEFINE x == scene[o]
              y == [ResetOverlay(o, x) EXCEPT !.resetPending = FALSE]
  <2>1. x \in Scenes /\ Living(o, x) /\ (x.part.active => x.wanted)
    BY <1>1 DEF EngineTypes, SceneInv, PassInv
  <2>2. /\ y \in Scenes /\ Living(o, y) /\ y.part.active = x.part.active
        /\ y.wanted = x.wanted /\ ~y.resetPending
    BY <2>1, ResetLives
  <2>3. scene'[o] = IF NeedsReset(x) THEN y ELSE x
    BY <1>1
  <2>4. ASSUME x.part.active = x.wanted, ~x.resetPending PROVE ~NeedsReset(x)
    BY <2>1, <2>4 DEF NeedsReset, Living, Sound
  <2>. HIDE DEF x, y
  <2>5. CASE NeedsReset(x)
    BY <2>1, <2>2, <2>3, <2>4, <2>5 DEF x
  <2>6. CASE ~NeedsReset(x)
    BY <2>1, <2>3, <2>6 DEF x, NeedsReset
  <2>. QED BY <2>5, <2>6
<1>3. scene' \in [Overlays -> Scenes]
  BY <1>1, <1>2
<1>. QED BY <1>1, <1>2, <1>3, LoopStep

LEMMA ActivateStep ==
    ASSUME EngineTypes, SceneInv, Activate
    PROVE  EngineTypes' /\ SceneInv'
<1>1. /\ InPass("activate", "input") /\ phase = "activate"
      /\ scene' = [o \in Overlays |->
             IF scene[o].wanted THEN ActivateOverlay(o, scene[o], TRUE) ELSE scene[o]]
  BY DEF Activate, InPass
<1>2. ASSUME NEW o \in Overlays
      PROVE  /\ scene'[o] \in Scenes /\ Living(o, scene'[o])
             /\ scene'[o].wanted = scene[o].wanted
             /\ scene'[o].part.active = scene[o].wanted
             /\ ~scene'[o].resetPending
             /\ scene[o].part.active = scene[o].wanted =>
                    scene'[o].part.running = scene[o].part.running
  <2>. DEFINE x == scene[o]
              y == ActivateOverlay(o, x, TRUE)
  <2>1. x \in Scenes /\ Living(o, x) /\ (x.part.active => x.wanted) /\ ~x.resetPending
    BY <1>1 DEF EngineTypes, SceneInv, PassInv
  <2>2. /\ y \in Scenes /\ Living(o, y) /\ y.part.active = TRUE /\ y.wanted = x.wanted
        /\ y.resetPending = x.resetPending /\ y.part.running = (x.part.running /\ TRUE)
    BY <2>1, ActivateLives
  <2>3. scene'[o] = IF x.wanted THEN y ELSE x
    BY <1>1
  <2>4. /\ x.wanted \in BOOLEAN /\ x.part.running \in BOOLEAN
        /\ x.part.active \in BOOLEAN
    BY <2>1 DEF Scenes, Participants
  <2>. HIDE DEF x, y
  <2>5. CASE x.wanted
    BY <2>1, <2>2, <2>3, <2>4, <2>5 DEF x
  <2>6. CASE ~x.wanted
    BY <2>1, <2>3, <2>4, <2>6 DEF x
  <2>. QED BY <2>5, <2>6
<1>3. scene' \in [Overlays -> Scenes]
  BY <1>1, <1>2
<1>. QED BY <1>1, <1>2, <1>3, LoopStep

(* Input and frames reach overlays that are active, and owe no reset.      *)
LEMMA DeliverStep ==
    ASSUME EngineTypes, SceneInv, DeliverInput
    PROVE  EngineTypes' /\ SceneInv'
<1>1. /\ phase = "input"
      /\ UNCHANGED <<gate, allowed, repaint, animating, phase, paint>>
      /\ scene' = [o \in Overlays |->
             IF gate[o] THEN InputToOverlay(o, scene[o]) ELSE scene[o]]
  BY DEF DeliverInput, control
<1>2. ASSUME NEW o \in Overlays
      PROVE  /\ scene'[o] \in Scenes /\ Living(o, scene'[o])
             /\ scene'[o].wanted = scene[o].wanted /\ scene'[o].part = scene[o].part
             /\ scene'[o].resetPending = scene[o].resetPending
  <2>1. scene[o] \in Scenes /\ Living(o, scene[o]) /\ ~scene[o].resetPending
    BY <1>1 DEF EngineTypes, SceneInv, PassInv
  <2>. QED BY <1>1, <2>1, InputLives
<1>3. scene' \in [Overlays -> Scenes]
  BY <1>1, <1>2
<1>4. inputChanged' \in BOOLEAN
  <2>1. PICK asked \in SUBSET {o \in Overlays : gate[o] /\ scene[o].part.active} :
           inputChanged' = InputChanged(asked)
    BY DEF DeliverInput
  <2>. QED BY <2>1, Zenon DEF InputChanged
<1>5. EngineTypes'
  BY <1>1, <1>3, <1>4 DEF EngineTypes
<1>6. PassInv'
  BY <1>1, <1>2, VisibleKept DEF SceneInv, PassInv
<1>7. SettledInv'
  BY <1>1, <1>2, VisibleKept DEF SceneInv, SettledInv
<1>. QED BY <1>2, <1>5, <1>6, <1>7 DEF SceneInv

LEMMA PaintStep ==
    ASSUME EngineTypes, SceneInv, Paint
    PROVE  EngineTypes' /\ SceneInv'
<1>1. /\ phase = "input" /\ phase' = "idle" /\ allowed
      /\ UNCHANGED <<gate, allowed, repaint, paint, inputChanged>>
  BY DEF Paint, control
<1>2. PICK late \in BOOLEAN, again \in [Rendered -> BOOLEAN] :
         /\ scene' = [o \in Overlays |->
                IF o \in Rendered THEN RenderOverlay(o, scene[o], late, again[o])
                ELSE scene[o]]
         /\ animating' = SceneAnimating(again)
  BY DEF Paint
<1>3. ASSUME NEW o \in Overlays
      PROVE  /\ scene[o] \in Scenes /\ Living(o, scene[o]) /\ ~scene[o].resetPending
             /\ scene[o].part.active = Visible(o)
             /\ (o \in Rendered) <=> Visible(o)
  <2>1. /\ scene[o] \in Scenes /\ Living(o, scene[o]) /\ ~scene[o].resetPending
        /\ scene[o].part.active = Wanted(o)
    BY <1>1 DEF EngineTypes, SceneInv, PassInv
  <2>2. (o \in Rendered) <=> Wanted(o)
    BY <1>1 DEF Rendered, Wanted
  <2>. QED BY <2>1, <2>2, WantedIsVisible
<1>4. ASSUME NEW o \in Overlays
      PROVE  /\ scene'[o] \in Scenes /\ Living(o, scene'[o])
             /\ ~scene'[o].resetPending /\ scene'[o].part.active = Visible(o)
             /\ Visible(o) => scene'[o].part.running = again[o]
  <2>1. CASE o \in Rendered
    <3>. DEFINE y == RenderOverlay(o, scene[o], late, again[o])
    <3>1. again[o] \in BOOLEAN /\ scene'[o] = y
      BY <1>2, <2>1
    <3>2. /\ y \in Scenes /\ Living(o, y)
          /\ y.part.active = scene[o].part.active
          /\ y.resetPending = scene[o].resetPending
          /\ y.part.running =
                (IF scene[o].part.active THEN again[o] ELSE scene[o].part.running)
      BY <1>3, <3>1, RenderLives
    <3>. HIDE DEF y
    <3>. QED BY <1>3, <2>1, <3>1, <3>2
  <2>2. CASE o \notin Rendered
    BY <1>2, <1>3, <2>2
  <2>. QED BY <2>1, <2>2
<1>5. scene' \in [Overlays -> Scenes]
  BY <1>2, <1>4
<1>6. /\ animating' \in BOOLEAN
      /\ animating' = (\E o \in Overlays : Visible(o) /\ scene'[o].part.running)
  <2>1. animating' = (\E o \in Rendered : again[o])
    BY <1>2 DEF SceneAnimating
  <2>2. (\E o \in Rendered : again[o]) <=>
           (\E o \in Overlays : Visible(o) /\ scene'[o].part.running)
    BY <1>3, <1>4 DEF Rendered
  <2>. QED BY <2>1, <2>2
<1>7. EngineTypes'
  BY <1>1, <1>5, <1>6 DEF EngineTypes
<1>8. PassInv'
  BY <1>1 DEF PassInv
<1>9. SettledInv'
  BY <1>1, <1>4, <1>6, VisibleKept DEF SettledInv
<1>. QED BY <1>4, <1>7, <1>8, <1>9 DEF SceneInv

LEMMA LeaveStep ==
    ASSUME EngineTypes, SceneInv, LeaveUnpainted
    PROVE  EngineTypes' /\ SceneInv'
<1>1. /\ phase' = "idle" /\ (allowed => ~paint)
      /\ UNCHANGED <<scene, gate, allowed, repaint, animating, paint, inputChanged>>
  BY DEF LeaveUnpainted, control
<1>2. EngineTypes'
  BY <1>1 DEF EngineTypes
<1>3. PassInv'
  BY <1>1 DEF PassInv
<1>4. SettledInv'
  BY <1>1, VisibleKept DEF SceneInv, SettledInv
<1>. QED BY <1>1, <1>2, <1>3, <1>4 DEF SceneInv

-----------------------------------------------------------------------------
(* The composite strip *)

(* A set with each number whose predecessors it has, has them all.         *)
LEMMA AllNumbers ==
    ASSUME NEW S, \A n \in Nat : (\A m \in Nat : m < n => m \in S) => n \in S
    PROVE  \A n \in Nat : n \in S
<1>. DEFINE below == {pair \in Nat \X Nat : pair[1] < pair[2]}
            rest == Nat \ S
<1>1. IsWellFoundedOn(below, Nat)
  BY NatLessThanWellFounded DEF OpToRel
<1>2. ASSUME rest # {} PROVE FALSE
  <2>1. PICK n \in rest : \A m \in rest : <<m, n>> \notin below
    <3>. HIDE DEF below
    <3>1. rest \subseteq Nat
      OBVIOUS
    <3>. HIDE DEF rest
    <3>. QED BY <1>1, <1>2, <3>1, WFMin
  <2>2. \A m \in Nat : m < n => m \in S
    BY <2>1
  <2>. QED BY <2>2
<1>. QED BY <1>2

NumChildren == Len(ChildLengths)
LengthAt(f, i) == IF i = 0 THEN 0 ELSE f[i - 1] + ChildLengths[i]

LEMMA ChildTypes ==
    /\ NumChildren \in Nat /\ NumChildren > 0 /\ Children = 1..NumChildren
    /\ \A c \in Children : ChildLengths[c] \in Nat /\ ChildLengths[c] > 0
BY ChildrenAssumption DEF NumChildren, Children

LEMMA LengthSolves ==
    ASSUME NEW f, f = [i \in 0..NumChildren |-> LengthAt(f, i)]
    PROVE  LengthUpTo = [i \in 0..NumChildren |-> LengthAt(LengthUpTo, i)]
<1>1. LengthUpTo = CHOOSE g : g = [i \in 0..NumChildren |-> LengthAt(g, i)]
  BY DEF LengthUpTo, LengthAt, NumChildren
<1>. QED BY <1>1

LEMMA LengthDefined == LengthUpTo = [i \in 0..NumChildren |-> LengthAt(LengthUpTo, i)]
<1>. DEFINE Solves(f, n) == f = [i \in 0..n |-> LengthAt(f, i)]
            S == {n \in Nat : n <= NumChildren => \E f : Solves(f, n)}
<1>1. ASSUME NEW n \in Nat, \A m \in Nat : m < n => m \in S PROVE n \in S
  <2>. SUFFICES ASSUME n <= NumChildren PROVE \E f : Solves(f, n)
    OBVIOUS
  <2>1. CASE n = 0
    <3>. DEFINE g == [i \in 0..0 |-> 0]
    <3>1. \A i \in 0..0 : LengthAt(g, i) = 0
      BY DEF LengthAt
    <3>. HIDE DEF LengthAt
    <3>2. Solves(g, n)
      BY <2>1, <3>1
    <3>. QED BY <3>2
  <2>2. CASE n # 0
    <3>1. n - 1 \in S
      <4>. HIDE DEF S
      <4>. QED BY <1>1, <2>2
    <3>2. PICK f : Solves(f, n - 1)
      <4>. HIDE DEF Solves
      <4>. QED BY <3>1, ChildTypes
    <3>. DEFINE g == [i \in 0..n |-> LengthAt(f, i)]
    <3>3. ASSUME NEW i \in 0..n PROVE LengthAt(g, i) = LengthAt(f, i)
      <4>1. ASSUME i # 0 PROVE i - 1 \in 0..n /\ i - 1 \in 0..(n - 1)
        BY <4>1
      <4>2. ASSUME i # 0 PROVE g[i - 1] = f[i - 1]
        BY <3>2, <4>1, <4>2
      <4>. QED BY <4>2 DEF LengthAt
    <3>4. Solves(g, n)
      BY <3>3
    <3>. QED BY <3>4
  <2>. QED BY <2>1, <2>2
<1>2. NumChildren \in S
  <2>. HIDE DEF S
  <2>. QED BY <1>1, AllNumbers, ChildTypes
<1>3. PICK f : Solves(f, NumChildren)
  <2>. HIDE DEF Solves
  <2>. QED BY <1>2, ChildTypes
<1>. QED BY <1>3, LengthSolves

(* Where a child's pixels end: after those before it, and within the strip. *)
LEMMA LengthStep ==
    ASSUME NEW i \in 0..NumChildren
    PROVE  LengthUpTo[i] = IF i = 0 THEN 0 ELSE LengthUpTo[i - 1] + ChildLengths[i]
BY LengthDefined, Zenon DEF LengthAt

LEMMA LengthWithin ==
    /\ CompositeLength \in Nat
    /\ \A i \in 0..NumChildren : LengthUpTo[i] \in Nat /\ LengthUpTo[i] <= CompositeLength
<1>. DEFINE N == {i \in Nat : i <= NumChildren => LengthUpTo[i] \in Nat}
            W == {n \in Nat : n <= NumChildren =>
                     LengthUpTo[NumChildren - n] <= LengthUpTo[NumChildren]}
<1>1. ASSUME NEW n \in Nat, \A m \in Nat : m < n => m \in N PROVE n \in N
  <2>. SUFFICES ASSUME n <= NumChildren PROVE LengthUpTo[n] \in Nat
    OBVIOUS
  <2>1. CASE n = 0
    BY <2>1, LengthStep, ChildTypes
  <2>2. CASE n # 0
    <3>1. n - 1 \in N
      <4>. HIDE DEF N
      <4>. QED BY <1>1, <2>2
    <3>. QED BY <2>2, <3>1, LengthStep, ChildTypes
  <2>. QED BY <2>1, <2>2
<1>2. \A n \in Nat : n \in N
  <2>. HIDE DEF N
  <2>. QED BY <1>1, AllNumbers
<1>3. \A i \in 0..NumChildren : LengthUpTo[i] \in Nat
  BY <1>2, ChildTypes
<1>4. ASSUME NEW n \in Nat, \A m \in Nat : m < n => m \in W PROVE n \in W
  <2>. SUFFICES ASSUME n <= NumChildren
                PROVE  LengthUpTo[NumChildren - n] <= LengthUpTo[NumChildren]
    OBVIOUS
  <2>1. CASE n = 0
    BY <1>3, <2>1, ChildTypes
  <2>2. CASE n # 0
    <3>1. n - 1 \in W
      <4>. HIDE DEF W
      <4>. QED BY <1>4, <2>2
    <3>. DEFINE j == NumChildren - (n - 1)
    <3>2. /\ j \in 0..NumChildren /\ j # 0 /\ j - 1 = NumChildren - n
          /\ j - 1 \in 0..NumChildren /\ j \in Children
      BY <2>2, ChildTypes
    <3>3. LengthUpTo[j] <= LengthUpTo[NumChildren]
      BY <2>2, <3>1, ChildTypes
    <3>. HIDE DEF j
    <3>4. LengthUpTo[j] = LengthUpTo[j - 1] + ChildLengths[j]
      BY <3>2, LengthStep
    <3>5. LengthUpTo[j - 1] <= LengthUpTo[NumChildren]
      BY <1>3, <3>2, <3>3, <3>4, ChildTypes
    <3>. QED BY <3>2, <3>5
  <2>. QED BY <2>1, <2>2
<1>5. \A n \in Nat : n \in W
  <2>. HIDE DEF W
  <2>. QED BY <1>4, AllNumbers
<1>6. ASSUME NEW i \in 0..NumChildren PROVE LengthUpTo[i] <= LengthUpTo[NumChildren]
  <2>1. NumChildren - i \in W /\ NumChildren - i \in Nat /\ NumChildren - i <= NumChildren
        /\ NumChildren - (NumChildren - i) = i
    BY <1>5, ChildTypes
  <2>. QED BY <2>1
<1>7. CompositeLength = LengthUpTo[NumChildren] /\ NumChildren \in 0..NumChildren
  BY ChildTypes DEF CompositeLength, NumChildren
<1>. QED BY <1>3, <1>6, <1>7

(* The loop of an update after i children. *)
Iteration(f, i, pixels, failing) ==
    IF i = 0 THEN [offset |-> 0, slices |-> [c \in Children |-> Unspecified]]
    ELSE LET loop == f[i - 1]
             left == Len(pixels) - loop.offset
             count == IF ChildLengths[i] < left THEN ChildLengths[i] ELSE left
             slice == SubSeq(pixels, loop.offset + 1, loop.offset + count)
         IN IF left = 0 THEN loop
            ELSE [offset |-> NextOffset(loop.offset, count, i \in failing),
                  slices |-> [loop.slices EXCEPT
                      ![i] = IF i \in failing THEN Unspecified ELSE slice]]

LEMMA UpdateSolves ==
    ASSUME NEW pixels, NEW failing, NEW f,
           f = [i \in 0..NumChildren |-> Iteration(f, i, pixels, failing)]
    PROVE  \E g : /\ g = [i \in 0..NumChildren |-> Iteration(g, i, pixels, failing)]
                  /\ CompositeUpdate(pixels, failing) = g[NumChildren].slices
<1>. DEFINE g == CHOOSE h : h = [i \in 0..NumChildren |-> Iteration(h, i, pixels, failing)]
<1>1. g = [i \in 0..NumChildren |-> Iteration(g, i, pixels, failing)]
  <2>. HIDE DEF Iteration
  <2>. QED OBVIOUS
<1>2. CompositeUpdate(pixels, failing) = g[NumChildren].slices
  BY DEF CompositeUpdate, Iteration, NumChildren
<1>. HIDE DEF g
<1>. QED BY <1>1, <1>2

(* An update gives every child that does not fail its own pixels.          *)
LEMMA EveryoneGetsHis ==
    ASSUME NEW P, NEW pixels \in Seq(P), Len(pixels) = CompositeLength, NEW failing
    PROVE  CompositeUpdate(pixels, failing) =
              [c \in Children |-> IF c \in failing THEN Unspecified
                                  ELSE SubSeq(pixels, LengthUpTo[c - 1] + 1, LengthUpTo[c])]
<1>. DEFINE own(c) == IF c \in failing THEN Unspecified
                      ELSE SubSeq(pixels, LengthUpTo[c - 1] + 1, LengthUpTo[c])
            g == [i \in 0..NumChildren |->
                     [offset |-> LengthUpTo[i],
                      slices |-> [c \in Children |-> IF c <= i THEN own(c) ELSE Unspecified]]]
            body(f, i) == Iteration(f, i, pixels, failing)
<1>1. ASSUME NEW i \in 0..NumChildren PROVE g[i] = body(g, i)
  <2>1. CASE i = 0
    <3>1. g[0] = [offset |-> LengthUpTo[0],
                  slices |-> [c \in Children |-> IF c <= 0 THEN own(c) ELSE Unspecified]]
      BY <2>1
    <3>2. LengthUpTo[0] = 0
      BY <2>1, LengthStep
    <3>3. \A c \in Children : ~(c <= 0)
      BY ChildTypes
    <3>. HIDE DEF g, own
    <3>. QED BY <2>1, <3>1, <3>2, <3>3 DEF Iteration
  <2>2. CASE i # 0
    <3>. DEFINE loop == g[i - 1]
                left == Len(pixels) - loop.offset
                count == IF ChildLengths[i] < left THEN ChildLengths[i] ELSE left
                slice == SubSeq(pixels, loop.offset + 1, loop.offset + count)
    <3>1. i \in Children /\ i - 1 \in 0..NumChildren
      BY <2>2, ChildTypes
    <3>2. /\ loop.offset = LengthUpTo[i - 1]
          /\ loop.slices = [c \in Children |-> IF c <= i - 1 THEN own(c) ELSE Unspecified]
      BY <3>1
    <3>. HIDE DEF g, loop
    <3>3. /\ LengthUpTo[i - 1] \in Nat /\ LengthUpTo[i] \in Nat
          /\ LengthUpTo[i] = LengthUpTo[i - 1] + ChildLengths[i]
          /\ LengthUpTo[i] <= CompositeLength /\ CompositeLength \in Nat
          /\ ChildLengths[i] \in Nat /\ ChildLengths[i] > 0
      BY <2>2, <3>1, LengthStep, LengthWithin, ChildTypes
    <3>4. left # 0 /\ count = ChildLengths[i] /\ loop.offset + count = LengthUpTo[i]
      BY <3>2, <3>3
    <3>. HIDE DEF left, count
    <3>5. (IF i \in failing THEN Unspecified ELSE slice) = own(i)
      BY <3>2, <3>4
    <3>6. body(g, i) = [offset |-> LengthUpTo[i],
                        slices |-> [loop.slices EXCEPT ![i] = own(i)]]
      BY <2>2, <3>4, <3>5, Zenon DEF Iteration, NextOffset, loop, left, count
    <3>. HIDE DEF slice, own
    <3>7. [loop.slices EXCEPT ![i] = own(i)]
             = [c \in Children |-> IF c <= i THEN own(c) ELSE Unspecified]
      <4>1. \A c \in Children : c <= i <=> (c <= i - 1 \/ c = i)
        BY <3>1, ChildTypes
      <4>. QED BY <3>1, <3>2, <4>1
    <3>8. g[i] = [offset |-> LengthUpTo[i],
                  slices |-> [c \in Children |-> IF c <= i THEN own(c) ELSE Unspecified]]
      BY DEF g
    <3>. QED BY <3>6, <3>7, <3>8
  <2>. QED BY <2>1, <2>2
<1>. HIDE DEF Iteration
<1>2. g = [i \in 0..NumChildren |-> body(g, i)]
  BY <1>1
<1>. HIDE DEF body
<1>3. PICK h : /\ h = [i \in 0..NumChildren |-> body(h, i)]
               /\ CompositeUpdate(pixels, failing) = h[NumChildren].slices
  <2>. HIDE DEF g
  <2>. QED BY <1>2, UpdateSolves DEF body
<1>. DEFINE S == {n \in Nat : n <= NumChildren => h[n] = g[n]}
<1>. HIDE DEF g
<1>4. ASSUME NEW n \in Nat, \A m \in Nat : m < n => m \in S PROVE n \in S
  <2>. SUFFICES ASSUME n <= NumChildren PROVE h[n] = g[n]
    OBVIOUS
  <2>1. ASSUME n # 0 PROVE h[n - 1] = g[n - 1]
    <3>1. n - 1 \in S
      <4>. HIDE DEF S
      <4>. QED BY <1>4, <2>1
    <3>2. n - 1 <= NumChildren
      BY <2>1, ChildTypes
    <3>. QED BY <3>1, <3>2
  <2>2. body(h, n) = body(g, n)
    BY <2>1 DEF body, Iteration
  <2>3. h[n] = body(h, n) /\ g[n] = body(g, n)
    <3>1. n \in 0..NumChildren
      BY ChildTypes
    <3>. QED BY <1>2, <1>3, <3>1, Zenon
  <2>. QED BY <2>2, <2>3
<1>5. NumChildren \in S
  <2>. HIDE DEF S
  <2>. QED BY <1>4, AllNumbers, ChildTypes
<1>6. h[NumChildren] = g[NumChildren]
  BY <1>5, ChildTypes
<1>7. g[NumChildren].slices = [c \in Children |-> own(c)]
  <2>1. g[NumChildren].slices =
           [c \in Children |-> IF c <= NumChildren THEN own(c) ELSE Unspecified]
    <3>1. NumChildren \in 0..NumChildren
      BY ChildTypes
    <3>. HIDE DEF own
    <3>. QED BY <3>1 DEF g
  <2>2. \A c \in Children : c <= NumChildren
    BY ChildTypes
  <2>. HIDE DEF own
  <2>. QED BY <2>1, <2>2
<1>. QED BY <1>3, <1>6, <1>7

-----------------------------------------------------------------------------
(* The theorems *)

LEMMA InitScene == Init => EngineTypes /\ SceneInv
<1>. SUFFICES ASSUME Init PROVE EngineTypes /\ SceneInv
  OBVIOUS
<1>1. Unborn \in Participants /\ Sound(Unborn)
  BY DEF Unborn, Participants, Sound
<1>2. /\ Unborn.active = FALSE /\ Unborn.running = FALSE /\ Unborn.owed = FALSE
  BY DEF Unborn
<1>. DEFINE child == [part |-> Unborn, pending |-> FALSE]
            i == [s \in Slots |-> child]
<1>3. i \in [Slots -> Instances] /\ 1 \in Slots /\ NoSlot \notin Slots
  BY <1>1, OverlaysAssumption DEF Instances, Slots, NoSlot
<1>4. \A s \in Slots : i[s].part = Unborn
  OBVIOUS
<1>. DEFINE x == InitialScene
<1>5. /\ x.part = Unborn /\ x.resetPending = FALSE /\ x.active = FALSE
      /\ x.live = NoSlot /\ x.instances = i
  BY DEF InitialScene
<1>6. x \in Scenes
  BY <1>1, <1>3 DEF InitialScene, Scenes
<1>. HIDE DEF i, x
<1>7. ASSUME NEW o \in Overlays PROVE Living(o, x)
  <2>1. Coherent(x)
    BY <1>2, <1>3, <1>4, <1>5 DEF Coherent
  <2>. QED BY <1>1, <1>2, <1>4, <1>5, <2>1 DEF Living
<1>8. scene = [o \in Overlays |-> x]
  BY DEF Init, x
<1>9. EngineTypes
  BY <1>6, <1>8 DEF Init, EngineTypes
<1>. QED BY <1>7, <1>8, <1>9 DEF Init, SceneInv, PassInv, SettledInv

LEMMA SceneStep == EngineTypes /\ SceneInv /\ [Next]_vars => EngineTypes' /\ SceneInv'
<1>. SUFFICES ASSUME EngineTypes, SceneInv, [Next]_vars PROVE EngineTypes' /\ SceneInv'
  OBVIOUS
<1>1. CASE ClientNext
  <2>1. EngineTypes' /\ Lives' /\ phase' = "idle" /\ repaint'
    BY <1>1, ClientLives DEF SceneInv, Lives
  <2>. QED BY <2>1 DEF SceneInv, Lives, PassInv, SettledInv
<1>2. CASE PassNext
  BY <1>2, StartPassStep, DeactivateStep, ResetStep, ActivateStep, DeliverStep, PaintStep,
     LeaveStep DEF PassNext
<1>3. CASE UNCHANGED vars
  BY <1>3, VisibleKept DEF vars, control, EngineTypes, SceneInv, PassInv, SettledInv
<1>. QED BY <1>1, <1>2, <1>3 DEF Next

(* Between and within passes, whatever gates, selections, resets and       *)
(* outputs were set: the engine's bookkeeping agrees with what its         *)
(* participants have seen (SceneInv).                                      *)
THEOREM SceneSound == Spec => [](EngineTypes /\ SceneInv)
BY InitScene, SceneStep, PTL DEF Spec

LEMMA NoBreach ==
    ASSUME SceneInv, NEW p \in Everyone
    PROVE  p.breaches = {}
<1>1. \A o \in Overlays : /\ Sound(scene[o].part)
                          /\ \A s \in Slots : Sound(scene[o].instances[s].part)
  BY DEF SceneInv, Living
<1>. QED BY <1>1 DEF Everyone, Sound

(* Callbacks come in order: reset first, each change of activity once, and *)
(* input and frames to active participants only.                           *)
THEOREM CallbacksKept == Spec => []CallbacksOrdered
<1>1. SceneInv => CallbacksOrdered
  BY NoBreach DEF CallbacksOrdered
<1>. QED BY <1>1, SceneSound, PTL

(* A reset reaches every effect before it is next active.                  *)
THEOREM ResetsArrive == Spec => []ResetsReach
<1>1. SceneInv => ResetsReach
  BY NoBreach DEF ResetsReach
<1>. QED BY <1>1, SceneSound, PTL

(* A frame's elapsed time is that since the frame which asked for it.      *)
THEOREM ClocksKept == Spec => []TimeKept
<1>1. SceneInv => TimeKept
  BY NoBreach DEF TimeKept
<1>. QED BY <1>1, SceneSound, PTL

(* What is served is what is selected.                                     *)
THEOREM SelectionServed == Spec => []SelectionFollowed
<1>1. SceneInv => SelectionFollowed
  BY NoBreach DEF SelectionFollowed
<1>. QED BY <1>1, SceneSound, PTL

(* Exactly the overlays that no covering one hides are served, and one of  *)
(* them that asked for a frame has it planned.                             *)
THEOREM VisibleServed == Spec => []OnlyVisibleServed
<1>1. EngineTypes /\ SceneInv => OnlyVisibleServed
  <2>. SUFFICES ASSUME EngineTypes, SceneInv PROVE OnlyVisibleServed
    OBVIOUS
  <2>1. OccludedInactive
    BY WantedIsVisible DEF OccludedInactive, SceneInv, PassInv
  <2>2. AnimationSustained
    BY DEF AnimationSustained, SceneInv, SettledInv
  <2>. QED BY <2>1, <2>2 DEF OnlyVisibleServed
<1>. QED BY <1>1, SceneSound, PTL

(* The picture.  What shows changes only with a repaint; a painted frame   *)
(* is the composition of the overlays that show.                           *)
LEMMA IndexKept ==
    ASSUME EngineTypes, SceneInv, PassNext, NEW o \in Overlays
    PROVE  scene'[o].index = scene[o].index
<1>1. scene[o] \in Scenes /\ Living(o, scene[o])
  BY DEF EngineTypes, SceneInv
<1>2. CASE StartPass
  <2>1. scene'[o] = [scene[o] EXCEPT !.wanted = Wanted(o)]
    BY <1>2 DEF StartPass
  <2>. QED BY <1>1, <2>1 DEF Scenes
<1>3. CASE Deactivate
  BY <1>1, <1>3, ActivateLives DEF Deactivate
<1>4. CASE Reset
  BY <1>1, <1>4, ResetLives DEF Reset
<1>5. CASE Activate
  <2>1. ~scene[o].resetPending
    BY <1>5 DEF Activate, InPass, SceneInv, PassInv
  <2>2. scene'[o] = IF scene[o].wanted THEN ActivateOverlay(o, scene[o], TRUE) ELSE scene[o]
    BY <1>5 DEF Activate
  <2>3. CASE scene[o].wanted
    <3>1. TRUE \in BOOLEAN /\ (TRUE => ~scene[o].resetPending)
      BY <2>1
    <3>2. ActivateOverlay(o, scene[o], TRUE).index = scene[o].index
      BY <1>1, <3>1, ActivateLives, Zenon
    <3>. QED BY <2>2, <2>3, <3>2
  <2>4. CASE ~scene[o].wanted
    BY <2>2, <2>4
  <2>. QED BY <2>3, <2>4
<1>6. CASE DeliverInput
  <2>1. ~scene[o].resetPending
    BY <1>6 DEF DeliverInput, SceneInv, PassInv
  <2>. QED BY <1>1, <1>6, <2>1, InputLives DEF DeliverInput
<1>7. CASE Paint
  <2>1. ~scene[o].resetPending
    BY <1>7 DEF Paint, SceneInv, PassInv
  <2>2. PICK late \in BOOLEAN, again \in [Rendered -> BOOLEAN] :
           scene' = [q \in Overlays |->
                  IF q \in Rendered THEN RenderOverlay(q, scene[q], late, again[q])
                  ELSE scene[q]]
    BY <1>7 DEF Paint
  <2>. QED BY <1>1, <2>1, <2>2, RenderLives
<1>8. CASE LeaveUnpainted
  BY <1>8 DEF LeaveUnpainted
<1>. QED BY <1>2, <1>3, <1>4, <1>5, <1>6, <1>7, <1>8 DEF PassNext

LEMMA PictureKept ==
    ASSUME UNCHANGED <<gate, allowed, strips>>,
           \A o \in Overlays : scene'[o].index = scene[o].index
    PROVE  PictureShown' = PictureShown
<1>1. Composition' = Composition
  BY VisibleKept DEF Composition
<1>. QED BY <1>1 DEF PictureShown

LEMMA PaintComposes ==
    ASSUME EngineTypes, SceneInv, Paint
    PROVE  Composed(scene') = Composition' /\ Composition' \in Pictures
<1>1. phase = "input" /\ allowed /\ UNCHANGED <<gate, allowed>>
  BY DEF Paint, control
<1>2. PICK late \in BOOLEAN, again \in [Rendered -> BOOLEAN] :
         scene' = [o \in Overlays |->
                IF o \in Rendered THEN RenderOverlay(o, scene[o], late, again[o])
                ELSE scene[o]]
  BY DEF Paint
<1>3. ASSUME NEW o \in Overlays
      PROVE  /\ (o \in Rendered /\ scene'[o].part.active) <=> Visible(o)'
             /\ Visible(o)' /\ o \in Choosing => scene'[o].live = scene'[o].index
             /\ scene'[o].index \in Slots
  <2>1. /\ scene[o] \in Scenes /\ Living(o, scene[o]) /\ ~scene[o].resetPending
        /\ scene[o].part.active = Wanted(o) /\ Wanted(o) = Visible(o)
    BY <1>1, WantedIsVisible DEF EngineTypes, SceneInv, PassInv
  <2>2. (o \in Rendered) <=> Wanted(o)
    BY <1>1 DEF Rendered, Wanted
  <2>3. Visible(o)' = Visible(o)
    BY <1>1, VisibleKept
  <2>4. scene'[o].index \in Slots
    BY <2>1, IndexKept DEF PassNext, Scenes
  <2>5. CASE o \in Rendered
    <3>. DEFINE y == RenderOverlay(o, scene[o], late, again[o])
    <3>1. again[o] \in BOOLEAN /\ scene'[o] = y
      BY <1>2, <2>5
    <3>2. /\ y.part.active = scene[o].part.active
          /\ scene[o].part.active /\ o \in Choosing => y.live = y.index
      BY <2>1, <3>1, RenderLives
    <3>. HIDE DEF y
    <3>. QED BY <2>1, <2>2, <2>3, <2>4, <2>5, <3>1, <3>2
  <2>6. CASE o \notin Rendered
    BY <2>1, <2>2, <2>3, <2>4, <2>6
  <2>. QED BY <2>5, <2>6
<1>4. Composed(scene') = Composition'
  BY <1>3 DEF Composed, Composition, EffectOf
<1>5. 1 \in Slots
  BY OverlaysAssumption DEF Slots
<1>6. Composition' \in Pictures
  BY <1>3, <1>5 DEF Composition, Pictures
<1>. QED BY <1>4, <1>6

(* The slice of a child in the pixels of a picture.                        *)
LEMMA SliceOfPicture ==
    ASSUME NEW picture \in Pictures, NEW c \in Children
    PROVE  LET pixels == PixelsOf(picture)
           IN SubSeq(pixels, LengthUpTo[c - 1] + 1, LengthUpTo[c])
                 = [k \in 1..ChildLengths[c] |->
                       [picture |-> picture, led |-> LengthUpTo[c - 1] + k]]
<1>. DEFINE from == LengthUpTo[c - 1]
            size == ChildLengths[c]
            pixels == PixelsOf(picture)
<1>1. c \in 0..NumChildren /\ c # 0 /\ c - 1 \in 0..NumChildren
  BY ChildTypes
<1>2. LengthUpTo[c] = from + size
  BY <1>1, LengthStep
<1>3. /\ from \in Nat /\ size \in Nat /\ from + size <= CompositeLength
      /\ CompositeLength \in Nat
  BY <1>1, <1>2, LengthWithin, ChildTypes
<1>. HIDE DEF from, size
<1>4. \A k \in 1..CompositeLength : pixels[k] = [picture |-> picture, led |-> k]
  BY DEF PixelsOf
<1>5. SubSeq(pixels, from + 1, from + size) = [k \in 1..size |-> pixels[k + (from + 1) - 1]]
  <2>1. from + size - (from + 1) + 1 = size
    BY <1>3
  <2>. QED BY <1>3, <2>1 DEF PixelsOf
<1>6. ASSUME NEW k \in 1..size
      PROVE  pixels[k + (from + 1) - 1] = [picture |-> picture, led |-> from + k]
  <2>1. k + (from + 1) - 1 = from + k /\ from + k \in 1..CompositeLength
    BY <1>3
  <2>. QED BY <1>4, <2>1
<1>. HIDE DEF pixels
<1>7. SubSeq(pixels, from + 1, from + size)
         = [k \in 1..size |-> [picture |-> picture, led |-> from + k]]
  BY <1>5, <1>6
<1>. QED BY <1>2, <1>7 DEF from, size, pixels

LEMMA PaintShows ==
    ASSUME EngineTypes, SceneInv, Paint
    PROVE  /\ PictureShown'
           /\ strips' \in [Children -> Seq([picture : Pictures, led : 1..CompositeLength])]
<1>. DEFINE picture == Composition'
            Pixels == [picture : Pictures, led : 1..CompositeLength]
<1>1. picture \in Pictures
  BY PaintComposes
<1>2. PICK failing \in SUBSET Children :
         strips' = CompositeUpdate(PixelsOf(picture), failing)
  BY PaintComposes, Zenon DEF Paint
<1>. HIDE DEF picture
<1>3. PixelsOf(picture) \in Seq(Pixels) /\ Len(PixelsOf(picture)) = CompositeLength
  BY <1>1, LengthWithin DEF PixelsOf
<1>4. strips' = [c \in Children |-> IF c \in failing THEN Unspecified
                    ELSE SubSeq(PixelsOf(picture), LengthUpTo[c - 1] + 1, LengthUpTo[c])]
  BY <1>2, <1>3, EveryoneGetsHis
<1>5. ASSUME NEW c \in Children
      PROVE  strips'[c] = Unspecified
             \/ strips'[c] = [k \in 1..ChildLengths[c] |->
                                [picture |-> picture, led |-> LengthUpTo[c - 1] + k]]
  BY <1>1, <1>4, SliceOfPicture
<1>6. ASSUME NEW c \in Children PROVE strips'[c] \in Seq(Pixels)
  <2>1. ASSUME NEW k \in 1..ChildLengths[c]
        PROVE  LengthUpTo[c - 1] + k \in 1..CompositeLength
    <3>1. c \in 0..NumChildren /\ c # 0 /\ c - 1 \in 0..NumChildren
      BY ChildTypes
    <3>2. LengthUpTo[c] = LengthUpTo[c - 1] + ChildLengths[c]
      BY <3>1, LengthStep
    <3>. QED BY <3>1, <3>2, LengthWithin, ChildTypes
  <2>2. [k \in 1..ChildLengths[c] |->
            [picture |-> picture, led |-> LengthUpTo[c - 1] + k]] \in Seq(Pixels)
    <3> DEFINE length == ChildLengths[c]
               pixel(k) == [picture |-> picture, led |-> LengthUpTo[c - 1] + k]
    <3>1. length \in Nat
      BY ChildTypes
    <3>2. \A k \in 1..length : pixel(k) \in Pixels
      BY <1>1, <2>1
    <3>. HIDE DEF length, pixel
    <3>3. [k \in 1..length |-> pixel(k)] \in Seq(Pixels)
      BY <3>1, <3>2
    <3>. QED BY <3>3 DEF length, pixel
  <2>3. Unspecified \in Seq(Pixels)
    BY DEF Unspecified
  <2>. QED BY <1>5, <2>2, <2>3
<1>7. strips' \in [Children -> Seq(Pixels)]
  BY <1>4, <1>6
<1>. QED BY <1>5, <1>7 DEF PictureShown, picture

LEMMA StripsLeft ==
    [Next]_vars => Paint \/ UNCHANGED strips
BY DEF Next, ClientNext, PassNext, SetGate, SelectSlot, ResetSelector, ResetState,
       SwitchOutput, Operation, StartPass, Deactivate, Reset, Activate, InPass,
       DeliverInput, LeaveUnpainted, vars

LEMMA PictureStep ==
    EngineTypes /\ SceneInv /\ PictureInv /\ [Next]_vars => PictureInv'
<1>. SUFFICES ASSUME EngineTypes, SceneInv, PictureInv, [Next]_vars,
                     allowed', ~repaint', phase' = "idle" \/ ~paint'
              PROVE  PictureShown'
  BY DEF PictureInv
<1>1. CASE ClientNext
  BY <1>1 DEF ClientNext, SetGate, SelectSlot, ResetSelector, ResetState, SwitchOutput,
              Operation
<1>2. CASE Paint
  BY <1>2, PaintShows
<1>3. CASE PassNext /\ ~Paint
  <2>1. /\ UNCHANGED <<gate, allowed, strips>>
        /\ allowed /\ ~repaint /\ (phase = "idle" \/ ~paint)
    <3>1. CASE StartPass
      BY <3>1 DEF StartPass, control, EngineTypes
    <3>2. CASE Deactivate \/ Reset \/ Activate
      <4>1. PICK to \in {"reset", "activate", "input"} :
               \E from \in {"deactivate", "reset", "activate"} : InPass(from, to)
        BY <3>2 DEF Deactivate, Reset, Activate
      <4>2. /\ UNCHANGED <<gate, allowed, strips>> /\ repaint' = repaint
            /\ paint' = paint /\ phase' # "idle"
        BY <4>1 DEF InPass, control
      <4>. QED BY <4>2, Zenon
    <3>3. CASE DeliverInput
      BY <3>3 DEF DeliverInput, control
    <3>4. CASE LeaveUnpainted
      BY <3>4 DEF LeaveUnpainted, control
    <3>. QED BY <1>3, <3>1, <3>2, <3>3, <3>4 DEF PassNext
  <2>. QED BY <1>3, <2>1, IndexKept, PictureKept DEF PictureInv
<1>4. CASE UNCHANGED vars
  BY <1>4, PictureKept DEF vars, control, PictureInv
<1>. QED BY <1>1, <1>2, <1>3, <1>4 DEF Next

(* Everything keeps its type; a child's strip holds pixels of a picture.   *)
THEOREM SceneTypeCorrect == Spec => []TypeOK
<1>1. Init => TypeOK
  BY InitScene DEF Init, TypeOK, Unspecified
<1>2. TypeOK /\ EngineTypes /\ SceneInv /\ [Next]_vars => TypeOK'
  BY SceneStep, StripsLeft, PaintShows DEF TypeOK
<1>. QED BY <1>1, <1>2, SceneSound, PTL DEF Spec

(* When nothing is left to repaint, each child whose update did not fail   *)
(* shows its own part of what should be seen.                              *)
THEOREM PicturesCurrent == Spec => []PictureCurrent
<1>1. Init => PictureInv
  BY DEF Init, PictureInv
<1>2. PictureInv => PictureCurrent
  BY DEF PictureInv, PictureCurrent
<1>. QED BY <1>1, <1>2, PictureStep, SceneSound, PTL DEF Spec

=============================================================================
