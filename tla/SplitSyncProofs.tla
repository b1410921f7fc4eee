-------------------------- MODULE SplitSyncProofs --------------------------
(* Proofs about split replication, for every number of peripherals, items, *)
(* threads and values, and about the replay's cursor, for every layout.    *)
EXTENDS SyncWalk, WellFoundedInduction, TLAPS

-----------------------------------------------------------------------------
(* Helpers *)

LEMMA FirstSource == 0 \in Sources
BY SourcesAssumption DEF Sources

LEMMA SlotSource == \A slot \in Slots : slot \div 2 \in Sources
BY SourcesAssumption DEF Slots, Sources

LEMMA CursorType ==
    ASSUME NEW slot \in Slots
    PROVE  (slot + 1) % (2 * NumSources) \in Slots
<1>. DEFINE n == 2 * NumSources
<1>1. n \in Nat \ {0}
  BY SourcesAssumption
<1>2. slot + 1 \in Nat
  BY SourcesAssumption DEF Slots
<1>3. \A a \in Nat, m \in Nat \ {0} : a % m \in 0..(m - 1)
  OBVIOUS
<1>. HIDE DEF n
<1>4. (slot + 1) % n \in 0..(n - 1)
  BY <1>1, <1>2, <1>3
<1>. QED BY <1>4 DEF n, Slots

(* A command sets items to values. *)
LEMMA SetType ==
    ASSUME NEW state \in [Items -> Values], NEW change \in Changes
    PROVE  Set(state, change) \in [Items -> Values]
<1>1. \A i \in DOMAIN change : change[i] \in Values
  <2>1. CASE \E i \in Items : change \in [{i} -> Values]
    BY <2>1
  <2>2. CASE change = [i \in ResetItems |-> Default]
    BY <2>2, ValuesAssumption
  <2>3. CASE change = [i \in {} |-> Default]
    BY <2>3
  <2>. QED
    BY <2>1, <2>2, <2>3, Zenon DEF Changes
<1>. QED BY <1>1 DEF Set

LEMMA ForwardType ==
    ASSUME NEW x \in Calls, x.stage = "forward"
    PROVE  /\ x \in [stage : {"forward"}, change : Changes, next : 0..NumSources]
           /\ x # Idle
BY DEF Calls, Idle

LEMMA FinishType ==
    ASSUME NEW x \in Calls, x.stage = "finish"
    PROVE  x \in [stage : {"finish"}, failed : BOOLEAN] /\ x # Idle
BY DEF Calls, Idle

LEMMA BumpType ==
    ASSUME captured \in [Sources -> {"no", "current", "stale"}], Bump
    PROVE  captured' \in [Sources -> {"no", "current", "stale"}]
BY DEF Bump

-----------------------------------------------------------------------------
(* Type correctness *)

LEMMA CallTypes ==
    ASSUME TypeOK, NEW c \in Clients,
           (\E change \in Changes : Begin(c, change)) \/ Invocation(c)
    PROVE  TypeOK'
<1>. USE DEF TypeOK, stateVars, linkVars, sourceVars, timeVars, localVars
<1>1. ASSUME NEW change \in Changes, Begin(c, change)
      PROVE  TypeOK'
  <2>1. [stage |-> "forward", change |-> change, next |-> 0] \in Calls
    BY SourcesAssumption DEF Calls
  <2>2. exceptional' \in BOOLEAN
    BY <1>1, Zenon DEF Begin
  <2>. QED
    BY <1>1, <2>1, <2>2 DEF Begin
<1>2. CASE Forward(c)
  <2>. DEFINE p == call[c].next
  <2>1. /\ call[c] \in [stage : {"forward"}, change : Changes, next : 0..NumSources]
        /\ p < NumSources
    BY <1>2, ForwardType DEF Forward
  <2>2. p \in Sources /\ p + 1 \in 0..NumSources
    BY <2>1, SourcesAssumption DEF Sources
  <2>3. [call[c] EXCEPT !.next = p + 1] \in Calls
    BY <2>1, <2>2 DEF Calls
  <2>4. call' \in [Clients -> Calls]
    BY <1>2, <2>3 DEF Forward
  <2>5. Set(replica[p], call[c].change) \in [Items -> Values]
    BY <2>1, <2>2, SetType
  <2>6. replica' \in [Sources -> [Items -> Values]]
    BY <1>2, <2>5 DEF Forward
  <2>. QED
    BY <1>2, <2>4, <2>6 DEF Forward
<1>3. CASE Apply(c)
  <2>1. call[c].change \in Changes
    BY <1>3, ForwardType DEF Apply
  <2>2. Set(central, call[c].change) \in [Items -> Values]
    BY <2>1, SetType
  <2>3. central' \in [Items -> Values]
    BY <1>3, <2>2 DEF Apply
  <2>4. \A failed \in BOOLEAN : [stage |-> "finish", failed |-> failed] \in Calls
    BY DEF Calls
  <2>5. call' \in [Clients -> Calls]
    BY <1>3, <2>4 DEF Apply
  <2>6. captured' \in [Sources -> {"no", "current", "stale"}]
    BY <1>3, BumpType DEF Apply
  <2>. QED
    BY <1>3, <2>3, <2>5, <2>6 DEF Apply
<1>4. CASE Finish(c)
  <2>1. call' \in [Clients -> Calls]
    BY <1>4 DEF Finish, Calls
  <2>2. captured' \in [Sources -> {"no", "current", "stale"}]
    BY <1>4, BumpType DEF Finish
  <2>3. exceptional' \in BOOLEAN /\ repairOwed' \in BOOLEAN
    BY <1>4, Zenon DEF Finish
  <2>4. work' \in {"none", "delayed", "queued"}
    BY <1>4 DEF Finish
  <2>. QED
    BY <1>4, <2>1, <2>2, <2>3, <2>4 DEF Finish
<1>. QED BY <1>1, <1>2, <1>3, <1>4 DEF Invocation

LEMMA WorldTypes ==
    ASSUME TypeOK,
           \/ Start \/ SwitchTransport
           \/ \E change \in Changes : LocalChange(change)
           \/ \E p \in Sources : Disconnect(p) \/ \E state \in [Items -> Values] : Connect(p, state)
    PROVE  TypeOK'
<1>. USE DEF TypeOK, stateVars, callVars, linkVars, sourceVars, timeVars, localVars
<1>1. CASE Start
  BY <1>1 DEF Start
<1>2. CASE SwitchTransport
  BY <1>2 DEF SwitchTransport
<1>3. ASSUME NEW change \in Changes, LocalChange(change) PROVE TypeOK'
  <2>1. central' \in [Items -> Values]
    BY <1>3, SetType DEF LocalChange
  <2>2. captured' \in [Sources -> {"no", "current", "stale"}]
    BY <1>3, BumpType DEF LocalChange
  <2>. QED
    BY <1>3, <2>1, <2>2 DEF LocalChange
<1>4. ASSUME NEW p \in Sources, Disconnect(p) PROVE TypeOK'
  BY <1>4 DEF Disconnect
<1>5. ASSUME NEW p \in Sources, NEW state \in [Items -> Values], Connect(p, state)
      PROVE  TypeOK'
  BY <1>5 DEF Connect
<1>. QED BY <1>1, <1>2, <1>3, <1>4, <1>5

LEMMA TimeTypes ==
    ASSUME TypeOK, Time
    PROVE  TypeOK'
<1>. USE DEF TypeOK, stateVars, callVars, linkVars, sourceVars, localVars
<1>1. CASE DelayExpires
  BY <1>1 DEF DelayExpires, timeVars
<1>2. CASE PaceOver
  BY <1>2 DEF PaceOver
<1>3. CASE PollComesDue
  BY <1>3 DEF PollComesDue
<1>4. ASSUME NEW p \in Sources, SourceReady(p) PROVE TypeOK'
  BY <1>4 DEF SourceReady
<1>5. ASSUME NEW p \in Sources, ClockComesDue(p) PROVE TypeOK'
  BY <1>5 DEF ClockComesDue
<1>. QED BY <1>1, <1>2, <1>3, <1>4, <1>5 DEF Time

LEMMA PollTypes ==
    ASSUME TypeOK, Poll, wpc = "idle"
    PROVE  /\ seen' \in [Sources -> BOOLEAN] /\ pending' \in [Sources -> BOOLEAN]
           /\ pos' \in [Sources -> 1..NumItems]
           /\ captured' \in [Sources -> {"no", "current", "stale"}]
           /\ ready' \in [Sources -> BOOLEAN] /\ clockDue' \in [Sources -> BOOLEAN]
           /\ switched' \in BOOLEAN /\ pollDue' \in BOOLEAN
<1>1. pos \in [Sources -> 1..NumItems]
  BY ItemsAssumption DEF TypeOK
<1>2. PICK present \in SUBSET Sources :
         LET new == Observed \cap present
             reset == new \cup (Sources \ present)
         IN /\ seen' = [p \in Sources |-> p \in present]
            /\ pending' = [p \in Sources |-> p \in new \/ (p \in present /\ pending[p])]
            /\ pos' = [p \in Sources |-> IF p \in reset THEN 1 ELSE pos[p]]
            /\ captured' = [p \in Sources |-> IF p \in reset THEN "no" ELSE captured[p]]
            /\ ready' = [p \in Sources |-> IF p \in new THEN FALSE ELSE ready[p]]
            /\ clockDue' = [p \in Sources |-> IF p \in reset THEN FALSE ELSE clockDue[p]]
            /\ switched' = FALSE
            /\ pollDue' = FALSE
  BY DEF Poll
<1>. DEFINE new == Observed \cap present
            reset == new \cup (Sources \ present)
<1>3. seen' \in [Sources -> BOOLEAN]
  <2>1. seen' = [p \in Sources |-> p \in present]
    BY <1>2
  <2>2. \A p \in Sources : (p \in present) \in BOOLEAN
    OBVIOUS
  <2>. QED BY <2>1, <2>2
<1>4. pending' \in [Sources -> BOOLEAN]
  <2>1. pending' = [p \in Sources |-> p \in new \/ (p \in present /\ pending[p])]
    BY <1>2
  <2>. QED BY <2>1, Zenon
<1>. HIDE DEF new, reset
<1>5. pos' \in [Sources -> 1..NumItems]
  <2>1. pos' = [p \in Sources |-> IF p \in reset THEN 1 ELSE pos[p]]
    BY <1>2 DEF new, reset
  <2>2. 1 \in 1..NumItems
    BY ItemsAssumption
  <2>. QED BY <1>1, <2>1, <2>2
<1>6. /\ captured' = [p \in Sources |-> IF p \in reset THEN "no" ELSE captured[p]]
      /\ ready' = [p \in Sources |-> IF p \in new THEN FALSE ELSE ready[p]]
      /\ clockDue' = [p \in Sources |-> IF p \in reset THEN FALSE ELSE clockDue[p]]
      /\ switched' = FALSE /\ pollDue' = FALSE
  BY <1>2 DEF new, reset
<1>7. ready' \in [Sources -> BOOLEAN] /\ clockDue' \in [Sources -> BOOLEAN]
  BY <1>6, Zenon DEF TypeOK
<1>8. captured' \in [Sources -> {"no", "current", "stale"}]
  BY <1>6 DEF TypeOK
<1>. QED
  BY <1>3, <1>4, <1>5, <1>6, <1>7, <1>8

LEMMA HandlerTypes ==
    ASSUME TypeOK, Handler
    PROVE  TypeOK'
<1>. USE DEF TypeOK, stateVars, callVars, linkVars, sourceVars, timeVars
<1>1. CASE StartHandler
  <2>1. CASE pollDue
    BY <1>1, <2>1, PollTypes, ItemsAssumption DEF StartHandler
  <2>2. CASE ~pollDue
    BY <1>1, <2>2 DEF StartHandler
  <2>. QED BY <2>1, <2>2
<1>2. CASE ConsumeRepair
  <2>1. repairOwed' \in BOOLEAN
    BY <1>2, Zenon DEF ConsumeRepair
  <2>2. pending' \in [Sources -> BOOLEAN]
    <3>. DEFINE due == {p \in Sources : started /\ repairOwed /\ seen[p] /\ ~pending[p]}
    <3>1. pending' = [p \in Sources |-> pending[p] \/ p \in due]
      BY <1>2 DEF ConsumeRepair
    <3>. QED BY <3>1, Zenon
  <2>4. pos \in [Sources -> 1..NumItems] /\ 1 \in 1..NumItems
    BY <1>2, ItemsAssumption DEF ConsumeRepair
  <2>5. pos' \in [Sources -> 1..NumItems]
    BY <1>2, <2>4 DEF ConsumeRepair
  <2>3. captured' \in [Sources -> {"no", "current", "stale"}]
    BY <1>2 DEF ConsumeRepair
  <2>. QED
    BY <1>2, <2>1, <2>2, <2>3, <2>5, ItemsAssumption DEF ConsumeRepair
<1>3. CASE NothingDue
  BY <1>3 DEF NothingDue
<1>4. ASSUME NEW slot \in Slots, SendClock(slot) PROVE TypeOK'
  BY <1>4, CursorType DEF SendClock
<1>5. ASSUME NEW slot \in Slots, ReadState(slot) PROVE TypeOK'
  <2>1. slot \div 2 \in Sources /\ cursor' \in Slots
    BY <1>5, SlotSource, CursorType DEF ReadState
  <2>2. pos \in [Sources -> 1..NumItems]
    BY <1>5, ItemsAssumption DEF ReadState
  <2>3. latched' \in Values
    BY <1>5, <2>1, <2>2 DEF ReadState, Items
  <2>. QED
    BY <1>5, <2>1, <2>2, <2>3, ItemsAssumption DEF ReadState
<1>6. CASE SendAccepted
  <2>1. pos[target] \in Items
    BY <1>6, ItemsAssumption DEF SendAccepted, Items
  <2>2. replica' \in [Sources -> [Items -> Values]]
    BY <1>6, <2>1 DEF SendAccepted
  <2>3. /\ pos' \in [Sources -> 1..(NumItems + 1)]
        /\ \A p \in Sources : pos'[p] > NumItems => wpc' = "check" /\ target' = p
    BY <1>6, <2>1, ItemsAssumption DEF SendAccepted, Advance, Items
  <2>. QED
    BY <1>6, <2>2, <2>3, ValuesAssumption DEF SendAccepted
<1>7. CASE SendRefused
  BY <1>7, ValuesAssumption DEF SendRefused
<1>8. CASE CheckComplete
  <2>1. pending' \in [Sources -> BOOLEAN]
    BY <1>8, Zenon DEF CheckComplete, Complete
  <2>. QED
    BY <1>8, <2>1, ItemsAssumption DEF CheckComplete
<1>9. CASE Rearm
  BY <1>9 DEF Rearm
<1>. QED
  BY <1>1, <1>2, <1>3, <1>4, <1>5, <1>6, <1>7, <1>8, <1>9 DEF Handler

LEMMA InitTypes == Init => TypeOK
<1>. SUFFICES ASSUME Init PROVE TypeOK
  OBVIOUS
<1>1. call \in [Clients -> Calls]
  <2>1. Idle \in Calls
    BY DEF Calls
  <2>. QED BY <2>1 DEF Init
<1>2. /\ target \in Sources /\ latched \in Values /\ cursor \in Slots
      /\ pos \in [Sources -> 1..NumItems]
  BY FirstSource, SourcesAssumption, ItemsAssumption, ValuesAssumption DEF Init, Slots
<1>3. /\ seen \in [Sources -> BOOLEAN] /\ pending \in [Sources -> BOOLEAN]
      /\ ready \in [Sources -> BOOLEAN] /\ clockDue \in [Sources -> BOOLEAN]
  BY DEF Init
<1>4. /\ pos \in [Sources -> 1..(NumItems + 1)]
      /\ \A p \in Sources : ~(pos[p] > NumItems)
  BY <1>2, ItemsAssumption
<1>. QED
  BY <1>1, <1>2, <1>3, <1>4 DEF Init, TypeOK

LEMMA StepTypes == TypeOK /\ [Next]_vars => TypeOK'
<1>. SUFFICES ASSUME TypeOK, [Next]_vars PROVE TypeOK'
  OBVIOUS
<1>1. CASE Environment
  BY <1>1, CallTypes, WorldTypes DEF Environment
<1>2. CASE Start
  BY <1>2, WorldTypes
<1>3. CASE Handler
  BY <1>3, HandlerTypes
<1>4. CASE Time
  BY <1>4, TimeTypes
<1>5. ASSUME NEW c \in Clients, Invocation(c) PROVE TypeOK'
  BY <1>5, CallTypes
<1>6. CASE UNCHANGED vars
  BY <1>6 DEF vars, TypeOK, stateVars, callVars, linkVars, sourceVars, timeVars, localVars
<1>. QED BY <1>1, <1>2, <1>3, <1>4, <1>5, <1>6 DEF Next

(* Every variable keeps its type; in particular no replay cursor ever      *)
(* leaves the items but for the moment the replay is checked.              *)
THEOREM SyncTypeCorrect == Spec => []TypeOK
BY InitTypes, StepTypes, PTL DEF Spec

-----------------------------------------------------------------------------
(* The sync work stays alive *)

LEMMA SyncAliveStep == SyncAlive /\ [Next]_vars => SyncAlive'
<1>. SUFFICES ASSUME SyncAlive, [Next]_vars PROVE SyncAlive'
  OBVIOUS
<1>. USE DEF SyncAlive, localVars
<1>1. CASE Environment
  BY <1>1 DEF Environment, Begin, LocalChange, Disconnect, Connect, SwitchTransport
<1>2. CASE Start
  BY <1>2 DEF Start
<1>3. CASE Handler
  BY <1>3 DEF Handler, StartHandler, ConsumeRepair, NothingDue, SendClock, ReadState,
              SendAccepted, SendRefused, CheckComplete, Rearm
<1>4. CASE Time
  BY <1>4 DEF Time, DelayExpires, PaceOver, PollComesDue, SourceReady, ClockComesDue
<1>5. ASSUME NEW c \in Clients, Invocation(c) PROVE SyncAlive'
  BY <1>5 DEF Invocation, Forward, Apply, Finish
<1>6. CASE UNCHANGED vars
  BY <1>6 DEF vars
<1>. QED BY <1>1, <1>2, <1>3, <1>4, <1>5, <1>6 DEF Next

(* Between two of its runs the sync work is always submitted or delayed.   *)
THEOREM SyncWorkAlive == Spec => []SyncAlive
<1>1. Init => SyncAlive
  BY DEF Init, SyncAlive
<1>. QED BY <1>1, SyncAliveStep, PTL DEF Spec

-----------------------------------------------------------------------------
(* What a replay has sent is current *)

(* A call under way disturbs every replay: nothing is claimed meanwhile.   *)
LEMMA UnderWay ==
    ASSUME TypeOK, NEW c \in Clients,
           (\E change \in Changes : Begin(c, change)) \/ Forward(c) \/ Apply(c)
    PROVE  Outstanding' # {}
<1>1. ASSUME NEW change \in Changes, Begin(c, change) PROVE call'[c] # Idle
  BY <1>1 DEF Begin, TypeOK, Idle
<1>2. ASSUME Forward(c) PROVE call'[c] # Idle
  <2>1. call[c] \in [stage : {"forward"}, change : Changes, next : 0..NumSources]
    BY <1>2, ForwardType DEF TypeOK, Forward
  <2>2. call'[c].stage = "forward"
    BY <1>2, <2>1 DEF Forward, TypeOK
  <2>3. Idle.stage = "idle"
    BY DEF Idle
  <2>. QED BY <2>2, <2>3
<1>3. ASSUME Apply(c) PROVE call'[c] # Idle
  <2>1. call'[c].stage = "finish"
    BY <1>3 DEF Apply, TypeOK
  <2>2. Idle.stage = "idle"
    BY DEF Idle
  <2>. QED BY <2>1, <2>2
<1>. QED BY <1>1, <1>2, <1>3 DEF Outstanding

(* So does a new generation: it leaves no replay current and no cursor or  *)
(* control point moved.                                                    *)
LEMMA BumpInv ==
    ASSUME TypeOK, ReplayInv, Bump, UNCHANGED <<pos, wpc, target, latched>>
    PROVE  ReplayInv'
<1>1. \A p \in Sources : captured'[p] # "current" /\ (captured'[p] = "no" <=> captured[p] = "no")
  BY DEF Bump, TypeOK
<1>. QED BY <1>1 DEF ReplayInv, ReplayCurrent, TypeOK

LEMMA ReplayInvCall ==
    ASSUME TypeOK, ReplayInv, NEW c \in Clients,
           (\E change \in Changes : Begin(c, change)) \/ Invocation(c)
    PROVE  ReplayInv'
<1>1. CASE Finish(c)
  BY <1>1, BumpInv DEF Finish, sourceVars, localVars
<1>2. CASE Apply(c) /\ central' # central
  BY <1>2, BumpInv DEF Apply, sourceVars, localVars
<1>3. ASSUME (\E change \in Changes : Begin(c, change)) \/ Forward(c)
             \/ (Apply(c) /\ central' = central)
      PROVE  ReplayInv'
  <2>1. Outstanding' # {}
    BY <1>3, UnderWay
  <2>2. UNCHANGED <<captured, pos, wpc, target, latched>>
    BY <1>3 DEF Begin, Forward, Apply, sourceVars, localVars
  <2>. QED BY <2>1, <2>2 DEF ReplayInv, ReplayCurrent
<1>. QED BY <1>1, <1>2, <1>3 DEF Invocation

LEMMA ReplayInvWorld ==
    ASSUME TypeOK, ReplayInv, "blip" \notin Irregular,
           \/ Start \/ SwitchTransport
           \/ \E change \in Changes : LocalChange(change)
           \/ \E p \in Sources : Disconnect(p) \/ \E state \in [Items -> Values] : Connect(p, state)
    PROVE  ReplayInv'
<1>. USE DEF ReplayCurrent, Outstanding, callVars, linkVars, sourceVars, localVars
<1>1. CASE Start
  BY <1>1 DEF Start, ReplayInv
<1>2. CASE SwitchTransport
  BY <1>2 DEF SwitchTransport, ReplayInv
<1>3. ASSUME NEW change \in Changes, LocalChange(change) PROVE ReplayInv'
  BY <1>3, BumpInv DEF LocalChange
<1>4. ASSUME NEW p \in Sources, Disconnect(p) PROVE ReplayInv'
  <2>1. \A q \in Sources : ReplayCurrent(q)' => ReplayCurrent(q)
    BY <1>4 DEF Disconnect, TypeOK
  <2>2. UNCHANGED <<captured, central, replica, pos, wpc, target, latched>>
    BY <1>4 DEF Disconnect, stateVars
  <2>3. target \in Sources
    BY DEF TypeOK
  <2>. QED
    BY <2>1, <2>2, <2>3 DEF ReplayInv
<1>5. ASSUME NEW p \in Sources, NEW state \in [Items -> Values], Connect(p, state)
      PROVE  ReplayInv'
  <2>1. \A q \in Sources : ReplayCurrent(q)' => ReplayCurrent(q) /\ q # p
    BY <1>5 DEF Connect, TypeOK
  <2>2. UNCHANGED <<captured, central, pos, wpc, target, latched>>
    BY <1>5 DEF Connect, stateVars
  <2>3. target \in Sources /\ \A q \in Sources : q # p => replica'[q] = replica[q]
    BY <1>5 DEF Connect, TypeOK
  <2>. QED
    BY <2>1, <2>2, <2>3 DEF ReplayInv
<1>. QED BY <1>1, <1>2, <1>3, <1>4, <1>5

LEMMA ReplayInvTime ==
    ASSUME ReplayInv, Time
    PROVE  ReplayInv'
BY DEF Time, DelayExpires, PaceOver, PollComesDue, SourceReady, ClockComesDue, ReplayInv,
       ReplayCurrent, Outstanding, stateVars, callVars, linkVars, sourceVars, localVars

(* A poll keeps only replays that go on with a peripheral it knew.         *)
LEMMA ReplayInvPoll ==
    ASSUME TypeOK, ReplayInv, StartHandler
    PROVE  ReplayInv'
<1>. USE DEF ReplayCurrent, Outstanding, stateVars, callVars, sourceVars
<1>1. CASE ~pollDue
  BY <1>1 DEF StartHandler, ReplayInv
<1>2. CASE pollDue
  <2>1. \A p \in Sources :
           \/ captured'[p] = "no" /\ pos'[p] = 1
           \/ /\ captured'[p] = captured[p] /\ pos'[p] = pos[p]
              /\ connected[p] /\ seen[p] /\ ~switched
    BY <1>2 DEF StartHandler, Poll, Observed
  <2>2. /\ wpc' = "repair" /\ UNCHANGED <<central, replica, call, connected>>
    BY <1>2 DEF StartHandler
  <2>. QED
    BY <2>1, <2>2 DEF ReplayInv
<1>. QED BY <1>1, <1>2

LEMMA ReplayInvHandler ==
    ASSUME TypeOK, ReplayInv, Handler
    PROVE  ReplayInv'
<1>. USE DEF ReplayCurrent, Outstanding, stateVars, callVars, linkVars, sourceVars
<1>1. CASE StartHandler
  BY <1>1, ReplayInvPoll
<1>2. CASE ConsumeRepair
  <2>1. \A p \in Sources :
           \/ captured'[p] = "no" /\ pos'[p] = 1
           \/ captured'[p] = captured[p] /\ pos'[p] = pos[p]
    BY <1>2 DEF ConsumeRepair, TypeOK
  <2>2. wpc' = "pick" /\ UNCHANGED <<central, replica, call, connected, seen, switched>>
    BY <1>2 DEF ConsumeRepair
  <2>. QED
    BY <2>1, <2>2 DEF ReplayInv
<1>3. CASE NothingDue
  BY <1>3 DEF NothingDue, ReplayInv
<1>4. ASSUME NEW slot \in Slots, SendClock(slot) PROVE ReplayInv'
  BY <1>4 DEF SendClock, ReplayInv
<1>5. ASSUME NEW slot \in Slots, ReadState(slot) PROVE ReplayInv'
  <2>1. slot \div 2 \in Sources /\ target' = slot \div 2
    BY <1>5, SlotSource DEF ReadState
  <2>2. \A p \in Sources : \/ captured'[p] = captured[p]
                           \/ captured[p] = "no" /\ captured'[p] = "current"
    BY <1>5, <2>1 DEF ReadState, TypeOK
  <2>3. captured'[target'] # "no" /\ latched' = central[pos[target']] /\ wpc' = "send"
    BY <1>5, <2>1 DEF ReadState, TypeOK
  <2>4. UNCHANGED <<central, replica, call, connected, seen, switched, pos>>
    BY <1>5 DEF ReadState
  <2>5. \A p \in Sources, i \in Items : captured[p] = "no" => ~(i < pos[p])
    BY DEF ReplayInv, Items
  <2>. QED
    BY <2>1, <2>2, <2>3, <2>4, <2>5 DEF ReplayInv
<1>6. CASE SendAccepted
  <2>1. target \in Sources /\ pos[target] \in Items /\ captured[target] # "no"
    <3>1. wpc = "send" /\ target \in Sources /\ pos[target] \in Items
      BY <1>6, ItemsAssumption DEF SendAccepted, TypeOK, Items
    <3>. QED BY <3>1 DEF ReplayInv
  <2>2. \A p \in Sources \ {target} : replica'[p] = replica[p] /\ pos'[p] = pos[p]
    BY <1>6, <2>1 DEF SendAccepted, TypeOK
  <2>3. pos'[target] = pos[target] + 1
    BY <1>6, <2>1 DEF SendAccepted, Advance, TypeOK
  <2>4. connected[target] =>
           /\ replica'[target][pos[target]] = latched
           /\ \A i \in Items : i # pos[target] => replica'[target][i] = replica[target][i]
    BY <1>6, <2>1 DEF SendAccepted, TypeOK
  <2>5. /\ wpc = "send" /\ wpc' = IF pos[target] = NumItems THEN "check" ELSE "rearm"
        /\ UNCHANGED <<central, call, captured, connected, seen, switched, target>>
    BY <1>6 DEF SendAccepted
  <2>6. ASSUME NEW p \in Sources, ReplayCurrent(p)', NEW i \in Items, i < pos'[p]
        PROVE  replica'[p][i] = central'[i]
    <3>1. ReplayCurrent(p)
      BY <2>5, <2>6
    <3>2. CASE p # target
      BY <2>2, <2>5, <2>6, <3>1, <3>2 DEF ReplayInv
    <3>3. CASE p = target
      <4>1. i < pos[target] \/ i = pos[target]
        BY <2>1, <2>3, <2>6, <3>3 DEF Items
      <4>2. i < pos[target] => replica[target][i] = central[i] /\ i # pos[target]
        BY <2>1, <3>1, <3>3 DEF ReplayInv, Items
      <4>. QED
        BY <2>4, <2>5, <3>1, <3>3, <4>1, <4>2 DEF ReplayInv
    <3>. QED BY <3>2, <3>3
  <2>7. \A p \in Sources : captured'[p] = "no" => pos'[p] = 1
    BY <2>1, <2>2, <2>5 DEF ReplayInv
  <2>. QED
    BY <2>3, <2>5, <2>6, <2>7 DEF ReplayInv
<1>7. CASE SendRefused
  BY <1>7 DEF SendRefused, ReplayInv
<1>8. CASE CheckComplete
  <2>1. \A p \in Sources :
           \/ captured'[p] = "no" /\ pos'[p] = 1
           \/ captured'[p] = captured[p] /\ pos'[p] = pos[p]
    BY <1>8 DEF CheckComplete, TypeOK
  <2>2. wpc' = "rearm" /\ UNCHANGED <<central, replica, call, connected, seen, switched>>
    BY <1>8 DEF CheckComplete
  <2>. QED
    BY <2>1, <2>2 DEF ReplayInv
<1>9. CASE Rearm
  BY <1>9 DEF Rearm, ReplayInv
<1>. QED
  BY <1>1, <1>2, <1>3, <1>4, <1>5, <1>6, <1>7, <1>8, <1>9 DEF Handler

LEMMA ReplayInvStep ==
    ASSUME "blip" \notin Irregular
    PROVE  TypeOK /\ ReplayInv /\ [Next]_vars => ReplayInv'
<1>. SUFFICES ASSUME TypeOK, ReplayInv, [Next]_vars PROVE ReplayInv'
  OBVIOUS
<1>1. CASE Environment
  BY <1>1, ReplayInvCall, ReplayInvWorld DEF Environment
<1>2. CASE Start
  BY <1>2, ReplayInvWorld
<1>3. CASE Handler
  BY <1>3, ReplayInvHandler
<1>4. CASE Time
  BY <1>4, ReplayInvTime
<1>5. ASSUME NEW c \in Clients, Invocation(c) PROVE ReplayInv'
  BY <1>5, ReplayInvCall
<1>6. CASE UNCHANGED vars
  BY <1>6 DEF vars, ReplayInv, ReplayCurrent, Outstanding, stateVars, callVars, linkVars,
              sourceVars, localVars
<1>. QED BY <1>1, <1>2, <1>3, <1>4, <1>5, <1>6 DEF Next

(* As long as no peripheral reconnects before its loss was observed, what  *)
(* a replay has sent is current while its generation is.                   *)
THEOREM ReplaysCurrent ==
    ASSUME "blip" \notin Irregular
    PROVE  Spec => []ReplayInv
<1>1. Init => ReplayInv
  BY ItemsAssumption DEF Init, ReplayInv, ReplayCurrent
<1>2. Spec => []TypeOK
  BY SyncTypeCorrect
<1>. QED BY <1>1, <1>2, ReplayInvStep, PTL DEF Spec

(* Then a replay declared complete is complete.  Only two steps end a      *)
(* replay: a poll that loses the source, and the completion test.          *)
LEMMA CompletionStep ==
    ASSUME TypeOK, ReplayInv, Next, NEW p \in Sources,
           pending[p], ~pending'[p], seen'[p], connected[p], ~switched
    PROVE  replica[p] = central
<1>1. ~UNCHANGED pending
  OBVIOUS
<1>2. CASE StartHandler
  <2>1. CASE pollDue
    BY <1>2, <2>1 DEF StartHandler, Poll
  <2>2. CASE ~pollDue
    BY <1>1, <1>2, <2>2 DEF StartHandler, sourceVars
  <2>. QED BY <2>1, <2>2
<1>3. CASE ConsumeRepair
  BY <1>3 DEF ConsumeRepair
<1>4. CASE CheckComplete
  <2>1. p = target
    BY <1>4 DEF CheckComplete, TypeOK
  <2>2. Complete /\ seen[p]
    BY <1>4, <2>1 DEF CheckComplete, TypeOK
  <2>3. ReplayCurrent(p)
    BY <2>1, <2>2 DEF ReplayCurrent, Complete
  <2>4. pos[p] = NumItems + 1
    BY <1>4, <2>1 DEF CheckComplete, ReplayInv
  <2>5. \A i \in Items : i < NumItems + 1
    BY ItemsAssumption DEF Items
  <2>6. \A i \in Items : replica[p][i] = central[i]
    BY <2>3, <2>4, <2>5 DEF ReplayInv
  <2>. QED
    BY <2>6 DEF TypeOK
<1>. QED
  BY <1>1, <1>2, <1>3, <1>4
  DEF Next, Environment, Begin, LocalChange, Disconnect, Connect, SwitchTransport, Start,
      Handler, NothingDue, SendClock, ReadState, SendAccepted, SendRefused, Rearm,
      Time, DelayExpires, PaceOver, PollComesDue, SourceReady, ClockComesDue,
      Invocation, Forward, Apply, Finish, sourceVars

(* A source leaves a replay it was still connected for only in the state   *)
(* of the central, whatever calls, local changes and faults raced it.      *)
THEOREM ReplaysComplete ==
    ASSUME "blip" \notin Irregular
    PROVE  Spec => CompletionSound
<1>1. TypeOK /\ ReplayInv /\ [Next]_vars =>
         [\A p \in Sources :
            pending[p] /\ ~pending'[p] /\ seen'[p] /\ connected[p] /\ ~switched
               => replica[p] = central]_vars
  BY CompletionStep
<1>2. Spec => []TypeOK
  BY SyncTypeCorrect
<1>3. Spec => []ReplayInv
  BY ReplaysCurrent
<1>. QED BY <1>1, <1>2, <1>3, PTL DEF Spec, CompletionSound

-----------------------------------------------------------------------------
(* Peripherals agree with the central *)

(* A step that leaves the calls, the repairs and the central alone keeps   *)
(* the agreement of each source that was served already, on which nothing  *)
(* was imposed, and whose replay is not what the handler is about.         *)
LEMMA AgreeKept ==
    ASSUME AgreeInv, UNCHANGED <<central, call, exceptional>>,
           wpc' \in {"send", "check"} => pending'[target'],
           \A p \in Sources :
              ~repairOwed' /\ ~switched' /\ connected'[p] /\ seen'[p] /\ ~pending'[p] =>
                 /\ ~repairOwed /\ ~switched /\ connected[p] /\ seen[p] /\ ~pending[p]
                 /\ replica'[p] = replica[p]
    PROVE  AgreeInv'
<1>1. Outstanding' = Outstanding
  BY DEF Outstanding
<1>2. ASSUME NEW p \in Sources, ~exceptional', ~repairOwed', ~switched',
             connected'[p], seen'[p], ~pending'[p]
      PROVE  Agreement(p)'
  <2>1. Agreement(p) /\ replica'[p] = replica[p]
    BY <1>2 DEF AgreeInv
  <2>. QED
    BY <1>1, <2>1 DEF Agreement
<1>. QED BY <1>1, <1>2 DEF AgreeInv

(* A lone call brings the sources to its value one by one.                 *)
LEMMA AgreeBegin ==
    ASSUME TypeOK, AgreeInv, NEW c \in Clients, NEW change \in Changes, Begin(c, change)
    PROVE  AgreeInv'
<1>1. /\ UNCHANGED <<central, repairOwed, connected, seen, pending, replica, switched,
                     wpc, target>>
      /\ call[c] = Idle /\ exceptional' = (exceptional \/ Outstanding # {})
      /\ call' = [call EXCEPT ![c] = [stage |-> "forward", change |-> change, next |-> 0]]
  BY DEF Begin, stateVars, linkVars, sourceVars, localVars
<1>2. call'[c].stage = "forward" /\ call'[c].next = 0
  BY <1>1 DEF TypeOK
<1>3. \A d \in Clients \ {c} : call'[d] = call[d]
  BY <1>1 DEF TypeOK
<1>4. c \in Outstanding'
  BY <1>2 DEF Outstanding, Idle
<1>5. \A d \in Outstanding' : d = c \/ d \in Outstanding
  BY <1>3 DEF Outstanding
<1>6. ASSUME NEW p \in Sources, ~exceptional', ~repairOwed', ~switched',
             connected'[p], seen'[p], ~pending'[p]
      PROVE  Agreement(p)'
  <2>1. Outstanding = {} /\ ~exceptional
    BY <1>1, <1>6
  <2>2. replica[p] = central
    BY <1>1, <1>6, <2>1 DEF AgreeInv, Agreement
  <2>3. \A d \in Clients \ {c} : call'[d].stage = "idle"
    BY <1>3, <2>1 DEF Outstanding, Idle
  <2>4. ~(p < 0)
    BY DEF Sources
  <2>. QED
    BY <1>1, <1>2, <1>4, <2>2, <2>3, <2>4 DEF Agreement
<1>. QED BY <1>1, <1>4, <1>5, <1>6 DEF AgreeInv

LEMMA AgreeForward ==
    ASSUME TypeOK, AgreeInv, NEW c \in Clients, Forward(c), "drop" \notin Irregular
    PROVE  AgreeInv'
<1>. DEFINE q == call[c].next
<1>1. /\ call[c] \in [stage : {"forward"}, change : Changes, next : 0..NumSources]
      /\ call[c] # Idle /\ q < NumSources
  BY ForwardType DEF Forward, TypeOK
<1>2. /\ UNCHANGED <<central, repairOwed, exceptional, connected, seen, pending, switched,
                     wpc, target>>
      /\ call' = [call EXCEPT ![c].next = q + 1]
      /\ replica' = IF connected[q] THEN [replica EXCEPT ![q] = Set(@, call[c].change)]
                    ELSE replica
  BY DEF Forward, stateVars, sourceVars, localVars
<1>3. /\ call'[c].stage = "forward" /\ call'[c].change = call[c].change
      /\ call'[c].next = q + 1
  BY <1>1, <1>2 DEF TypeOK
<1>4. \A d \in Clients \ {c} : call'[d] = call[d]
  BY <1>2 DEF TypeOK
<1>5. Outstanding' = Outstanding /\ c \in Outstanding
  BY <1>1, <1>3, <1>4 DEF Outstanding, Idle
<1>6. ASSUME NEW p \in Sources, ~exceptional', ~repairOwed', ~switched',
             connected'[p], seen'[p], ~pending'[p]
      PROVE  Agreement(p)'
  <2>1. replica[p] = IF p < q THEN Set(central, call[c].change) ELSE central
    BY <1>1, <1>2, <1>6 DEF AgreeInv, Agreement
  <2>2. replica'[p] = IF p = q THEN Set(replica[p], call[c].change) ELSE replica[p]
    BY <1>2, <1>6 DEF TypeOK
  <2>3. (p < q + 1) <=> (p < q \/ p = q)
    BY <1>1 DEF Sources
  <2>4. p = q => ~(p < q)
    BY <1>1
  <2>5. replica'[p] = IF p < q + 1 THEN Set(central, call[c].change) ELSE central
    BY <2>1, <2>2, <2>3, <2>4, Zenon
  <2>6. \A d \in Clients \ {c} : call'[d].stage = "idle"
    BY <1>2, <1>4, <1>5, <1>6 DEF AgreeInv, Outstanding, Idle
  <2>. QED
    BY <1>2, <1>3, <1>5, <2>5, <2>6 DEF Agreement
<1>. QED BY <1>2, <1>5, <1>6 DEF AgreeInv

LEMMA AgreeApply ==
    ASSUME TypeOK, AgreeInv, NEW c \in Clients, Apply(c)
    PROVE  AgreeInv'
<1>1. /\ call[c] \in [stage : {"forward"}, change : Changes, next : 0..NumSources]
      /\ call[c] # Idle /\ call[c].next = NumSources
  BY ForwardType DEF Apply, TypeOK
<1>2. /\ UNCHANGED <<repairOwed, exceptional, connected, seen, pending, replica, switched,
                     wpc, target>>
  BY DEF Apply, linkVars, sourceVars, localVars
<1>3. PICK failed \in BOOLEAN :
         /\ central' = IF failed THEN central ELSE Set(central, call[c].change)
         /\ call' = [call EXCEPT ![c] = [stage |-> "finish", failed |-> failed]]
  BY DEF Apply
<1>4. call'[c].stage = "finish" /\ call'[c].failed = failed
  BY <1>3 DEF TypeOK
<1>5. \A d \in Clients \ {c} : call'[d] = call[d]
  BY <1>3 DEF TypeOK
<1>6. Outstanding' = Outstanding /\ c \in Outstanding
  BY <1>1, <1>4, <1>5 DEF Outstanding, Idle
<1>7. ASSUME NEW p \in Sources, ~exceptional', ~repairOwed', ~switched',
             connected'[p], seen'[p], ~pending'[p]
      PROVE  Agreement(p)'
  <2>1. p < NumSources
    BY SourcesAssumption DEF Sources
  <2>2. replica[p] = Set(central, call[c].change)
    BY <1>1, <1>2, <1>7, <2>1 DEF AgreeInv, Agreement
  <2>3. \A d \in Clients \ {c} : call'[d].stage = "idle"
    BY <1>2, <1>5, <1>6, <1>7 DEF AgreeInv, Outstanding, Idle
  <2>. QED
    BY <1>2, <1>3, <1>4, <1>6, <2>2, <2>3 DEF Agreement
<1>. QED BY <1>2, <1>6, <1>7 DEF AgreeInv

LEMMA AgreeFinish ==
    ASSUME TypeOK, AgreeInv, NEW c \in Clients, Finish(c)
    PROVE  AgreeInv'
<1>1. /\ UNCHANGED <<central, connected, seen, pending, replica, switched, wpc, target>>
      /\ call[c].stage = "finish" /\ call' = [call EXCEPT ![c] = Idle]
  BY DEF Finish, stateVars, linkVars, sourceVars, localVars
<1>2. call[c].failed \in BOOLEAN /\ call[c] # Idle
  BY <1>1, FinishType DEF TypeOK
<1>3. /\ exceptional' = ((exceptional \/ call[c].failed) /\ Outstanding # {c})
      /\ repairOwed' = (repairOwed \/ ((exceptional \/ call[c].failed) /\ Outstanding = {c}))
  <2>. DEFINE group == exceptional \/ call[c].failed
              repair == group /\ Outstanding = {c}
  <2>1. exceptional' = (group /\ ~repair) /\ repairOwed' = (repairOwed \/ repair)
    BY DEF Finish
  <2>2. exceptional' \in BOOLEAN /\ repairOwed' \in BOOLEAN
    BY <2>1, Zenon
  <2>. QED BY <2>1, <2>2
<1>4. c \in Outstanding /\ Outstanding' = Outstanding \ {c}
  BY <1>1, <1>2 DEF Outstanding, TypeOK
<1>5. Outstanding' = {} => ~exceptional'
  BY <1>3, <1>4
<1>6. \A d, e \in Outstanding' : d = e \/ exceptional'
  BY <1>3, <1>4 DEF AgreeInv
<1>7. ASSUME NEW p \in Sources, ~exceptional', ~repairOwed', ~switched',
             connected'[p], seen'[p], ~pending'[p]
      PROVE  Agreement(p)'
  <2>1. ~exceptional /\ ~call[c].failed /\ ~repairOwed
    BY <1>3, <1>4, <1>7
  <2>2. replica[p] = central
    BY <1>1, <1>7, <2>1 DEF AgreeInv, Agreement
  <2>3. Outstanding' = {}
    BY <1>4, <2>1 DEF AgreeInv
  <2>4. \A d \in Clients : call'[d].stage = "idle"
    BY <2>3 DEF Outstanding, Idle
  <2>. QED
    BY <1>1, <2>2, <2>4 DEF Agreement
<1>. QED BY <1>1, <1>5, <1>6, <1>7 DEF AgreeInv

LEMMA AgreeWorld ==
    ASSUME TypeOK, AgreeInv, "blip" \notin Irregular, "local" \notin Irregular,
           \/ Start \/ SwitchTransport
           \/ \E change \in Changes : LocalChange(change)
           \/ \E p \in Sources : Disconnect(p) \/ \E state \in [Items -> Values] : Connect(p, state)
    PROVE  AgreeInv'
<1>. USE DEF stateVars, callVars, linkVars, sourceVars, localVars
<1>. \A w \in {"send", "check"} : wpc = w => pending[target]
  BY DEF AgreeInv
<1>1. CASE Start
  BY <1>1, AgreeKept DEF Start
<1>2. CASE SwitchTransport
  BY <1>2, AgreeKept DEF SwitchTransport
<1>3. ASSUME NEW p \in Sources, Disconnect(p) PROVE AgreeInv'
  <2>1. \A q \in Sources : connected'[q] => connected[q]
    BY <1>3 DEF Disconnect, TypeOK
  <2>. QED BY <1>3, <2>1, AgreeKept DEF Disconnect
<1>4. ASSUME NEW p \in Sources, NEW state \in [Items -> Values], Connect(p, state)
      PROVE  AgreeInv'
  <2>1. \A q \in Sources : connected'[q] /\ seen[q] /\ ~switched =>
           connected[q] /\ replica'[q] = replica[q]
    BY <1>4 DEF Connect, TypeOK
  <2>. QED BY <1>4, <2>1, AgreeKept DEF Connect
<1>. QED BY <1>1, <1>2, <1>3, <1>4 DEF LocalChange

LEMMA AgreeHandler ==
    ASSUME TypeOK, ReplayInv, AgreeInv, Handler
    PROVE  AgreeInv'
<1>. USE DEF stateVars, callVars, linkVars, sourceVars
<1>1. CASE StartHandler
  <2>1. CASE ~pollDue
    BY <1>1, <2>1, AgreeKept DEF StartHandler
  <2>2. CASE pollDue
    <3>1. \A p \in Sources : connected[p] /\ seen'[p] /\ ~pending'[p] =>
             seen[p] /\ ~switched /\ ~pending[p]
      BY <1>1, <2>2 DEF StartHandler, Poll, Observed
    <3>2. wpc' = "repair"
          /\ UNCHANGED <<central, call, exceptional, repairOwed, connected, replica>>
      BY <1>1 DEF StartHandler
    <3>. QED BY <3>1, <3>2, AgreeKept
  <2>. QED BY <2>1, <2>2
<1>2. CASE ConsumeRepair
  <2>1. \A p \in Sources : ~repairOwed' /\ seen[p] /\ ~pending'[p] =>
           ~repairOwed /\ ~pending[p]
    <3>. DEFINE due == {p \in Sources : started /\ repairOwed /\ seen[p] /\ ~pending[p]}
    <3>1. /\ repairOwed' = (repairOwed /\ ~started)
          /\ pending' = [p \in Sources |-> pending[p] \/ p \in due]
      BY <1>2 DEF ConsumeRepair
    <3>. QED BY <3>1, Zenon
  <2>2. wpc' = "pick"
        /\ UNCHANGED <<central, call, exceptional, connected, replica, switched, seen>>
    BY <1>2 DEF ConsumeRepair
  <2>. QED BY <2>1, <2>2, AgreeKept
<1>3. CASE NothingDue
  BY <1>3, AgreeKept DEF NothingDue
<1>4. ASSUME NEW slot \in Slots, SendClock(slot) PROVE AgreeInv'
  BY <1>4, AgreeKept DEF SendClock
<1>5. ASSUME NEW slot \in Slots, ReadState(slot) PROVE AgreeInv'
  <2>1. pending[target']
    BY <1>5 DEF ReadState, Chosen, Due
  <2>. QED BY <1>5, <2>1, AgreeKept DEF ReadState
<1>6. CASE SendAccepted
  <2>1. pending[target] /\ target \in Sources
    BY <1>6 DEF SendAccepted, AgreeInv, TypeOK
  <2>2. \A p \in Sources : p # target => replica'[p] = replica[p]
    BY <1>6 DEF SendAccepted, TypeOK
  <2>3. UNCHANGED <<central, call, exceptional, repairOwed, connected, switched, seen,
                    pending, target>>
    BY <1>6 DEF SendAccepted
  <2>. QED BY <2>1, <2>2, <2>3, AgreeKept
<1>7. CASE SendRefused
  BY <1>7, AgreeKept DEF SendRefused
<1>8. CASE CheckComplete
  <2>1. /\ target \in Sources /\ pending[target]
        /\ \A p \in Sources : pending'[p] = IF p = target THEN ~Complete ELSE pending[p]
    BY <1>8 DEF CheckComplete, AgreeInv, TypeOK
  <2>2. /\ wpc' = "rearm"
        /\ UNCHANGED <<central, call, exceptional, repairOwed, connected, replica,
                       switched, seen>>
    BY <1>8 DEF CheckComplete
  <2>3. CASE ~Complete
    <3>1. \A p \in Sources : ~pending'[p] => ~pending[p]
      BY <2>1, <2>3
    <3>. QED BY <2>2, <3>1, AgreeKept
  <2>4. CASE Complete
    <3>1. Outstanding = {} /\ Outstanding' = {} /\ ~exceptional
      BY <2>2, <2>4 DEF Complete, Outstanding, AgreeInv
    <3>2. \A c \in Clients : call[c].stage = "idle"
      BY <3>1 DEF Outstanding, Idle
    <3>3. ASSUME NEW p \in Sources, ~repairOwed', ~switched', connected'[p], seen'[p],
                 ~pending'[p]
          PROVE  replica[p] = central
      <4>1. CASE p = target
        <5>1. pending[p] /\ seen'[p] /\ connected[p] /\ ~switched /\ Next
          BY <1>8, <2>1, <2>2, <3>3, <4>1 DEF Next, Handler
        <5>. QED BY <3>3, <5>1, CompletionStep
      <4>2. CASE p # target
        BY <2>1, <2>2, <3>1, <3>3, <4>2 DEF AgreeInv, Agreement
      <4>. QED BY <4>1, <4>2
    <3>. QED
      BY <2>2, <3>1, <3>2, <3>3 DEF AgreeInv, Agreement
  <2>. QED BY <2>3, <2>4
<1>9. CASE Rearm
  BY <1>9, AgreeKept DEF Rearm
<1>. QED
  BY <1>1, <1>2, <1>3, <1>4, <1>5, <1>6, <1>7, <1>8, <1>9 DEF Handler

LEMMA AgreeInvStep ==
    ASSUME Irregular \cap {"local", "drop", "blip"} = {}
    PROVE  TypeOK /\ ReplayInv /\ AgreeInv /\ [Next]_vars => AgreeInv'
<1>. SUFFICES ASSUME TypeOK, ReplayInv, AgreeInv, [Next]_vars PROVE AgreeInv'
  OBVIOUS
<1>. /\ "local" \notin Irregular /\ "drop" \notin Irregular /\ "blip" \notin Irregular
     /\ wpc \in {"send", "check"} => pending[target]
  BY DEF AgreeInv
<1>1. CASE Environment
  BY <1>1, AgreeBegin, AgreeWorld DEF Environment
<1>2. CASE Start
  BY <1>2, AgreeWorld
<1>3. CASE Handler
  BY <1>3, AgreeHandler
<1>4. CASE Time
  BY <1>4, AgreeKept DEF Time, DelayExpires, PaceOver, PollComesDue, SourceReady,
     ClockComesDue, stateVars, callVars, linkVars, sourceVars, localVars
<1>5. ASSUME NEW c \in Clients, Invocation(c) PROVE AgreeInv'
  BY <1>5, AgreeForward, AgreeApply, AgreeFinish DEF Invocation
<1>6. CASE UNCHANGED vars
  BY <1>6, AgreeKept DEF vars, stateVars, callVars, linkVars, sourceVars, localVars
<1>. QED BY <1>1, <1>2, <1>3, <1>4, <1>5, <1>6 DEF Next

(* When forwarding reaches every connected source, the central's state     *)
(* changes by invocations only and no reconnection goes unobserved, the    *)
(* served peripherals agree with the central whenever nothing is under     *)
(* way, whatever calls overlap or are rejected and replays refused.        *)
THEOREM PeripheralsAgree ==
    ASSUME Irregular \cap {"local", "drop", "blip"} = {}
    PROVE  Spec => []ReplicasAgree
<1>1. Init => AgreeInv
  BY DEF Init, AgreeInv, Outstanding
<1>2. TypeOK /\ AgreeInv => ReplicasAgree
  BY DEF AgreeInv, Agreement, ReplicasAgree
<1>3. Spec => []TypeOK
  BY SyncTypeCorrect
<1>4. Spec => []ReplayInv
  BY ReplaysCurrent
<1>. QED BY <1>1, <1>2, <1>3, <1>4, AgreeInvStep, PTL DEF Spec

-----------------------------------------------------------------------------
(* The order of a replay.  What holds of a number when it holds of those   *)
(* below it holds of every number.                                         *)
LEMMA AllNumbers ==
    ASSUME NEW S, \A n \in Nat : (\A m \in Nat : m < n => m \in S) => n \in S
    PROVE  \A n \in Nat : n \in S
<1>. DEFINE below == {pair \in Nat \X Nat : pair[1] < pair[2]}
            rest == Nat \ S
<1>1. IsWellFoundedOn(below, Nat)
  BY NatLessThanWellFounded DEF OpToRel
<1>2. ASSUME rest # {} PROVE FALSE
  <2>1. PICK n \in rest : \A m \in rest : <<m, n>> \notin below
    <3>. HIDE DEF below
    <3>1. rest \subseteq Nat
      OBVIOUS
    <3>. HIDE DEF rest
    <3>. QED BY <1>1, <1>2, <3>1, WFMin
  <2>2. \A m \in Nat : m < n => m \in S
    BY <2>1
  <2>. QED BY <2>2
<1>. QED BY <1>2

(* FlattenSeq joins the sequences one after the other. *)
JoinedAt(seqs, f, i) == IF i = 1 THEN seqs[i] ELSE f[i - 1] \o seqs[i]
Joins(seqs, f, n) == f = [i \in 1..n |-> JoinedAt(seqs, f, i)]

LEMMA FlattenSolves ==
    ASSUME NEW seqs, Len(seqs) # 0, NEW f, Joins(seqs, f, Len(seqs))
    PROVE  \E g : Joins(seqs, g, Len(seqs)) /\ FlattenSeq(seqs) = g[Len(seqs)]
<1>. DEFINE n == Len(seqs)
            g == CHOOSE h : h = [i \in 1..n |-> JoinedAt(seqs, h, i)]
<1>1. FlattenSeq(seqs) = g[n]
  BY DEF FlattenSeq, JoinedAt
<1>2. Joins(seqs, g, n)
  BY DEF Joins
<1>. QED BY <1>1, <1>2

LEMMA FlattenJoins ==
    ASSUME NEW seqs, Len(seqs) \in Nat \ {0}
    PROVE  \E g : Joins(seqs, g, Len(seqs)) /\ FlattenSeq(seqs) = g[Len(seqs)]
<1>. DEFINE length == Len(seqs)
            S == {n \in Nat : \E f : Joins(seqs, f, n)}
<1>1. ASSUME NEW n \in Nat, \A m \in Nat : m < n => m \in S PROVE n \in S
  <2>1. CASE n = 0
    <3>. DEFINE g == [i \in 1..0 |-> <<>>]
    <3>1. g = [i \in 1..0 |-> JoinedAt(seqs, g, i)]
      OBVIOUS
    <3>. QED BY <2>1, <3>1 DEF Joins
  <2>2. CASE n # 0
    <3>1. n - 1 \in S
      <4>. HIDE DEF S
      <4>. QED BY <1>1, <2>2
    <3>2. PICK f : Joins(seqs, f, n - 1)
      BY <3>1
    <3>. DEFINE g == [i \in 1..n |-> JoinedAt(seqs, f, i)]
    <3>3. ASSUME NEW i \in 1..n PROVE JoinedAt(seqs, g, i) = JoinedAt(seqs, f, i)
      <4>1. ASSUME i # 1 PROVE i - 1 \in 1..n /\ i - 1 \in 1..(n - 1)
        BY <4>1
      <4>2. ASSUME i # 1 PROVE g[i - 1] = f[i - 1]
        BY <3>2, <4>1, <4>2 DEF Joins
      <4>. QED BY <4>2 DEF JoinedAt
    <3>4. Joins(seqs, g, n)
      BY <3>3 DEF Joins
    <3>. QED BY <3>4
  <2>. QED BY <2>1, <2>2
<1>2. length \in S
  <2>. HIDE DEF S, length
  <2>1. length \in Nat
    BY DEF length
  <2>. QED BY <1>1, <2>1, AllNumbers
<1>. QED BY <1>2, FlattenSolves

(* Where they end, and that each is found in its place. *)
Places(seqs, whole, ends) ==
    /\ ends \in [0..Len(seqs) -> Nat] /\ ends[0] = 0 /\ ends[Len(seqs)] = Len(whole)
    /\ \A i \in 1..Len(seqs) : ends[i] = ends[i - 1] + Len(seqs[i])
    /\ \A i \in 1..Len(seqs) : \A j \in 1..Len(seqs[i]) :
          ends[i - 1] + j <= Len(whole) /\ whole[ends[i - 1] + j] = seqs[i][j]

Begins(a, b) == Len(a) <= Len(b) /\ \A k \in 1..Len(a) : b[k] = a[k]

LEMMA JoinTwo ==
    ASSUME NEW T, NEW a \in Seq(T), NEW b \in Seq(T)
    PROVE  /\ a \o b \in Seq(T) /\ Len(a \o b) = Len(a) + Len(b) /\ Begins(a, a \o b)
           /\ \A j \in 1..Len(b) : (a \o b)[Len(a) + j] = b[j]
BY DEF Begins

LEMMA BeginsOn ==
    ASSUME NEW T, NEW a \in Seq(T), NEW b \in Seq(T), NEW c \in Seq(T),
           Begins(a, b), Begins(b, c)
    PROVE  Begins(a, c)
<1>1. Len(a) \in Nat /\ Len(b) \in Nat /\ Len(c) \in Nat
  OBVIOUS
<1>. QED BY <1>1 DEF Begins

LEMMA JoinedPlaces ==
    ASSUME NEW T, NEW n \in Nat, NEW seqs \in Seq(Seq(T)), Len(seqs) = n, NEW h,
           h[0] = <<>>, \A i \in 1..n : h[i] = h[i - 1] \o seqs[i]
    PROVE  /\ h[n] \in Seq(T)
           /\ Places(seqs, h[n], [i \in 0..n |-> Len(h[i])])
<1>. DEFINE S == {i \in Nat : i <= n => h[i] \in Seq(T)}
            W == {k \in Nat : k <= n => Begins(h[n - k], h[n])}
<1>1. \A i \in 1..n : seqs[i] \in Seq(T) /\ Len(seqs[i]) \in Nat
  OBVIOUS
<1>2. ASSUME NEW i \in Nat, \A m \in Nat : m < i => m \in S PROVE i \in S
  <2>. SUFFICES ASSUME i <= n PROVE h[i] \in Seq(T)
    OBVIOUS
  <2>1. CASE i = 0
    <3>1. <<>> \in Seq(T)
      OBVIOUS
    <3>. QED BY <2>1, <3>1
  <2>2. CASE i # 0
    <3>1. i - 1 \in S
      <4>. HIDE DEF S
      <4>. QED BY <1>2, <2>2
    <3>2. h[i - 1] \in Seq(T) /\ seqs[i] \in Seq(T) /\ h[i] = h[i - 1] \o seqs[i]
      BY <1>1, <2>2, <3>1
    <3>. HIDE DEF S
    <3>. QED BY <3>2, JoinTwo
  <2>. QED BY <2>1, <2>2
<1>3. \A i \in 0..n : h[i] \in Seq(T) /\ Len(h[i]) \in Nat
  <2>1. \A i \in Nat : i \in S
    <3>. HIDE DEF S
    <3>. QED BY <1>2, AllNumbers
  <2>2. ASSUME NEW i \in 0..n PROVE h[i] \in Seq(T)
    <3>1. i \in Nat /\ i <= n
      OBVIOUS
    <3>. QED BY <2>1, <3>1
  <2>. QED BY ONLY <2>2
<1>4. ASSUME NEW i \in 1..n
      PROVE  /\ Len(h[i]) = Len(h[i - 1]) + Len(seqs[i]) /\ Begins(h[i - 1], h[i])
             /\ \A j \in 1..Len(seqs[i]) : h[i][Len(h[i - 1]) + j] = seqs[i][j]
  <2>1. h[i - 1] \in Seq(T) /\ h[i] = h[i - 1] \o seqs[i]
    <3>1. i - 1 \in 0..n
      OBVIOUS
    <3>. HIDE DEF S, W
    <3>. QED BY <1>3, <3>1
  <2>. HIDE DEF S, W
  <2>. QED BY <1>1, <2>1, JoinTwo
<1>5. ASSUME NEW k \in Nat, \A m \in Nat : m < k => m \in W PROVE k \in W
  <2>. SUFFICES ASSUME k <= n PROVE Begins(h[n - k], h[n])
    OBVIOUS
  <2>1. CASE k = 0
    BY <1>3, <2>1 DEF Begins
  <2>2. CASE k # 0
    <3>. DEFINE i == n - k + 1
    <3>1. k - 1 \in W
      <4>. HIDE DEF W
      <4>. QED BY <1>5, <2>2
    <3>2. i \in 1..n /\ i - 1 = n - k /\ n - (k - 1) = i /\ i - 1 \in 0..n /\ i \in 0..n
          /\ n \in 0..n
      BY <2>2
    <3>3. Begins(h[n - (k - 1)], h[n])
      BY <2>2, <3>1
    <3>. HIDE DEF i
    <3>4. Begins(h[i - 1], h[i]) /\ Begins(h[i], h[n])
      BY <1>4, <3>2, <3>3
    <3>. QED BY <1>3, <3>2, <3>4, BeginsOn
  <2>. QED BY <2>1, <2>2
<1>6. \A i \in 0..n : Begins(h[i], h[n])
  <2>1. \A k \in Nat : k \in W
    <3>. HIDE DEF W
    <3>. QED BY <1>5, AllNumbers
  <2>2. ASSUME NEW i \in 0..n PROVE Begins(h[i], h[n])
    <3>1. n - i \in W /\ n - i <= n /\ n - (n - i) = i
      <4>. HIDE DEF W
      <4>. QED BY <2>1
    <3>. QED BY <3>1
  <2>. QED BY <2>2
<1>7. ASSUME NEW i \in 1..n, NEW j \in 1..Len(seqs[i])
      PROVE  /\ Len(h[i - 1]) + j <= Len(h[n])
             /\ h[n][Len(h[i - 1]) + j] = seqs[i][j]
  <2>. DEFINE k == Len(h[i - 1]) + j
  <2>1. i - 1 \in 0..n /\ i \in 0..n /\ n \in 0..n
    OBVIOUS
  <2>. HIDE DEF S, W
  <2>2. Len(h[i - 1]) \in Nat /\ Len(h[i]) \in Nat /\ Len(h[n]) \in Nat
    BY <1>3, <2>1
  <2>3. k \in 1..Len(h[i])
    BY <1>1, <1>4, <2>2
  <2>4. h[i][k] = seqs[i][j]
    BY <1>4
  <2>5. Len(h[i]) <= Len(h[n]) /\ h[n][k] = h[i][k]
    BY <1>6, <2>1, <2>3 DEF Begins
  <2>. HIDE DEF k
  <2>6. k <= Len(h[n]) /\ h[n][k] = seqs[i][j]
    BY <2>2, <2>3, <2>4, <2>5
  <2>. QED BY <2>6 DEF k
<1>. HIDE DEF S, W
<1>. DEFINE ends == [i \in 0..n |-> Len(h[i])]
<1>8. /\ ends \in [0..n -> Nat] /\ ends[0] = 0 /\ ends[n] = Len(h[n])
      /\ \A i \in 1..n : ends[i] = Len(h[i]) /\ ends[i - 1] = Len(h[i - 1])
  <2>1. ends \in [0..n -> Nat]
    BY ONLY <1>3
  <2>2. ends[0] = 0 /\ ends[n] = Len(h[n])
    <3>1. 0 \in 0..n /\ n \in 0..n
      BY ONLY n \in Nat
    <3>. QED BY <3>1
  <2>3. ASSUME NEW i \in 1..n PROVE ends[i] = Len(h[i]) /\ ends[i - 1] = Len(h[i - 1])
    <3>1. i \in 0..n /\ i - 1 \in 0..n
      BY ONLY n \in Nat, i \in 1..n
    <3>. QED BY ONLY <3>1
  <2>. HIDE DEF ends
  <2>. QED BY ONLY <2>1, <2>2, <2>3
<1>. HIDE DEF ends
<1>9. Places(seqs, h[n], ends)
  BY <1>4, <1>7, <1>8 DEF Places
<1>. QED BY <1>3, <1>9 DEF ends

LEMMA FlattenPlaces ==
    ASSUME NEW T, NEW seqs \in Seq(Seq(T))
    PROVE  /\ FlattenSeq(seqs) \in Seq(T)
           /\ \E ends : Places(seqs, FlattenSeq(seqs), ends)
<1>. DEFINE n == Len(seqs)
<1>1. PICK h : h[0] = <<>> /\ (\A i \in 1..n : h[i] = h[i - 1] \o seqs[i])
               /\ FlattenSeq(seqs) = h[n]
  <2>1. CASE seqs = <<>>
    <3>. DEFINE h == [i \in 0..0 |-> <<>>]
    <3>1. h[0] = <<>> /\ (\A i \in 1..n : h[i] = h[i - 1] \o seqs[i])
          /\ FlattenSeq(seqs) = h[n]
      BY <2>1 DEF FlattenSeq
    <3>. QED BY <3>1
  <2>2. CASE seqs # <<>>
    <3>1. n \in Nat \ {0} /\ seqs[1] \in Seq(T)
      BY <2>2
    <3>2. PICK g : Joins(seqs, g, n) /\ FlattenSeq(seqs) = g[n]
      BY <3>1, FlattenJoins
    <3>. HIDE DEF n
    <3>. DEFINE h == [i \in 0..n |-> IF i = 0 THEN <<>> ELSE g[i]]
    <3>3. h[0] = <<>> /\ FlattenSeq(seqs) = h[n]
      BY <3>1, <3>2
    <3>4. ASSUME NEW i \in 1..n PROVE h[i] = h[i - 1] \o seqs[i]
      <4>1. CASE i = 1
        <5>1. h[0] = <<>> /\ h[1] = seqs[1] /\ i - 1 = 0
          BY <3>1, <3>2, <4>1 DEF Joins, JoinedAt
        <5>2. <<>> \o seqs[1] = seqs[1]
          BY <3>1
        <5>. QED BY <4>1, <5>1, <5>2
      <4>2. CASE i # 1
        <5>1. g[i] = g[i - 1] \o seqs[i]
          BY <3>2, <4>2 DEF Joins, JoinedAt
        <5>2. h[i] = g[i] /\ h[i - 1] = g[i - 1]
          BY <3>1, <4>2
        <5>. QED BY <5>1, <5>2
      <4>. QED BY <4>1, <4>2
    <3>. HIDE DEF h
    <3>. QED BY <3>3, <3>4
  <2>. QED BY <2>1, <2>2
<1>2. n \in Nat /\ Len(seqs) = n
  OBVIOUS
<1>. HIDE DEF n
<1>3. h[n] \in Seq(T) /\ Places(seqs, h[n], [i \in 0..n |-> Len(h[i])])
  BY <1>1, <1>2, JoinedPlaces
<1>. QED BY <1>1, <1>3

LEMMA EndsGrow ==
    ASSUME NEW n \in Nat, NEW ends \in [0..n -> Nat], NEW sum \in [0..n -> Nat],
           ends[0] = sum[0],
           \A i \in 1..n : ends[i] - ends[i - 1] = sum[i] - sum[i - 1]
    PROVE  ends = sum
<1>. DEFINE S == {i \in Nat : i <= n => ends[i] = sum[i]}
<1>1. ASSUME NEW i \in Nat, \A m \in Nat : m < i => m \in S PROVE i \in S
  <2>1. CASE i = 0
    BY <2>1
  <2>2. CASE i # 0
    <3>1. i - 1 \in S
      <4>. HIDE DEF S
      <4>. QED BY <1>1, <2>2
    <3>2. ASSUME i <= n PROVE ends[i] = sum[i]
      <4>1. i \in 1..n /\ i - 1 \in 0..n /\ i \in 0..n
        BY <2>2, <3>2
      <4>2. ends[i - 1] = sum[i - 1]
        BY <2>2, <3>1, <3>2
      <4>3. /\ ends[i] \in Nat /\ ends[i - 1] \in Nat /\ sum[i] \in Nat /\ sum[i - 1] \in Nat
            /\ ends[i] - ends[i - 1] = sum[i] - sum[i - 1]
        BY <4>1
      <4>. QED BY <4>2, <4>3
    <3>. QED BY <3>2
  <2>. QED BY <2>1, <2>2
<1>2. \A i \in Nat : i \in S
  <2>. HIDE DEF S
  <2>. QED BY <1>1, AllNumbers
<1>3. \A i \in 0..n : ends[i] = sum[i]
  BY <1>2
<1>. QED BY <1>3

(* The commands of a selector: two for each effect, and the selection. *)
Layout == [words : Nat \ {0}, members : Seq(Nat \ {0})]
Commands == [kind : {"brightness", "power", "gates", "color", "period", "selection"},
             selector : Int, index : Int]

LEMMA SelectorPlaces ==
    ASSUME NEW l \in Layout, NEW s \in 1..Len(l.members)
    PROVE  LET items == SelectorItems(l, s)
               count == l.members[s]
           IN /\ items \in Seq(Commands) /\ Len(items) = 2 * count + 1
              /\ \A m \in 1..count :
                    /\ items[2 * (m - 1) + 1] = Item("color", s - 1, m - 1)
                    /\ items[2 * (m - 1) + 2] = Item("period", s - 1, m - 1)
              /\ items[2 * count + 1] = Item("selection", s - 1, 0)
<1>. DEFINE items == SelectorItems(l, s)
            count == l.members[s]
            seqs == [m \in 1..count |-> MemberItems(s, m)]
            whole == FlattenSeq(seqs)
            last == <<Item("selection", s - 1, 0)>>
<1>1. count \in Nat \ {0} /\ s \in Int
  BY DEF Layout
<1>. HIDE DEF count
<1>2. \A m \in 1..count : /\ MemberItems(s, m) \in Seq(Commands)
                          /\ Len(MemberItems(s, m)) = 2
                          /\ MemberItems(s, m)[1] = Item("color", s - 1, m - 1)
                          /\ MemberItems(s, m)[2] = Item("period", s - 1, m - 1)
  BY <1>1 DEF MemberItems, Item, Commands
<1>3. /\ seqs \in Seq(Seq(Commands)) /\ Len(seqs) = count
      /\ \A m \in 1..count : seqs[m] = MemberItems(s, m)
  BY <1>1, <1>2
<1>. HIDE DEF seqs
<1>4. PICK ends : whole \in Seq(Commands) /\ Places(seqs, whole, ends)
  BY <1>3, FlattenPlaces
<1>5. items = whole \o last
  BY DEF SelectorItems, seqs, count
<1>6. last \in Seq(Commands) /\ Len(last) = 1 /\ last[1] = Item("selection", s - 1, 0)
  BY <1>1 DEF Item, Commands
<1>. HIDE DEF whole, last, items
<1>7. ends = [m \in 0..count |-> 2 * m]
  <2>. DEFINE twice == [m \in 0..count |-> 2 * m]
  <2>1. /\ twice \in [0..count -> Nat] /\ twice[0] = 0
        /\ \A m \in 1..count : twice[m] = 2 * m /\ twice[m - 1] = 2 * (m - 1)
    BY <1>1
  <2>2. ends \in [0..count -> Nat] /\ ends[0] = 0
    BY <1>3, <1>4 DEF Places
  <2>3. ASSUME NEW m \in 1..count PROVE ends[m] - ends[m - 1] = 2
    <3>1. ends[m] = ends[m - 1] + 2
      <4>1. Len(seqs[m]) = 2
        BY <1>2, <1>3
      <4>2. ends[m] = ends[m - 1] + Len(seqs[m])
        BY <1>3, <1>4 DEF Places
      <4>. QED BY <4>1, <4>2
    <3>2. m \in 0..count /\ m - 1 \in 0..count
      BY <1>1
    <3>3. ends[m - 1] \in Nat
      BY <2>2, <3>2
    <3>. QED BY <3>1, <3>3
  <2>4. ASSUME NEW m \in 1..count PROVE twice[m] - twice[m - 1] = 2
    <3>1. m \in 0..count /\ m - 1 \in 0..count /\ m \in Int
      BY <1>1
    <3>2. twice[m] = 2 * m /\ twice[m - 1] = 2 * (m - 1)
      BY <3>1
    <3>. HIDE DEF twice
    <3>. QED BY <3>1, <3>2
  <2>. HIDE DEF twice
  <2>5. \A m \in 1..count : ends[m] - ends[m - 1] = twice[m] - twice[m - 1]
    BY <2>3, <2>4
  <2>6. count \in Nat /\ ends[0] = twice[0]
    BY <1>1, <2>1, <2>2
  <2>7. ends = twice
    BY <2>1, <2>2, <2>5, <2>6, EndsGrow
  <2>. QED BY <2>7 DEF twice
<1>8. Len(whole) = 2 * count
  BY <1>1, <1>3, <1>4, <1>7 DEF Places
<1>9. /\ items \in Seq(Commands) /\ Len(items) = 2 * count + 1
      /\ items[2 * count + 1] = Item("selection", s - 1, 0)
  <2>1. items \in Seq(Commands) /\ Len(items) = Len(whole) + 1
        /\ items[Len(whole) + 1] = last[1]
    <3>1. /\ whole \o last \in Seq(Commands) /\ Len(whole \o last) = Len(whole) + Len(last)
          /\ \A j \in 1..Len(last) : (whole \o last)[Len(whole) + j] = last[j]
      <4>1. whole \in Seq(Commands) /\ last \in Seq(Commands)
        BY <1>4, <1>6
      <4>. HIDE DEF last
      <4>. QED BY ONLY <4>1, JoinTwo
    <3>2. 1 \in 1..Len(last)
      BY <1>6
    <3>. QED BY <1>5, <1>6, <3>1, <3>2
  <2>. QED BY <1>6, <1>8, <2>1
<1>10. ASSUME NEW m \in 1..count, NEW j \in 1..2
       PROVE  items[2 * (m - 1) + j] = MemberItems(s, m)[j]
  <2>1. ends[m - 1] = 2 * (m - 1)
    BY <1>1, <1>7
  <2>2. 2 * (m - 1) + j <= Len(whole) /\ whole[2 * (m - 1) + j] = MemberItems(s, m)[j]
    BY <1>2, <1>3, <1>4, <2>1 DEF Places
  <2>3. 2 * (m - 1) + j \in 1..Len(whole)
    BY <1>1, <1>8, <2>2
  <2>4. \A k \in 1..Len(whole) : items[k] = whole[k]
    BY <1>4, <1>5, <1>6, JoinTwo DEF Begins
  <2>. QED BY <2>2, <2>3, <2>4
<1>11. \A m \in 1..count : /\ items[2 * (m - 1) + 1] = Item("color", s - 1, m - 1)
                           /\ items[2 * (m - 1) + 2] = Item("period", s - 1, m - 1)
  BY <1>2, <1>10
<1>. QED BY <1>9, <1>11 DEF items, count

(* Ahead is what comes before a selector. *)
AheadAt(l, f, s) == IF s = 0 THEN 2 + l.words ELSE f[s - 1] + 2 * l.members[s] + 1

LEMMA AheadSolves ==
    ASSUME NEW l, NEW f, f = [s \in 0..Len(l.members) |-> AheadAt(l, f, s)]
    PROVE  Ahead(l) = [s \in 0..Len(l.members) |-> AheadAt(l, Ahead(l), s)]
<1>. DEFINE g == CHOOSE h : h = [s \in 0..Len(l.members) |-> AheadAt(l, h, s)]
<1>1. Ahead(l) = g
  BY DEF Ahead, AheadAt
<1>2. g = [s \in 0..Len(l.members) |-> AheadAt(l, g, s)]
  OBVIOUS
<1>. QED BY <1>1, <1>2

LEMMA AheadPlaces ==
    ASSUME NEW l \in Layout, NEW ends \in [0..Len(l.members) -> Nat], ends[0] = 0,
           \A s \in 1..Len(l.members) : ends[s] = ends[s - 1] + (2 * l.members[s] + 1)
    PROVE  Ahead(l) = [s \in 0..Len(l.members) |-> 2 + l.words + ends[s]]
<1>. DEFINE n == Len(l.members)
            sum == [s \in 0..n |-> 2 + l.words + ends[s]]
<1>1. n \in Nat /\ l.words \in Nat /\ \A s \in 1..n : l.members[s] \in Nat
  BY DEF Layout
<1>. HIDE DEF n
<1>2. /\ sum \in [0..n -> Nat]
      /\ \A s \in 0..n : sum[s] = 2 + l.words + ends[s]
  BY <1>1 DEF n
<1>3. ASSUME NEW s \in 0..n PROVE sum[s] = AheadAt(l, sum, s)
  <2>1. CASE s = 0
    BY <1>1, <1>2, <2>1 DEF AheadAt
  <2>2. CASE s # 0
    <3>1. s \in 1..n /\ s - 1 \in 0..n
      BY <1>1, <2>2
    <3>2. /\ ends[s] = ends[s - 1] + (2 * l.members[s] + 1)
          /\ ends[s - 1] \in Nat /\ l.members[s] \in Nat
      BY <1>1, <3>1 DEF n
    <3>3. sum[s] = 2 + l.words + ends[s] /\ sum[s - 1] = 2 + l.words + ends[s - 1]
      BY <1>2, <3>1
    <3>. HIDE DEF sum
    <3>4. sum[s] = sum[s - 1] + 2 * l.members[s] + 1
      <4>. DEFINE words == l.words
                  count == l.members[s]
                  end == ends[s - 1]
      <4>1. /\ words \in Nat /\ count \in Nat /\ end \in Nat
            /\ sum[s] = 2 + words + ends[s] /\ ends[s] = end + (2 * count + 1)
            /\ sum[s - 1] = 2 + words + end
        BY <1>1, <3>2, <3>3
      <4>. HIDE DEF words, count, end
      <4>2. sum[s] = sum[s - 1] + 2 * count + 1
        BY <4>1
      <4>. QED BY <4>2 DEF count
    <3>. QED BY <2>2, <3>4 DEF AheadAt
  <2>. QED BY <2>1, <2>2
<1>4. sum = [s \in 0..n |-> AheadAt(l, sum, s)]
  BY <1>3
<1>. DEFINE ahead == Ahead(l)
<1>5. ahead = [s \in 0..n |-> AheadAt(l, ahead, s)]
  <2>. HIDE DEF sum
  <2>. QED BY <1>4, AheadSolves DEF n
<1>. HIDE DEF ahead
<1>. DEFINE S == {s \in Nat : s <= n => ahead[s] = sum[s]}
<1>6. ASSUME NEW s \in Nat, \A m \in Nat : m < s => m \in S PROVE s \in S
  <2>. SUFFICES ASSUME s <= n PROVE ahead[s] = sum[s]
    OBVIOUS
  <2>1. ahead[s] = AheadAt(l, ahead, s) /\ sum[s] = AheadAt(l, sum, s)
    <3>1. s \in 0..n
      BY <1>1
    <3>. HIDE DEF S, sum
    <3>2. ahead[s] = AheadAt(l, ahead, s)
      BY <1>5, <3>1
    <3>3. sum[s] = AheadAt(l, sum, s)
      BY <1>3, <3>1
    <3>. QED BY <3>2, <3>3
  <2>2. CASE s = 0
    BY <2>1, <2>2 DEF AheadAt
  <2>3. CASE s # 0
    <3>1. s - 1 \in S
      <4>. HIDE DEF S
      <4>. QED BY <1>6, <2>3
    <3>2. ahead[s - 1] = sum[s - 1]
      <4>1. s - 1 <= n
        BY <1>1
      <4>. HIDE DEF sum
      <4>. QED BY <3>1, <4>1
    <3>. HIDE DEF S, sum
    <3>. QED BY <2>1, <2>3, <3>2 DEF AheadAt
  <2>. QED BY <2>2, <2>3
<1>7. \A s \in Nat : s \in S
  <2>. HIDE DEF S
  <2>. QED BY <1>6, AllNumbers
<1>8. ASSUME NEW s \in 0..n PROVE ahead[s] = sum[s]
  <2>1. s \in S /\ s <= n
    <3>. HIDE DEF S
    <3>. QED BY <1>1, <1>7
  <2>. HIDE DEF sum
  <2>. QED BY <2>1
<1>9. ahead = sum
  <2>1. ahead = [s \in 0..n |-> ahead[s]]
    BY <1>5
  <2>2. sum = [s \in 0..n |-> sum[s]]
    OBVIOUS
  <2>. HIDE DEF sum
  <2>. QED BY <1>8, <2>1, <2>2
<1>. QED BY <1>9 DEF ahead, n

(* Every command has its place in the order of a layout. *)
LEMMA OrderPlaces ==
    ASSUME NEW l \in Layout
    PROVE  LET order == Order(l)
               ahead == Ahead(l)
               n == Len(l.members)
           IN /\ Len(order) \in Nat /\ ahead \in [0..n -> Nat]
              /\ ahead[0] = 2 + l.words /\ ahead[n] = Len(order)
              /\ order[1] = Item("brightness", 0, 0) /\ order[2] = Item("power", 0, 0)
              /\ \A w \in 1..l.words : order[2 + w] = Item("gates", 0, w - 1)
              /\ \A s \in 1..n :
                    /\ ahead[s] = ahead[s - 1] + (2 * l.members[s] + 1)
                    /\ ahead[s] <= Len(order)
                    /\ \A m \in 1..l.members[s] :
                          /\ order[ahead[s - 1] + (2 * (m - 1) + 1)] = Item("color", s - 1, m - 1)
                          /\ order[ahead[s - 1] + (2 * (m - 1) + 2)] = Item("period", s - 1, m - 1)
                    /\ order[ahead[s - 1] + (2 * l.members[s] + 1)] = Item("selection", s - 1, 0)
<1>. DEFINE order == Order(l)
            ahead == Ahead(l)
            n == Len(l.members)
            first == <<Item("brightness", 0, 0), Item("power", 0, 0)>>
            gates == [w \in 1..l.words |-> Item("gates", 0, w - 1)]
            front == first \o gates
            seqs == [s \in 1..n |-> SelectorItems(l, s)]
            rest == FlattenSeq(seqs)
            length == 2 + l.words
<1>1. /\ n \in Nat /\ l.words \in Nat \ {0} /\ l.members \in Seq(Nat \ {0})
      /\ \A s \in 1..n : l.members[s] \in Nat
  BY DEF Layout
<1>2. order = front \o rest
  BY DEF Order
<1>3. /\ first \in Seq(Commands) /\ Len(first) = 2
      /\ first[1] = Item("brightness", 0, 0) /\ first[2] = Item("power", 0, 0)
  BY DEF Item, Commands
<1>4. /\ gates \in Seq(Commands) /\ Len(gates) = l.words
      /\ \A w \in 1..l.words : gates[w] = Item("gates", 0, w - 1)
  <2>1. \A w \in 1..l.words : Item("gates", 0, w - 1) \in Commands
    BY <1>1 DEF Item, Commands
  <2>. QED BY <1>1, <2>1
<1>. HIDE DEF first, gates
<1>5. /\ front \in Seq(Commands) /\ Len(front) = length
      /\ front[1] = Item("brightness", 0, 0) /\ front[2] = Item("power", 0, 0)
      /\ \A w \in 1..l.words : front[2 + w] = Item("gates", 0, w - 1)
  <2>1. /\ front \in Seq(Commands) /\ Len(front) = Len(first) + Len(gates)
        /\ \A k \in 1..Len(first) : front[k] = first[k]
        /\ \A j \in 1..Len(gates) : front[Len(first) + j] = gates[j]
    <3>1. /\ first \o gates \in Seq(Commands) /\ Begins(first, first \o gates)
          /\ Len(first \o gates) = Len(first) + Len(gates)
          /\ \A j \in 1..Len(gates) : (first \o gates)[Len(first) + j] = gates[j]
      <4>1. first \in Seq(Commands) /\ gates \in Seq(Commands)
        BY <1>3, <1>4
      <4>. HIDE DEF front, n
      <4>. QED BY <4>1, JoinTwo
    <3>2. \A k \in 1..Len(first) : (first \o gates)[k] = first[k]
      BY <3>1 DEF Begins
    <3>. QED BY <3>1, <3>2
  <2>. HIDE DEF front
  <2>. QED BY <1>1, <1>3, <1>4, <2>1
<1>. HIDE DEF front
<1>6. /\ seqs \in Seq(Seq(Commands)) /\ Len(seqs) = n
      /\ \A s \in 1..n : seqs[s] = SelectorItems(l, s)
  <2>1. \A s \in 1..n : SelectorItems(l, s) \in Seq(Commands)
    BY SelectorPlaces
  <2>. QED BY <1>1, <2>1
<1>. HIDE DEF seqs
<1>7. PICK ends : rest \in Seq(Commands) /\ Places(seqs, rest, ends)
  BY <1>6, FlattenPlaces
<1>. HIDE DEF rest, order, length
<1>8. /\ length \in Nat /\ length = 2 + l.words /\ Len(rest) \in Nat
      /\ order \in Seq(Commands) /\ Len(order) = length + Len(rest)
      /\ \A k \in 1..length : order[k] = front[k]
      /\ \A k \in 1..Len(rest) : order[length + k] = rest[k]
  <2>1. length \in Nat /\ length = 2 + l.words /\ Len(rest) \in Nat
    BY <1>1, <1>7 DEF length
  <2>2. /\ order \in Seq(Commands) /\ Begins(front, order)
        /\ Len(order) = Len(front) + Len(rest)
        /\ \A j \in 1..Len(rest) : order[Len(front) + j] = rest[j]
    <3>1. front \in Seq(Commands) /\ rest \in Seq(Commands)
      BY <1>5, <1>7
    <3>. HIDE DEF n, ahead
    <3>2. /\ front \o rest \in Seq(Commands) /\ Begins(front, front \o rest)
          /\ Len(front \o rest) = Len(front) + Len(rest)
          /\ \A j \in 1..Len(rest) : (front \o rest)[Len(front) + j] = rest[j]
      BY <3>1, JoinTwo
    <3>. QED BY <1>2, <3>2
  <2>3. \A k \in 1..Len(front) : order[k] = front[k]
    BY <2>2 DEF Begins
  <2>. QED BY <1>5, <2>1, <2>2, <2>3
<1>9. /\ ends \in [0..n -> Nat] /\ ends[0] = 0 /\ ends[n] = Len(rest)
      /\ \A s \in 1..n : ends[s] = ends[s - 1] + (2 * l.members[s] + 1)
  <2>1. \A s \in 1..n : Len(seqs[s]) = 2 * l.members[s] + 1
    BY <1>6, SelectorPlaces
  <2>. QED BY <1>6, <1>7, <2>1 DEF Places
<1>10. /\ ahead \in [0..n -> Nat]
       /\ \A s \in 0..n : ahead[s] = length + ends[s]
  <2>1. ahead = [s \in 0..n |-> 2 + l.words + ends[s]]
    BY <1>9, AheadPlaces
  <2>2. \A s \in 0..n : 2 + l.words + ends[s] \in Nat
    <3>1. \A s \in 0..n : ends[s] \in Nat
      BY <1>9
    <3>2. \A a \in Nat, b \in Nat : 2 + a + b \in Nat
      OBVIOUS
    <3>3. l.words \in Nat
      BY <1>1
    <3>. QED BY <3>1, <3>2, <3>3
  <2>. HIDE DEF n
  <2>. QED BY <1>8, <2>1, <2>2
<1>. HIDE DEF ahead
<1>11. ahead[0] = 2 + l.words /\ ahead[n] = Len(order)
  <2>1. 0 \in 0..n /\ n \in 0..n
    BY <1>1
  <2>. HIDE DEF n
  <2>. QED BY <1>8, <1>9, <1>10, <2>1
<1>12. /\ order[1] = Item("brightness", 0, 0) /\ order[2] = Item("power", 0, 0)
       /\ \A w \in 1..l.words : order[2 + w] = Item("gates", 0, w - 1)
  <2>1. /\ 1 \in 1..length /\ 2 \in 1..length
        /\ \A w \in 1..l.words : 2 + w \in 1..length
    BY <1>1, <1>8
  <2>. QED BY <1>5, <1>8, <2>1
<1>13. ASSUME NEW s \in 1..n
       PROVE  /\ ahead[s] = ahead[s - 1] + (2 * l.members[s] + 1)
              /\ ahead[s] <= Len(order)
              /\ \A j \in 1..(2 * l.members[s] + 1) :
                    order[ahead[s - 1] + j] = SelectorItems(l, s)[j]
  <2>1. /\ s \in 0..n /\ s - 1 \in 0..n
        /\ l.members[s] \in Nat /\ Len(SelectorItems(l, s)) = 2 * l.members[s] + 1
    BY <1>1, SelectorPlaces
  <2>. DEFINE size == 2 * l.members[s] + 1
  <2>2. size \in Nat \ {0}
    BY <2>1
  <2>3. /\ ends[s] = ends[s - 1] + size /\ ends[s - 1] \in Nat
        /\ ahead[s] = length + ends[s] /\ ahead[s - 1] = length + ends[s - 1]
    BY <1>9, <1>10, <2>1
  <2>4. \A j \in 1..size : /\ ends[s - 1] + j <= Len(rest)
                           /\ rest[ends[s - 1] + j] = SelectorItems(l, s)[j]
    <3>1. s \in 1..Len(seqs) /\ seqs[s] = SelectorItems(l, s) /\ Len(seqs[s]) = size
      BY <1>6, <2>1
    <3>2. \A j \in 1..Len(seqs[s]) : /\ ends[s - 1] + j <= Len(rest)
                                     /\ rest[ends[s - 1] + j] = seqs[s][j]
      BY <1>7, <3>1 DEF Places
    <3>. HIDE DEF size, seqs
    <3>. QED BY <3>1, <3>2
  <2>. HIDE DEF size, n
  <2>5. ASSUME NEW j \in 1..size PROVE order[ahead[s - 1] + j] = SelectorItems(l, s)[j]
    <3>1. ends[s - 1] + j \in 1..Len(rest)
      <4>. DEFINE a == ends[s - 1]
                  r == Len(rest)
      <4>1. a \in Nat /\ a + j <= r /\ j \in 1..size /\ size \in Nat /\ r \in Nat
        BY <1>8, <2>2, <2>3, <2>4
      <4>. HIDE DEF a, r
      <4>2. a + j \in 1..r
        BY ONLY <4>1
      <4>. QED BY <4>2 DEF a, r
    <3>2. ahead[s - 1] + j = length + (ends[s - 1] + j)
      BY <1>8, <2>2, <2>3
    <3>3. order[length + (ends[s - 1] + j)] = rest[ends[s - 1] + j]
      BY <1>8, <3>1
    <3>. QED BY <2>4, <3>2, <3>3
  <2>6. ends[s] <= Len(rest)
    BY <2>2, <2>3, <2>4
  <2>7. ahead[s] = ahead[s - 1] + size /\ ahead[s] <= Len(order)
    BY <1>8, <2>2, <2>3, <2>6
  <2>. QED BY <2>5, <2>7 DEF size
<1>14. ASSUME NEW s \in 1..n
       PROVE  /\ \A m \in 1..l.members[s] :
                    /\ order[ahead[s - 1] + (2 * (m - 1) + 1)] = Item("color", s - 1, m - 1)
                    /\ order[ahead[s - 1] + (2 * (m - 1) + 2)] = Item("period", s - 1, m - 1)
              /\ order[ahead[s - 1] + (2 * l.members[s] + 1)] = Item("selection", s - 1, 0)
  <2>. DEFINE count == l.members[s]
  <2>1. count \in Nat
    BY <1>1
  <2>2. /\ \A j \in 1..(2 * count + 1) : order[ahead[s - 1] + j] = SelectorItems(l, s)[j]
        /\ \A m \in 1..count :
              /\ SelectorItems(l, s)[2 * (m - 1) + 1] = Item("color", s - 1, m - 1)
              /\ SelectorItems(l, s)[2 * (m - 1) + 2] = Item("period", s - 1, m - 1)
        /\ SelectorItems(l, s)[2 * count + 1] = Item("selection", s - 1, 0)
    BY <1>13, SelectorPlaces
  <2>. HIDE DEF count, n
  <2>3. /\ 2 * count + 1 \in 1..(2 * count + 1)
        /\ \A m \in 1..count : /\ 2 * (m - 1) + 1 \in 1..(2 * count + 1)
                               /\ 2 * (m - 1) + 2 \in 1..(2 * count + 1)
    BY <2>1
  <2>4. /\ \A m \in 1..count :
              /\ order[ahead[s - 1] + (2 * (m - 1) + 1)] = Item("color", s - 1, m - 1)
              /\ order[ahead[s - 1] + (2 * (m - 1) + 2)] = Item("period", s - 1, m - 1)
        /\ order[ahead[s - 1] + (2 * count + 1)] = Item("selection", s - 1, 0)
    BY <2>2, <2>3
  <2>. QED BY <2>4 DEF count
<1>15. Len(order) \in Nat
  BY <1>8
<1>. QED BY <1>10, <1>11, <1>12, <1>13, <1>14, <1>15 DEF order, ahead

-----------------------------------------------------------------------------
(* The cursor of a replay.  The layouts are as large as the replay, and a  *)
(* cursor that points into one is at its command.                          *)
LEMMA LayoutPlaces ==
    ASSUME layout \in Layouts
    PROVE  LET ahead == Ahead(layout)
               n == Len(layout.members)
           IN /\ layout \in Layout /\ n \in Nat /\ layout.words \in Nat \ {0}
              /\ layout.members = <<>> <=> n = 0
              /\ \A s \in 0..n : ahead[s] \in Nat
              /\ ahead[0] = 2 + layout.words /\ ahead[n] = NumItems
              /\ Order(layout)[1] = Item("brightness", 0, 0)
              /\ Order(layout)[2] = Item("power", 0, 0)
              /\ \A w \in 0..(layout.words - 1) : Order(layout)[3 + w] = Item("gates", 0, w)
              /\ \A s \in 0..(n - 1) :
                    /\ layout.members[s + 1] \in Nat \ {0}
                    /\ ahead[s + 1] = ahead[s] + 2 * layout.members[s + 1] + 1
                    /\ ahead[s + 1] <= NumItems
                    /\ \A m \in 0..(layout.members[s + 1] - 1) :
                          /\ Order(layout)[ahead[s] + 2 * m + 1] = Item("color", s, m)
                          /\ Order(layout)[ahead[s] + 2 * m + 2] = Item("period", s, m)
                    /\ Order(layout)[ahead[s] + 2 * layout.members[s + 1] + 1]
                          = Item("selection", s, 0)
<1>. DEFINE ahead == Ahead(layout)
            n == Len(layout.members)
            order == Order(layout)
<1>1. /\ layout \in Layout /\ layout.members \in Seq(Nat \ {0}) /\ n \in Nat
      /\ layout.words \in Nat \ {0} /\ Len(order) = NumItems
      /\ layout.members = <<>> <=> n = 0
  BY LayoutsAssumption DEF Layout
<1>2. /\ ahead \in [0..n -> Nat] /\ ahead[0] = 2 + layout.words /\ ahead[n] = NumItems
      /\ order[1] = Item("brightness", 0, 0) /\ order[2] = Item("power", 0, 0)
      /\ \A w \in 1..layout.words : order[2 + w] = Item("gates", 0, w - 1)
  BY <1>1, OrderPlaces
<1>3. \A s \in 1..n :
        /\ ahead[s] = ahead[s - 1] + (2 * layout.members[s] + 1)
        /\ ahead[s] <= NumItems
        /\ \A m \in 1..layout.members[s] :
              /\ order[ahead[s - 1] + (2 * (m - 1) + 1)] = Item("color", s - 1, m - 1)
              /\ order[ahead[s - 1] + (2 * (m - 1) + 2)] = Item("period", s - 1, m - 1)
        /\ order[ahead[s - 1] + (2 * layout.members[s] + 1)] = Item("selection", s - 1, 0)
  BY <1>1, OrderPlaces
<1>. HIDE DEF ahead, order
<1>4. ASSUME NEW w \in 0..(layout.words - 1) PROVE order[3 + w] = Item("gates", 0, w)
  <2>1. w + 1 \in 1..layout.words /\ 2 + (w + 1) = 3 + w /\ (w + 1) - 1 = w
    BY <1>1
  <2>2. order[2 + (w + 1)] = Item("gates", 0, (w + 1) - 1)
    BY <1>2, <2>1
  <2>. QED BY <2>1, <2>2
<1>5. ASSUME NEW s \in 0..(n - 1)
      PROVE  /\ layout.members[s + 1] \in Nat \ {0}
             /\ ahead[s + 1] = ahead[s] + 2 * layout.members[s + 1] + 1
             /\ ahead[s + 1] <= NumItems
             /\ \A m \in 0..(layout.members[s + 1] - 1) :
                   /\ order[ahead[s] + 2 * m + 1] = Item("color", s, m)
                   /\ order[ahead[s] + 2 * m + 2] = Item("period", s, m)
             /\ order[ahead[s] + 2 * layout.members[s + 1] + 1] = Item("selection", s, 0)
  <2>. DEFINE t == s + 1
              count == layout.members[t]
              start == ahead[s]
  <2>1. t \in 1..n /\ t - 1 = s /\ s \in 0..n
    BY <1>1
  <2>2. count \in Nat \ {0} /\ start \in Nat
    <3>1. count \in Nat \ {0}
      BY <1>1, <2>1
    <3>2. start \in Nat
      BY <1>2, <2>1
    <3>. QED BY <3>1, <3>2
  <2>3. /\ ahead[t] = start + (2 * count + 1) /\ ahead[t] <= NumItems
        /\ \A m \in 1..count :
              /\ order[start + (2 * (m - 1) + 1)] = Item("color", s, m - 1)
              /\ order[start + (2 * (m - 1) + 2)] = Item("period", s, m - 1)
        /\ order[start + (2 * count + 1)] = Item("selection", s, 0)
    <3>. HIDE DEF t, n
    <3>. QED BY <1>3, <2>1
  <2>. HIDE DEF t, count, start, n
  <2>4. start + (2 * count + 1) = start + 2 * count + 1
    BY <2>2
  <2>5. ASSUME NEW m \in 0..(count - 1)
        PROVE  /\ order[start + 2 * m + 1] = Item("color", s, m)
               /\ order[start + 2 * m + 2] = Item("period", s, m)
    <3>1. /\ m + 1 \in 1..count /\ (m + 1) - 1 = m
          /\ start + (2 * m + 1) = start + 2 * m + 1
          /\ start + (2 * m + 2) = start + 2 * m + 2
      BY <2>2
    <3>2. /\ order[start + (2 * ((m + 1) - 1) + 1)] = Item("color", s, (m + 1) - 1)
          /\ order[start + (2 * ((m + 1) - 1) + 2)] = Item("period", s, (m + 1) - 1)
      BY <2>3, <3>1
    <3>. QED BY <3>1, <3>2
  <2>6. /\ count \in Nat \ {0} /\ ahead[t] = start + 2 * count + 1 /\ ahead[t] <= NumItems
        /\ order[start + 2 * count + 1] = Item("selection", s, 0)
    BY <2>2, <2>3, <2>4
  <2>. QED BY <2>5, <2>6 DEF t, count, start
<1>6. \A s \in 0..n : ahead[s] \in Nat
  BY <1>2
<1>. QED BY <1>1, <1>2, <1>4, <1>5, <1>6 DEF ahead, order

LEMMA Standing ==
    ASSUME layout \in Layouts, NEW w \in Cursors, InLayout(w)
    PROVE  Bound(w) = Order(layout)[Place(w)]
<1>. DEFINE ahead == Ahead(layout)
            n == Len(layout.members)
            count == layout.members[w.selector + 1]
<1>1. CASE w.phase = "brightness"
  BY <1>1, LayoutPlaces DEF Bound, Place
<1>2. CASE w.phase = "power"
  BY <1>2, LayoutPlaces DEF Bound, Place
<1>3. CASE w.phase = "gates"
  <2>1. w.word \in 0..(layout.words - 1)
    BY <1>3, LayoutPlaces DEF InLayout, Cursors
  <2>2. Bound(w) = Item("gates", 0, w.word) /\ Place(w) = 3 + w.word
    BY <1>3 DEF Bound, Place
  <2>. QED BY <2>1, <2>2, LayoutPlaces
<1>4. CASE w.phase \in {"color", "period", "selection"}
  <2>1. n \in Nat /\ w.selector \in Nat /\ w.selector < n
    BY <1>4, LayoutPlaces DEF InLayout, Cursors
  <2>2. w.selector \in 0..(n - 1)
    BY <2>1
  <2>. HIDE DEF n
  <2>3. /\ count \in Nat \ {0}
        /\ \A m \in 0..(count - 1) :
              /\ Order(layout)[ahead[w.selector] + 2 * m + 1] = Item("color", w.selector, m)
              /\ Order(layout)[ahead[w.selector] + 2 * m + 2] = Item("period", w.selector, m)
        /\ Order(layout)[ahead[w.selector] + 2 * count + 1] = Item("selection", w.selector, 0)
    BY <2>2, LayoutPlaces DEF n
  <2>4. w.phase \in {"color", "period"} => w.member \in 0..(count - 1)
    BY <2>3 DEF InLayout, Cursors
  <2>5. w.phase = "selection" => w.member = count
    BY DEF InLayout
  <2>6. CASE w.phase = "color"
    <3>1. /\ Bound(w) = Item("color", w.selector, w.member)
          /\ Place(w) = ahead[w.selector] + 2 * w.member + 1
      BY <2>6 DEF Bound, Place
    <3>. HIDE DEF count, ahead
    <3>. QED BY <2>3, <2>4, <2>6, <3>1
  <2>7. CASE w.phase = "period"
    <3>1. /\ Bound(w) = Item("period", w.selector, w.member)
          /\ Place(w) = ahead[w.selector] + 2 * w.member + 2
      BY <2>7 DEF Bound, Place
    <3>. HIDE DEF count, ahead
    <3>. QED BY <2>3, <2>4, <2>7, <3>1
  <2>8. CASE w.phase = "selection"
    <3>1. /\ Bound(w) = Item("selection", w.selector, 0)
          /\ Place(w) = ahead[w.selector] + 2 * w.member + 1
      BY <2>8 DEF Bound, Place
    <3>. HIDE DEF count, ahead
    <3>. QED BY <2>3, <2>5, <2>8, <3>1
  <2>. QED BY <1>4, <2>6, <2>7, <2>8
<1>. QED BY <1>1, <1>2, <1>3, <1>4 DEF Cursors

(* After its command a cursor is at the next one, or over after the last.  *)
GoesOn(w, v) ==
    /\ v \in Cursors
    /\ Place(w) = NumItems => ~v.pending
    /\ Place(w) # NumItems => /\ InLayout(v) /\ Place(v) = Place(w) + 1
                              /\ v.pending = w.pending /\ v.captured = w.captured

LEMMA CursorOver ==
    ASSUME NEW w \in Cursors
    PROVE  Over(w) \in Cursors /\ ~Over(w).pending
BY DEF Cursors, Over

LEMMA Advancing ==
    ASSUME layout \in Layouts, NEW w \in Cursors, InLayout(w)
    PROVE  GoesOn(w, Advanced(w))
<1>. DEFINE ahead == Ahead(layout)
            n == Len(layout.members)
            s == w.selector
            count == layout.members[s + 1]
            v == Advanced(w)
<1>1. /\ n \in Nat /\ layout.words \in Nat \ {0} /\ (layout.members = <<>> <=> n = 0)
      /\ \A i \in 0..n : ahead[i] \in Nat
      /\ ahead[0] = 2 + layout.words /\ ahead[n] = NumItems /\ NumItems \in Nat
  BY LayoutPlaces, ItemsAssumption
<1>2. \A i \in 0..(n - 1) :
         /\ layout.members[i + 1] \in Nat \ {0}
         /\ ahead[i + 1] = ahead[i] + 2 * layout.members[i + 1] + 1
         /\ ahead[i + 1] <= NumItems
  BY LayoutPlaces
<1>3. 2 + layout.words <= NumItems /\ (n # 0 => 3 + layout.words <= NumItems)
  <2>1. CASE n = 0
    BY <1>1, <2>1
  <2>2. CASE n # 0
    <3>1. 0 \in 0..(n - 1) /\ 0 \in 0..n /\ 0 + 1 = 1
      BY <1>1, <2>2
    <3>. HIDE DEF n
    <3>2. /\ layout.members[1] \in Nat \ {0} /\ ahead[0] \in Nat
          /\ ahead[1] = ahead[0] + 2 * layout.members[1] + 1 /\ ahead[1] <= NumItems
      BY <1>1, <1>2, <3>1
    <3>. HIDE DEF ahead
    <3>3. ahead[0] = 2 + layout.words /\ layout.words \in Nat
      BY <1>1
    <3>4. 3 + layout.words <= NumItems
      <4>. DEFINE a == ahead[0]
                  b == ahead[1]
                  c == layout.members[1]
      <4>1. /\ a \in Nat /\ c \in Nat \ {0} /\ b = a + 2 * c + 1 /\ b <= NumItems
            /\ a = 2 + layout.words /\ layout.words \in Nat /\ NumItems \in Nat
        BY <1>1, <3>2, <3>3
      <4>. HIDE DEF a, b, c
      <4>. QED BY ONLY <4>1
    <3>. QED BY <1>1, <3>3, <3>4
  <2>. QED BY <2>1, <2>2
<1>4. CASE w.phase \in {"brightness", "power"}
  <2>1. v = [w EXCEPT !.phase = IF w.phase = "brightness" THEN "power" ELSE "gates"]
    BY <1>4 DEF Advanced
  <2>2. w.word = 0 /\ w.selector = 0 /\ w.member = 0
    BY <1>4 DEF InLayout
  <2>3. v \in Cursors /\ InLayout(v) /\ v.pending = w.pending /\ v.captured = w.captured
    BY <1>1, <1>4, <2>1, <2>2 DEF Cursors, InLayout
  <2>4. Place(v) = Place(w) + 1 /\ Place(w) # NumItems
    BY <1>1, <1>3, <1>4, <2>1, <2>2 DEF Cursors, Place
  <2>. HIDE DEF v
  <2>. QED BY <2>3, <2>4 DEF GoesOn, v
<1>5. CASE w.phase = "gates"
  <2>1. w.word \in Nat /\ w.word < layout.words /\ w.selector = 0 /\ w.member = 0
        /\ Place(w) = 3 + w.word
    BY <1>5 DEF InLayout, Cursors, Place
  <2>2. v = AfterWord(w)
    BY <1>5 DEF Advanced
  <2>3. CASE w.word + 1 < layout.words
    <3>1. v = [w EXCEPT !.word = w.word + 1]
      BY <2>2, <2>3 DEF AfterWord, Cursors
    <3>2. v \in Cursors /\ InLayout(v) /\ v.pending = w.pending /\ v.captured = w.captured
      BY <1>5, <2>1, <2>3, <3>1 DEF Cursors, InLayout
    <3>3. Place(v) = Place(w) + 1 /\ Place(w) # NumItems
      BY <1>1, <1>3, <1>5, <2>1, <2>3, <3>1 DEF Cursors, Place
    <3>. HIDE DEF v
    <3>. QED BY <3>2, <3>3 DEF GoesOn, v
  <2>4. CASE ~(w.word + 1 < layout.words)
    <3>1. w.word = layout.words - 1
      BY <1>1, <2>1, <2>4
    <3>2. CASE n = 0
      <4>. DEFINE next == [phase |-> "color", word |-> w.word + 1, selector |-> w.selector,
                           member |-> w.member, pending |-> w.pending, captured |-> w.captured]
      <4>1. v = Over(next)
        <5>1. v = Over([w EXCEPT !.word = w.word + 1, !.phase = "color"])
          BY <1>1, <2>1, <2>2, <2>4, <3>2 DEF AfterWord, Cursors
        <5>2. PICK z : z = [w EXCEPT !.word = w.word + 1, !.phase = "color"]
          OBVIOUS
        <5>3. z = next
          BY <5>2 DEF Cursors
        <5>. QED BY <5>1, <5>2, <5>3
      <4>2. next \in Cursors
        BY <2>1 DEF Cursors
      <4>3. v \in Cursors /\ ~v.pending
        BY <4>1, <4>2, CursorOver
      <4>4. Place(w) = NumItems
        BY <1>1, <2>1, <3>1, <3>2
      <4>. HIDE DEF v
      <4>. QED BY <4>3, <4>4 DEF GoesOn, v
    <3>3. CASE n # 0
      <4>1. v = [w EXCEPT !.word = w.word + 1, !.phase = "color"]
        BY <1>1, <2>1, <2>2, <2>4, <3>3 DEF AfterWord, Cursors
      <4>2. layout.members[0 + 1] \in Nat \ {0} /\ 0 < n
        BY <1>1, <1>2, <3>3
      <4>3. v = [phase |-> "color", word |-> w.word + 1, selector |-> w.selector,
                 member |-> w.member, pending |-> w.pending, captured |-> w.captured]
        BY <4>1 DEF Cursors
      <4>. HIDE DEF v
      <4>4. /\ v \in Cursors /\ v.pending = w.pending /\ v.captured = w.captured
            /\ v.phase = "color" /\ v.selector = 0 /\ v.member = 0
        BY <2>1, <4>3 DEF Cursors
      <4>5. InLayout(v) /\ Place(v) = ahead[0] + 2 * 0 + 1
        BY <2>1, <4>2, <4>4 DEF InLayout, Place
      <4>6. Place(v) = Place(w) + 1 /\ Place(w) # NumItems
        BY <1>1, <1>3, <2>1, <3>1, <3>3, <4>5
      <4>. QED BY <4>4, <4>5, <4>6 DEF GoesOn, v
    <3>. QED BY <3>2, <3>3
  <2>. QED BY <2>3, <2>4
<1>6. CASE w.phase \in {"color", "period", "selection"}
  <2>1. s \in Nat /\ s < n /\ w.member \in Nat
    BY <1>6 DEF InLayout, Cursors
  <2>2. s \in 0..(n - 1) /\ s \in 0..n /\ s + 1 \in 0..n
    BY <1>1, <2>1
  <2>3. /\ count \in Nat \ {0} /\ ahead[s] \in Nat /\ ahead[s + 1] \in Nat
        /\ ahead[s + 1] = ahead[s] + 2 * count + 1 /\ ahead[s + 1] <= NumItems
    BY <1>1, <1>2, <2>2
  <2>4. CASE w.phase = "color"
    <3>1. v = [w EXCEPT !.phase = "period"]
      BY <2>4 DEF Advanced
    <3>2. w.member < count
      BY <2>4 DEF InLayout
    <3>3. v \in Cursors /\ InLayout(v) /\ v.pending = w.pending /\ v.captured = w.captured
      BY <2>1, <3>1, <3>2 DEF Cursors, InLayout
    <3>4. Place(w) = ahead[s] + 2 * w.member + 1 /\ Place(v) = ahead[s] + 2 * w.member + 2
      BY <2>4, <3>1 DEF Cursors, Place
    <3>. HIDE DEF v, ahead, count
    <3>5. Place(v) = Place(w) + 1 /\ Place(w) # NumItems
      <4>. DEFINE a == ahead[s]
                  b == ahead[s + 1]
                  m == w.member
      <4>1. /\ a \in Nat /\ b \in Nat /\ m \in Nat /\ count \in Nat /\ m < count
            /\ b = a + 2 * count + 1 /\ b <= NumItems
            /\ Place(w) = a + 2 * m + 1 /\ Place(v) = a + 2 * m + 2
        BY <2>1, <2>3, <3>2, <3>4
      <4>2. NumItems \in Nat
        BY <1>1
      <4>. HIDE DEF a, b, m
      <4>. QED BY ONLY <4>1, <4>2
    <3>. QED BY <3>3, <3>5 DEF GoesOn, v
  <2>5. CASE w.phase = "period"
    <3>1. v = AfterPeriod(w)
      BY <2>5 DEF Advanced
    <3>2. v = [w EXCEPT !.member = w.member + 1,
                        !.phase = IF w.member + 1 = count THEN "selection" ELSE "color"]
      BY <3>1 DEF AfterPeriod, Cursors
    <3>3. w.member < count
      BY <2>5 DEF InLayout
    <3>4. v = [phase |-> IF w.member + 1 = count THEN "selection" ELSE "color",
               word |-> w.word, selector |-> s, member |-> w.member + 1,
               pending |-> w.pending, captured |-> w.captured]
      BY <3>2 DEF Cursors
    <3>5. /\ v \in Cursors /\ v.pending = w.pending /\ v.captured = w.captured
          /\ v.phase = IF w.member + 1 = count THEN "selection" ELSE "color"
          /\ v.selector = s /\ v.member = w.member + 1
      <4>1. w.word \in Nat /\ w.member + 1 \in Nat
            /\ (IF w.member + 1 = count THEN "selection" ELSE "color") \in {"color", "selection"}
        BY <2>1 DEF Cursors
      <4>. HIDE DEF v, count
      <4>. QED BY <2>1, <3>4, <4>1 DEF Cursors
    <3>6. Place(w) = ahead[s] + 2 * w.member + 2
      BY <2>5 DEF Place
    <3>7. Place(v) = ahead[s] + 2 * (w.member + 1) + 1
      BY <3>5 DEF Place
    <3>8. InLayout(v)
      <4>. HIDE DEF v
      <4>. QED BY <2>1, <2>3, <3>3, <3>5 DEF InLayout
    <3>. HIDE DEF v, ahead, count
    <3>9. Place(v) = Place(w) + 1 /\ Place(w) # NumItems
      <4>. DEFINE a == ahead[s]
                  b == ahead[s + 1]
                  m == w.member
      <4>1. /\ a \in Nat /\ b \in Nat /\ m \in Nat /\ count \in Nat /\ m < count
            /\ b = a + 2 * count + 1 /\ b <= NumItems
            /\ Place(w) = a + 2 * m + 2 /\ Place(v) = a + 2 * (m + 1) + 1
        BY <2>1, <2>3, <3>3, <3>6, <3>7
      <4>2. NumItems \in Nat
        BY <1>1
      <4>. HIDE DEF a, b, m
      <4>. QED BY ONLY <4>1, <4>2
    <3>. QED BY <3>5, <3>8, <3>9 DEF GoesOn, v
  <2>6. CASE w.phase = "selection"
    <3>1. v = AfterSelection(w)
      BY <2>6 DEF Advanced
    <3>2. w.member = count /\ Place(w) = ahead[s] + 2 * w.member + 1
      BY <2>6 DEF InLayout, Place
    <3>3. Place(w) = ahead[s + 1]
      <4>. HIDE DEF ahead, count, v
      <4>. QED BY <2>3, <3>2
    <3>4. CASE s + 1 = n
      <4>. DEFINE next == [phase |-> w.phase, word |-> w.word, selector |-> s + 1,
                           member |-> 0, pending |-> w.pending, captured |-> w.captured]
      <4>1. v = Over(next)
        <5>1. v = Over([w EXCEPT !.selector = s + 1, !.member = 0])
          BY <3>1, <3>4 DEF AfterSelection, Cursors
        <5>2. PICK z : z = [w EXCEPT !.selector = s + 1, !.member = 0]
          OBVIOUS
        <5>3. z = next
          BY <5>2 DEF Cursors
        <5>. QED BY <5>1, <5>2, <5>3
      <4>2. next \in Cursors
        BY <2>1 DEF Cursors
      <4>3. v \in Cursors /\ ~v.pending
        BY <4>1, <4>2, CursorOver
      <4>4. Place(w) = NumItems
        <5>. HIDE DEF ahead
        <5>. QED BY <1>1, <3>3, <3>4
      <4>. HIDE DEF v
      <4>. QED BY <4>3, <4>4 DEF GoesOn, v
    <3>5. CASE s + 1 # n
      <4>1. v = [w EXCEPT !.selector = s + 1, !.member = 0, !.phase = "color"]
        BY <3>1, <3>5 DEF AfterSelection, Cursors
      <4>2. s + 1 \in 0..(n - 1)
        BY <1>1, <2>1, <3>5
      <4>3. layout.members[(s + 1) + 1] \in Nat \ {0} /\ ahead[s + 1] < NumItems
        <5>. DEFINE t == s + 1
        <5>1. /\ layout.members[t + 1] \in Nat \ {0} /\ ahead[t + 1] <= NumItems
              /\ ahead[t + 1] = ahead[t] + 2 * layout.members[t + 1] + 1
          BY <1>2, <4>2
        <5>2. ahead[t] \in Nat
          BY <2>3
        <5>. HIDE DEF t, ahead
        <5>3. layout.members[t + 1] \in Nat \ {0} /\ ahead[t] < NumItems
          BY <1>1, <5>1, <5>2
        <5>. QED BY <5>3 DEF t
      <4>4. v \in Cursors /\ v.pending = w.pending /\ v.captured = w.captured
            /\ v.phase = "color" /\ v.selector = s + 1 /\ v.member = 0
        <5>1. v = [phase |-> "color", word |-> w.word, selector |-> s + 1, member |-> 0,
                   pending |-> w.pending, captured |-> w.captured]
          BY <4>1 DEF Cursors
        <5>. HIDE DEF v
        <5>. QED BY <2>1, <5>1 DEF Cursors
      <4>5. Place(v) = ahead[s + 1] + 2 * 0 + 1
        BY <4>4 DEF Place
      <4>6. InLayout(v)
        <5>. HIDE DEF v
        <5>. QED BY <2>1, <4>2, <4>3, <4>4 DEF InLayout
      <4>. HIDE DEF v, ahead
      <4>7. Place(v) = Place(w) + 1 /\ Place(w) # NumItems
        BY <1>1, <2>3, <3>3, <4>3, <4>5
      <4>. QED BY <4>4, <4>6, <4>7 DEF GoesOn, v
    <3>. QED BY <3>4, <3>5
  <2>. QED BY <1>6, <2>4, <2>5, <2>6
<1>. QED BY <1>4, <1>5, <1>6 DEF Cursors

-----------------------------------------------------------------------------
(* The cursors keep in step.  Both parts of a step are known.              *)
LEMMA WalkIsStep == [WalkNext]_walkVars => [Next]_vars
BY DEF WalkNext, WalkStart, WalkRepair, WalkRead, WalkAccepted, WalkChecked, Elsewhere,
       Next, Handler, walkVars

LEMMA Start0Stands ==
    ASSUME NEW w \in Cursors
    PROVE  /\ Reset(w) \in Cursors /\ InLayout(Reset(w)) /\ Place(Reset(w)) = 1
           /\ Reset(w).pending = w.pending /\ ~Reset(w).captured
BY DEF Reset, Start0, Cursors, InLayout, Place

(* A source whose part of the state a step leaves alone. *)
LEMMA FollowsStill ==
    ASSUME NEW p \in Sources, Follows(p), UNCHANGED layout, walk'[p] = walk[p],
           pending'[p] = pending[p], pos'[p] = pos[p],
           (captured'[p] = "no") = (captured[p] = "no"), Tested(p)' = Tested(p)
    PROVE  Follows(p)'
<1>1. InLayout(walk[p])' <=> InLayout(walk[p])
  BY DEF InLayout
<1>2. Place(walk[p])' = Place(walk[p])
  BY DEF Place
<1>. QED BY <1>1, <1>2 DEF Follows

LEMMA FollowsUntested ==
    ASSUME NEW p \in Sources, Follows(p), UNCHANGED layout, walk'[p] = walk[p],
           pending'[p] = pending[p], pos'[p] = pos[p], captured'[p] = captured[p],
           ~Tested(p), ~Tested(p)'
    PROVE  Follows(p)'
<1>1. Tested(p)' = Tested(p)
  BY DEF Tested
<1>. QED BY <1>1, FollowsStill

LEMMA FollowsNot ==
    ASSUME NEW p \in Sources, walk'[p].pending = FALSE, pending'[p] = FALSE \/ Tested(p)'
    PROVE  Follows(p)'
<1>1. ~(pending'[p] /\ ~Tested(p)')
  OBVIOUS
<1>2. (pending'[p] /\ ~Tested(p)') = FALSE
  BY <1>1, Zenon
<1>3. walk'[p].pending = (pending'[p] /\ ~Tested(p)')
  BY <1>2, Zenon
<1>. QED BY <1>3 DEF Follows

LEMMA FollowsOn ==
    ASSUME NEW p \in Sources, walk'[p].pending = TRUE, pending'[p] = TRUE, ~Tested(p)',
           InLayout(walk[p])', pos'[p] = Place(walk[p])',
           walk'[p].captured = (captured'[p] # "no")
    PROVE  Follows(p)'
<1>1. (pending'[p] /\ ~Tested(p)') = TRUE
  OBVIOUS
<1>2. walk'[p].pending = (pending'[p] /\ ~Tested(p)')
  BY <1>1, Zenon
<1>. QED BY <1>2 DEF Follows

LEMMA WalkStartStep ==
    TypeOK /\ WalkInv /\ UNCHANGED layout /\ WalkStart => WalkInv'
<1>. SUFFICES ASSUME TypeOK, WalkInv, UNCHANGED layout, WalkStart PROVE WalkInv'
  OBVIOUS
<1>1. wpc = "idle" /\ wpc' = "repair" /\ target' = target /\ StartHandler
  BY DEF WalkStart, StartHandler
<1>2. \A p \in Sources : ~Tested(p) /\ ~Tested(p)'
  BY <1>1 DEF Tested
<1>3. CASE ~pollDue
  <2>1. walk' = walk /\ UNCHANGED <<sourceVars, captured>>
    <3>1. walk' = [p \in Sources |-> walk[p]]
      BY <1>3 DEF WalkStart
    <3>2. walk = [p \in Sources |-> walk[p]]
      BY DEF WalkInv
    <3>. QED BY <1>1, <1>3, <3>1, <3>2 DEF StartHandler
  <2>2. ASSUME NEW p \in Sources PROVE Follows(p)'
    <3>1. /\ Follows(p) /\ walk'[p] = walk[p] /\ pending'[p] = pending[p]
          /\ pos'[p] = pos[p] /\ captured'[p] = captured[p]
      BY <2>1 DEF WalkInv, sourceVars
    <3>2. Tested(p)' = Tested(p)
      BY <1>1 DEF Tested
    <3>. QED BY <3>1, <3>2, FollowsStill
  <2>. QED BY <1>1, <2>1, <2>2 DEF WalkInv, sourceVars
<1>4. CASE pollDue
  <2>1. PICK present \in SUBSET Sources :
           /\ \A p \in present : connected[p]
           /\ seen' = [p \in Sources |-> p \in present]
           /\ pending' = [p \in Sources |-> p \in Observed \cap present
                                             \/ (p \in present /\ pending[p])]
           /\ pos' = [p \in Sources |->
                        IF p \in (Observed \cap present) \cup (Sources \ present)
                        THEN 1 ELSE pos[p]]
           /\ captured' = [p \in Sources |->
                        IF p \in (Observed \cap present) \cup (Sources \ present)
                        THEN "no" ELSE captured[p]]
    BY <1>1, <1>4 DEF StartHandler, Poll
  <2>. DEFINE found(p) == seen'[p] /\ (switched \/ ~seen[p])
              lost(p) == seen[p] /\ (switched \/ ~seen'[p])
              kept(p) == [walk[p] EXCEPT !.pending = (@ /\ ~lost(p)) \/ found(p)]
  <2>2. walk' = [p \in Sources |-> IF found(p) \/ lost(p) THEN Reset(kept(p)) ELSE walk[p]]
    BY <1>4 DEF WalkStart
  <2>3. ASSUME NEW p \in Sources
        PROVE  /\ found(p) \in BOOLEAN /\ lost(p) \in BOOLEAN
               /\ found(p) <=> p \in Observed \cap present
               /\ seen'[p] <=> p \in present
               /\ pending'[p] <=> found(p) \/ (p \in present /\ pending[p])
    BY <2>1 DEF TypeOK, Observed
  <2>4. ASSUME NEW p \in Sources
        PROVE  kept(p) \in Cursors /\ kept(p).pending = ((walk[p].pending /\ ~lost(p)) \/ found(p))
    <3>1. walk[p] \in Cursors
      BY DEF WalkInv
    <3>. HIDE DEF found, lost
    <3>. QED BY <2>3, <3>1 DEF Cursors
  <2>5. walk' \in [Sources -> Cursors]
    <3>. HIDE DEF kept, found, lost
    <3>. QED BY <2>2, <2>4, Start0Stands DEF WalkInv
  <2>6. ASSUME NEW p \in Sources PROVE Follows(p)'
    <3>1. walk[p].pending = pending[p] /\ (pending[p] => seen[p]) /\ Follows(p)
          /\ walk[p] \in Cursors /\ pending[p] \in BOOLEAN /\ pending'[p] \in BOOLEAN
      BY <1>2, <2>1 DEF WalkInv, Follows, TypeOK
    <3>2. CASE found(p) \/ lost(p)
      <4>1. walk'[p] = Reset(kept(p))
        BY <2>2, <3>2
      <4>2. /\ walk'[p] \in Cursors /\ InLayout(walk'[p]) /\ Place(walk'[p]) = 1
            /\ ~walk'[p].captured /\ walk'[p].pending = kept(p).pending
        <5>. HIDE DEF kept, found, lost
        <5>. QED BY <2>4, <4>1, Start0Stands
      <4>3. walk'[p].pending <=> pending'[p]
        BY <2>3, <2>4, <3>1, <4>2
      <4>4. pending'[p] => pos'[p] = 1 /\ captured'[p] = "no"
        BY <2>1, <2>3, <3>1, <3>2
      <4>5. InLayout(walk[p])' /\ Place(walk[p])' = 1
        BY <4>2 DEF InLayout, Place
      <4>6. walk'[p].pending \in BOOLEAN /\ walk'[p].captured \in BOOLEAN
        BY <4>2 DEF Cursors
      <4>. QED BY <1>2, <3>1, <4>2, <4>3, <4>4, <4>5, <4>6 DEF Follows
    <3>3. CASE ~found(p) /\ ~lost(p)
      <4>1. walk'[p] = walk[p]
        BY <2>2, <3>3
      <4>2. pending'[p] = pending[p]
        BY <2>3, <3>1, <3>3
      <4>3. CASE p \in present
        <5>1. pos'[p] = pos[p] /\ captured'[p] = captured[p]
          BY <2>1, <2>3, <3>3, <4>3
        <5>. QED BY <1>2, <3>1, <4>1, <4>2, <5>1, FollowsUntested
      <4>4. CASE p \notin present
        <5>1. ~seen[p] /\ ~pending[p]
          BY <2>3, <3>1, <3>3, <4>4 DEF TypeOK
        <5>2. ~pending'[p] /\ ~walk'[p].pending /\ walk'[p].pending \in BOOLEAN
          BY <3>1, <4>1, <4>2, <5>1 DEF Cursors
        <5>3. walk'[p].pending = FALSE /\ pending'[p] = FALSE
          BY <3>1, <5>2
        <5>. QED BY <5>3, FollowsNot
      <4>. QED BY <4>3, <4>4
    <3>. QED BY <3>2, <3>3
  <2>7. \A p \in Sources : pending'[p] => seen'[p]
    BY <2>3
  <2>. QED BY <1>1, <2>5, <2>6, <2>7 DEF WalkInv
<1>. QED BY <1>3, <1>4

LEMMA WalkRepairStep ==
    TypeOK /\ WalkInv /\ UNCHANGED layout /\ WalkRepair => WalkInv'
<1>. SUFFICES ASSUME TypeOK, WalkInv, UNCHANGED layout, WalkRepair PROVE WalkInv'
  OBVIOUS
<1>. DEFINE due(p) == started /\ repairOwed /\ seen[p] /\ ~pending[p]
            new(p) == [walk[p] EXCEPT !.pending = TRUE]
<1>1. wpc = "repair" /\ wpc' = "pick" /\ UNCHANGED seen
  BY DEF WalkRepair, ConsumeRepair
<1>2. \A p \in Sources : ~Tested(p) /\ ~Tested(p)'
  BY <1>1 DEF Tested
<1>3. \A p \in Sources : /\ pending'[p] = (pending[p] \/ due(p))
                         /\ pos'[p] = IF due(p) THEN 1 ELSE pos[p]
                         /\ captured'[p] = IF due(p) THEN "no" ELSE captured[p]
  BY DEF WalkRepair, ConsumeRepair
<1>4. \A p \in Sources : walk[p] \in Cursors /\ pending[p] \in BOOLEAN
                         /\ walk[p].pending = pending[p]
  BY <1>2 DEF WalkInv, Follows, TypeOK
<1>5. walk' = [p \in Sources |-> IF due(p) THEN Reset(new(p)) ELSE walk[p]]
  BY <1>4 DEF WalkRepair
<1>6. \A p \in Sources : new(p) \in Cursors /\ new(p).pending
  BY <1>4 DEF Cursors
<1>. HIDE DEF new, due
<1>7. walk' \in [Sources -> Cursors]
  BY <1>4, <1>5, <1>6, Start0Stands
<1>8. ASSUME NEW p \in Sources PROVE Follows(p)'
  <2>1. CASE due(p)
    <3>1. /\ walk'[p] \in Cursors /\ InLayout(walk'[p]) /\ Place(walk'[p]) = 1
          /\ ~walk'[p].captured /\ walk'[p].pending
      BY <1>5, <1>6, <2>1, Start0Stands
    <3>2. InLayout(walk[p])' /\ Place(walk[p])' = 1
      BY <3>1 DEF InLayout, Place
    <3>3. pending'[p] /\ pos'[p] = 1 /\ captured'[p] = "no"
      BY <1>3, <2>1
    <3>4. /\ walk'[p].pending = TRUE /\ walk'[p].captured = FALSE /\ pending'[p] = TRUE
      BY <1>3, <1>4, <2>1, <3>1, <3>3 DEF Cursors
    <3>5. walk'[p].captured = (captured'[p] # "no")
      BY <3>3, <3>4
    <3>. QED BY <1>2, <3>2, <3>3, <3>4, <3>5, FollowsOn
  <2>2. CASE ~due(p)
    <3>1. walk'[p] = walk[p] /\ pos'[p] = pos[p] /\ captured'[p] = captured[p]
      BY <1>3, <1>5, <2>2
    <3>2. pending'[p] = pending[p]
      BY <1>3, <1>4, <2>2
    <3>3. Follows(p)
      BY DEF WalkInv
    <3>. QED BY <1>2, <3>1, <3>2, <3>3, FollowsUntested
  <2>. QED BY <2>1, <2>2
<1>9. \A p \in Sources : pending'[p] => seen'[p]
  BY <1>1, <1>3 DEF WalkInv, due
<1>. QED BY <1>1, <1>7, <1>8, <1>9 DEF WalkInv

LEMMA WalkReadStep ==
    ASSUME NEW slot \in Slots, TypeOK, WalkInv, UNCHANGED layout, WalkRead(slot)
    PROVE  WalkInv'
<1>. DEFINE source == slot \div 2
<1>1. /\ source \in Sources /\ target' = source /\ wpc = "pick" /\ wpc' = "send"
      /\ pending[source] /\ UNCHANGED <<seen, pending, pos>>
      /\ walk' = [walk EXCEPT ![source].captured = TRUE]
      /\ captured' = IF captured[source] = "no"
                     THEN [captured EXCEPT ![source] = "current"] ELSE captured
  BY SlotSource DEF WalkRead, ReadState, Chosen, Due, sourceVars
<1>. HIDE DEF source
<1>2. \A p \in Sources : ~Tested(p) /\ ~Tested(p)'
  BY <1>1 DEF Tested
<1>3. walk[source] \in Cursors /\ walk \in [Sources -> Cursors]
  BY <1>1 DEF WalkInv
<1>4. walk'[source] = [walk[source] EXCEPT !.captured = TRUE]
  BY <1>1, <1>3
<1>5. /\ walk'[source] \in Cursors /\ walk'[source].captured = TRUE
      /\ walk'[source].pending = walk[source].pending
      /\ walk'[source].phase = walk[source].phase /\ walk'[source].word = walk[source].word
      /\ walk'[source].selector = walk[source].selector
      /\ walk'[source].member = walk[source].member
  BY <1>3, <1>4 DEF Cursors
<1>6. walk' \in [Sources -> Cursors]
  BY <1>1, <1>3, <1>5
<1>7. ASSUME NEW p \in Sources PROVE Follows(p)'
  <2>1. CASE p = source
    <3>1. InLayout(walk[p]) => InLayout(walk[p])'
      BY <1>5, <2>1 DEF InLayout
    <3>2. Place(walk[p])' = Place(walk[p])
      BY <1>5, <2>1 DEF Place
    <3>3. captured'[p] # "no"
      BY <1>1, <2>1 DEF TypeOK
    <3>4. Follows(p) /\ pending'[p] = pending[p] /\ pos'[p] = pos[p]
      BY <1>1 DEF WalkInv
    <3>5. CASE pending[p]
      <4>1. walk[p].pending = TRUE /\ pending'[p] = TRUE
        BY <1>2, <3>4, <3>5 DEF Follows, TypeOK
      <4>2. InLayout(walk[p]) /\ pos[p] = Place(walk[p])
        BY <3>4, <4>1 DEF Follows
      <4>3. walk'[p].captured = (captured'[p] # "no") /\ walk'[p].pending = TRUE
        BY <1>5, <2>1, <3>3, <4>1
      <4>. QED BY <1>2, <3>1, <3>2, <3>4, <4>1, <4>2, <4>3, FollowsOn
    <3>6. CASE ~pending[p]
      <4>1. walk[p].pending = FALSE /\ pending'[p] = FALSE
        BY <1>2, <3>4, <3>6 DEF Follows, TypeOK
      <4>. QED BY <1>5, <2>1, <4>1, FollowsNot
    <3>. QED BY <3>5, <3>6
  <2>2. CASE p # source
    <3>1. walk'[p] = walk[p] /\ captured'[p] = captured[p]
      BY <1>1, <1>3, <2>2 DEF TypeOK
    <3>2. Follows(p) /\ pending'[p] = pending[p] /\ pos'[p] = pos[p]
      BY <1>1 DEF WalkInv
    <3>. QED BY <1>2, <3>1, <3>2, FollowsUntested
  <2>. QED BY <2>1, <2>2
<1>. QED BY <1>1, <1>6, <1>7 DEF WalkInv

LEMMA WalkAcceptedStep ==
    TypeOK /\ WalkInv /\ UNCHANGED layout /\ WalkAccepted => WalkInv'
<1>. SUFFICES ASSUME TypeOK, WalkInv, UNCHANGED layout, WalkAccepted PROVE WalkInv'
  OBVIOUS
<1>1. /\ target \in Sources /\ target' = target /\ wpc = "send"
      /\ wpc' = IF pos[target] = NumItems THEN "check" ELSE "rearm"
      /\ UNCHANGED <<seen, pending, captured>>
      /\ pos' = [pos EXCEPT ![target] = pos[target] + 1]
      /\ walk' = [walk EXCEPT ![target] = Advanced(walk[target])]
      /\ pending[target]
  BY DEF WalkAccepted, SendAccepted, TypeOK, Advance, WalkInv
<1>2. \A p \in Sources : ~Tested(p)
  BY <1>1 DEF Tested
<1>3. walk[target] \in Cursors /\ walk \in [Sources -> Cursors] /\ layout \in Layouts
      /\ pos \in [Sources -> 1..(NumItems + 1)] /\ pending \in [Sources -> BOOLEAN]
  BY <1>1 DEF WalkInv, TypeOK
<1>4. Follows(target) /\ walk[target].pending = TRUE
  BY <1>1, <1>2, <1>3 DEF WalkInv, Follows
<1>5. InLayout(walk[target]) /\ pos[target] = Place(walk[target])
      /\ walk[target].captured = (captured[target] # "no")
  BY <1>4 DEF Follows
<1>6. walk'[target] = Advanced(walk[target]) /\ pos'[target] = pos[target] + 1
  BY <1>1, <1>3
<1>7. GoesOn(walk[target], walk'[target])
  BY <1>3, <1>5, <1>6, Advancing
<1>8. walk' \in [Sources -> Cursors]
  BY <1>1, <1>3, <1>7 DEF GoesOn
<1>9. ASSUME NEW p \in Sources PROVE Follows(p)'
  <2>1. CASE p = target /\ pos[target] = NumItems
    <3>1. Tested(p)'
      BY <1>1, <2>1 DEF Tested
    <3>2. walk'[p].pending = FALSE
      BY <1>5, <1>7, <2>1 DEF GoesOn, Cursors
    <3>. QED BY <3>1, <3>2, FollowsNot
  <2>2. CASE p = target /\ pos[target] # NumItems
    <3>1. ~Tested(p)'
      BY <1>1, <2>2 DEF Tested
    <3>2. /\ walk'[p].pending = TRUE /\ walk'[p].captured = (captured'[p] # "no")
          /\ InLayout(walk'[p]) /\ pos'[p] = Place(walk'[p])
      BY <1>1, <1>4, <1>5, <1>6, <1>7, <2>2 DEF GoesOn
    <3>3. InLayout(walk[p])' /\ Place(walk[p])' = Place(walk'[p])
      BY <3>2 DEF InLayout, Place
    <3>4. pending'[p] = TRUE
      BY <1>1, <1>3, <2>2
    <3>. QED BY <3>1, <3>2, <3>3, <3>4, FollowsOn
  <2>3. CASE p # target
    <3>1. walk'[p] = walk[p] /\ pos'[p] = pos[p] /\ ~Tested(p)'
      BY <1>1, <1>3, <2>3 DEF Tested
    <3>2. Follows(p) /\ pending'[p] = pending[p] /\ captured'[p] = captured[p]
      BY <1>1 DEF WalkInv
    <3>. QED BY <1>2, <3>1, <3>2, FollowsUntested
  <2>. QED BY <2>1, <2>2, <2>3
<1>. QED BY <1>1, <1>8, <1>9 DEF WalkInv

LEMMA WalkCheckedStep ==
    TypeOK /\ WalkInv /\ UNCHANGED layout /\ WalkChecked => WalkInv'
<1>. SUFFICES ASSUME TypeOK, WalkInv, UNCHANGED layout, WalkChecked PROVE WalkInv'
  OBVIOUS
<1>. DEFINE new == [walk[target] EXCEPT !.pending = TRUE]
<1>1. /\ target \in Sources /\ wpc = "check" /\ wpc' = "rearm" /\ UNCHANGED seen
      /\ pending' = [pending EXCEPT ![target] = ~Complete]
      /\ pos' = [pos EXCEPT ![target] = 1]
      /\ captured' = [captured EXCEPT ![target] = "no"]
      /\ pending[target]
  BY DEF WalkChecked, CheckComplete, TypeOK, WalkInv
<1>2. /\ walk[target] \in Cursors /\ walk \in [Sources -> Cursors]
      /\ pos \in [Sources -> 1..(NumItems + 1)] /\ pending \in [Sources -> BOOLEAN]
      /\ captured \in [Sources -> {"no", "current", "stale"}]
  BY <1>1 DEF WalkInv, TypeOK
<1>3. \A p \in Sources : ~Tested(p)' /\ (p # target => ~Tested(p))
  BY <1>1 DEF Tested
<1>4. walk[target].pending = FALSE
  <2>1. Follows(target) /\ Tested(target)
    BY <1>1 DEF WalkInv, Tested
  <2>. QED BY <2>1 DEF Follows
<1>5. pending'[target] = ~Complete /\ pos'[target] = 1 /\ captured'[target] = "no"
  BY <1>1, <1>2
<1>6. walk' = IF Complete THEN walk ELSE [walk EXCEPT ![target] = Reset(new)]
  BY <1>2 DEF WalkChecked
<1>7. new \in Cursors /\ new.pending = TRUE
  BY <1>2 DEF Cursors
<1>. HIDE DEF new
<1>8. walk' \in [Sources -> Cursors]
  BY <1>2, <1>6, <1>7, Start0Stands
<1>9. ASSUME NEW p \in Sources PROVE Follows(p)'
  <2>1. CASE p = target /\ Complete
    <3>1. walk'[p].pending = FALSE /\ pending'[p] = FALSE
      BY <1>4, <1>5, <1>6, <2>1
    <3>. QED BY <3>1, FollowsNot
  <2>2. CASE p = target /\ ~Complete
    <3>1. walk'[p] = Reset(new)
      BY <1>1, <1>2, <1>6, <2>2
    <3>2. /\ walk'[p] \in Cursors /\ InLayout(walk'[p]) /\ Place(walk'[p]) = 1
          /\ ~walk'[p].captured /\ walk'[p].pending = TRUE
      BY <1>7, <3>1, Start0Stands
    <3>3. InLayout(walk[p])' /\ Place(walk[p])' = 1
      BY <3>2 DEF InLayout, Place
    <3>4. walk'[p].captured = FALSE /\ pending'[p] = TRUE
      BY <1>5, <2>2, <3>2 DEF Cursors
    <3>5. walk'[p].captured = (captured'[p] # "no")
      BY <1>5, <2>2, <3>4
    <3>. QED BY <1>3, <1>5, <2>2, <3>2, <3>3, <3>4, <3>5, FollowsOn
  <2>3. CASE p # target
    <3>1. /\ walk'[p] = walk[p] /\ pos'[p] = pos[p] /\ pending'[p] = pending[p]
          /\ captured'[p] = captured[p]
      BY <1>1, <1>2, <1>6, <2>3
    <3>2. Follows(p)
      BY DEF WalkInv
    <3>. QED BY <1>3, <2>3, <3>1, <3>2, FollowsUntested
  <2>. QED BY <2>1, <2>2, <2>3
<1>10. \A p \in Sources : pending'[p] => seen'[p]
  BY <1>1, <1>2 DEF WalkInv
<1>. QED BY <1>1, <1>8, <1>9, <1>10 DEF WalkInv

(* Everything else does nothing to a cursor, nor to what it stands for.    *)
LEMMA BumpCaptures ==
    ASSUME TypeOK, Bump, NEW p \in Sources
    PROVE  (captured'[p] = "no") = (captured[p] = "no")
BY DEF Bump, TypeOK

LEMMA ElsewhereLeaves ==
    ASSUME TypeOK, Elsewhere
    PROVE  /\ UNCHANGED <<seen, pending, pos>>
           /\ (wpc # "check" /\ wpc' # "check") \/ (wpc' = wpc /\ target' = target)
           /\ wpc' = "send" => wpc = "send" /\ target' = target
           /\ UNCHANGED captured \/ Bump
<1>1. CASE Environment
  BY <1>1 DEF Environment, Begin, LocalChange, Disconnect, Connect, SwitchTransport,
              sourceVars, localVars
<1>2. CASE Start
  BY <1>2 DEF Start, sourceVars, localVars
<1>3. CASE Time
  BY <1>3 DEF Time, DelayExpires, PaceOver, PollComesDue, SourceReady, ClockComesDue,
              sourceVars, localVars
<1>4. CASE \E c \in Clients : Invocation(c)
  BY <1>4 DEF Invocation, Forward, Apply, Finish, sourceVars, localVars
<1>5. CASE NothingDue \/ SendRefused \/ Rearm \/ \E slot \in Slots : SendClock(slot)
  BY <1>5 DEF NothingDue, SendRefused, Rearm, SendClock, sourceVars, localVars
<1>. QED BY <1>1, <1>2, <1>3, <1>4, <1>5 DEF Elsewhere

LEMMA WalkElsewhereStep ==
    TypeOK /\ WalkInv /\ UNCHANGED layout /\ Elsewhere /\ UNCHANGED walk => WalkInv'
<1>. SUFFICES ASSUME TypeOK, WalkInv, UNCHANGED layout, Elsewhere, UNCHANGED walk
              PROVE  WalkInv'
  OBVIOUS
<1>1. /\ UNCHANGED <<seen, pending, pos>>
      /\ (wpc # "check" /\ wpc' # "check") \/ (wpc' = wpc /\ target' = target)
      /\ wpc' = "send" => wpc = "send" /\ target' = target
      /\ UNCHANGED captured \/ Bump
  BY ElsewhereLeaves
<1>2. ASSUME NEW p \in Sources PROVE Follows(p)'
  <2>1. (captured'[p] = "no") = (captured[p] = "no")
    BY <1>1, BumpCaptures
  <2>2. Tested(p)' = Tested(p)
    BY <1>1 DEF Tested
  <2>3. Follows(p) /\ walk'[p] = walk[p] /\ pending'[p] = pending[p] /\ pos'[p] = pos[p]
    BY <1>1 DEF WalkInv
  <2>. QED BY <2>1, <2>2, <2>3, FollowsStill
<1>. QED BY <1>1, <1>2 DEF WalkInv

LEMMA WalkInvInit == WalkInit => WalkInv
<1>. SUFFICES ASSUME WalkInit PROVE WalkInv
  OBVIOUS
<1>1. /\ walk = [p \in Sources |-> Start0] /\ layout \in Layouts /\ wpc = "idle"
      /\ pending = [p \in Sources |-> FALSE]
  BY DEF WalkInit, Init
<1>2. Start0 \in Cursors /\ Start0.pending = FALSE
  BY DEF Start0, Cursors
<1>3. \A p \in Sources : Follows(p)
  BY <1>1, <1>2 DEF Follows
<1>. QED BY <1>1, <1>2, <1>3 DEF WalkInv

LEMMA WalkInvStep == TypeOK /\ WalkInv /\ [WalkNext]_walkVars => WalkInv'
<1>. SUFFICES ASSUME TypeOK, WalkInv, [WalkNext]_walkVars PROVE WalkInv'
  OBVIOUS
<1>1. CASE WalkNext
  BY <1>1, WalkStartStep, WalkRepairStep, WalkReadStep, WalkAcceptedStep,
     WalkCheckedStep, WalkElsewhereStep DEF WalkNext
<1>2. CASE UNCHANGED walkVars
  <2>1. UNCHANGED <<layout, walk, seen, pending, pos, captured, wpc, target>>
    BY <1>2 DEF walkVars, vars, sourceVars, localVars
  <2>2. ASSUME NEW p \in Sources PROVE Follows(p)'
    <3>1. Tested(p)' = Tested(p)
      BY <2>1 DEF Tested
    <3>. QED BY <2>1, <3>1, FollowsStill DEF WalkInv
  <2>. QED BY <2>1, <2>2 DEF WalkInv
<1>. QED BY <1>1, <1>2

(* The cursor goes along with the steps of SplitSync and adds none: what   *)
(* is proved of those holds of the code's cursor, too.                     *)
THEOREM WalkImplementsSync == WalkSpec => Spec
<1>1. WalkInit => Init
  BY DEF WalkInit
<1>. QED BY <1>1, WalkIsStep, PTL DEF WalkSpec, Spec

(* A replay's commands are the ones of its layout in their order, each     *)
(* once, wherever in the nesting it was restarted or given up, for any     *)
(* number of gate words, selectors and effects.                            *)
THEOREM WalksInOrder == WalkSpec => []WalkInStep
<1>1. WalkInv => WalkInStep
  BY Standing DEF WalkInv, WalkInStep, Follows
<1>2. WalkSpec => []TypeOK
  BY WalkImplementsSync, SyncTypeCorrect
<1>. QED BY <1>1, <1>2, WalkInvInit, WalkInvStep, PTL DEF WalkSpec

=============================================================================
