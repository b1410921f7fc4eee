--------------------------- MODULE ProviderProofs ---------------------------
(***************************************************************************)
(* Proofs about two condition providers that keep state of their own: the  *)
(* endpoint conditions of Preference, for any transports and number of     *)
(* conditions, and Latch, for any threads and peripherals.                 *)
(***************************************************************************)
EXTENDS Preference, TLAPS

CONSTANTS Callers, Peripherals, Reboots
VARIABLES latch, remote, call, invalid, lone

L == INSTANCE Latch

-----------------------------------------------------------------------------
(* The endpoint conditions *)

(* Every step keeps each variable in its type. *)
THEOREM PreferenceTypeCorrect == Spec => []TypeOK
<1>. /\ 0 \in 0..(NumConditions + 1)
     /\ 1 \in 0..(NumConditions + 1)
  BY ConditionsAssumption
<1>1. Init => TypeOK
  BY DEF Init, TypeOK, Idle
<1>2. TypeOK /\ [Next]_vars => TypeOK'
  <2>. SUFFICES ASSUME TypeOK, [Next]_vars PROVE TypeOK'
    OBVIOUS
  <2>1. CASE ChangePreference
    BY <2>1 DEF ChangePreference, TypeOK
  <2>2. CASE KeyEvent
    BY <2>2 DEF KeyEvent, Scheduled, TypeOK
  <2>3. CASE TransportEvent
    BY <2>3 DEF TransportEvent, TypeOK
  <2>4. CASE DelayPasses
    BY <2>4 DEF DelayPasses, TypeOK
  <2>5. CASE Look
    BY <2>5 DEF Look, TypeOK
  <2>6. CASE StartEvaluation
    BY <2>6 DEF StartEvaluation, TypeOK
  <2>7. CASE SampleCondition
    <3>1. isObserved' \in BOOLEAN
      BY <2>7, Zenon DEF SampleCondition, StillObserved, TypeOK
    <3>2. sampled' \in [Conditions -> Transports]
      BY <2>7 DEF SampleCondition, TypeOK
    <3>3. next' \in 0..(NumConditions + 1)
      BY <2>7, ConditionsAssumption DEF SampleCondition, InList, Idle, TypeOK
    <3>. QED
      BY <2>7, <3>1, <3>2, <3>3 DEF SampleCondition, TypeOK
  <2>8. CASE FinishEvaluation
    BY <2>8 DEF FinishEvaluation, Idle, TypeOK
  <2>9. CASE UNCHANGED vars
    BY <2>9 DEF vars, TypeOK
  <2>. QED
    BY <2>1, <2>2, <2>3, <2>4, <2>5, <2>6, <2>7, <2>8, <2>9 DEF Next, Evaluation
<1>. QED
  BY <1>1, <1>2, PTL DEF Spec

(* PreferenceFollowed is not inductive: it needs to be known what a look   *)
(* that finds the observed preference may conclude.  As long as the        *)
(* observed preference stands, no condition was sampled with another since *)
(* its observation, except those an owed evaluation has still to sample;   *)
(* and without a look to come, what was sampled, or an owed evaluation     *)
(* will sample, is the preference of the last event or a later one.        *)
Done(c) == ~pending /\ (next = Idle \/ c < next)

ObservedInv == isObserved => \A c \in Conditions : Done(c) => sampled[c] = observed
HeardInv == look = "none" /\ ~unheard => \A c \in Conditions : Done(c) => sampled[c] = preference

(* When nothing is scheduled and every change was followed by an event,    *)
(* all endpoint conditions were sampled with the present preference.       *)
THEOREM PreferenceIsFollowed == Spec => []PreferenceFollowed
<1>1. Init => ObservedInv /\ HeardInv
  BY DEF Init, ObservedInv, HeardInv, Done
<1>2. TypeOK /\ ObservedInv /\ HeardInv /\ [Next]_vars => ObservedInv' /\ HeardInv'
  <2>. SUFFICES ASSUME TypeOK, ObservedInv, HeardInv, [Next]_vars
                PROVE ObservedInv' /\ HeardInv'
    OBVIOUS
  <2>1. CASE ChangePreference
    BY <2>1 DEF ChangePreference, ObservedInv, HeardInv, Done
  <2>2. CASE KeyEvent
    BY <2>2 DEF KeyEvent, Scheduled, ObservedInv, HeardInv, Done, TypeOK
  <2>3. CASE TransportEvent
    BY <2>3 DEF TransportEvent, ObservedInv, HeardInv, Done
  <2>4. CASE DelayPasses
    BY <2>4 DEF DelayPasses, ObservedInv, HeardInv, Done
  <2>5. CASE Look
    BY <2>5 DEF Look, ObservedInv, HeardInv, Done
  <2>6. CASE StartEvaluation
    BY <2>6, ConditionsAssumption DEF StartEvaluation, ObservedInv, HeardInv, Done, Idle,
       Conditions
  <2>7. CASE SampleCondition
    <3>1. ObservedInv'
      BY <2>7, ConditionsAssumption DEF SampleCondition, InList, StillObserved, ObservedInv, Done,
         Idle, Conditions, TypeOK
    <3>2. HeardInv'
      BY <2>7, ConditionsAssumption DEF SampleCondition, InList, HeardInv, Done, Idle, Conditions,
         TypeOK
    <3>. QED
      BY <3>1, <3>2
  <2>8. CASE FinishEvaluation
    BY <2>8, ConditionsAssumption DEF FinishEvaluation, InList, ObservedInv, HeardInv, Done,
       Idle, Conditions, TypeOK
  <2>9. CASE UNCHANGED vars
    BY <2>9 DEF vars, ObservedInv, HeardInv, Done
  <2>. QED
    BY <2>1, <2>2, <2>3, <2>4, <2>5, <2>6, <2>7, <2>8, <2>9 DEF Next, Evaluation
<1>3. HeardInv => PreferenceFollowed
  BY DEF HeardInv, PreferenceFollowed, Quiet, Done
<1>. QED
  BY <1>1, <1>2, <1>3, PreferenceTypeCorrect, PTL DEF Spec

-----------------------------------------------------------------------------
(* The latch *)

(* Every half holds one latch, and a press is resolved to 0 or 1.          *)
THEOREM LatchTypeCorrect == L!Spec => []L!TypeOK
<1>1. L!Init => L!TypeOK
  <2>1. L!NoCall \in [todo : SUBSET Peripherals, value : 0..1, under : BOOLEAN]
    BY DEF L!NoCall
  <2>2. L!Init => call \in [Callers -> [todo : SUBSET Peripherals, value : 0..1, under : BOOLEAN]]
    BY <2>1 DEF L!Init
  <2>3. L!Init => remote \in [Peripherals -> 0..1] /\ latch \in 0..1
    BY DEF L!Init
  <2>4. L!Init => invalid \in BOOLEAN /\ lone \subseteq Callers
    BY DEF L!Init
  <2>. QED
    BY <2>2, <2>3, <2>4 DEF L!TypeOK
<1>2. L!TypeOK /\ [L!Next]_L!vars => L!TypeOK'
  <2>. SUFFICES ASSUME L!TypeOK, [L!Next]_L!vars PROVE L!TypeOK'
    OBVIOUS
  <2>. USE DEF L!TypeOK
  <2>1. ASSUME NEW c \in Callers, L!Convert(c) PROVE L!TypeOK'
    BY <2>1 DEF L!Convert, L!Resolved, L!UnderWay
  <2>2. ASSUME NEW c \in Callers, L!Apply(c) PROVE L!TypeOK'
    BY <2>2 DEF L!Apply, L!Pressed, L!NoCall
  <2>3. ASSUME NEW c \in Callers, NEW p \in Peripherals, L!Forward(c, p) PROVE L!TypeOK'
    <3>1. /\ call[c] \in [todo : SUBSET Peripherals, value : 0..1, under : BOOLEAN]
          /\ call' = [call EXCEPT ![c].todo = call[c].todo \ {p}]
      BY <2>3 DEF L!Forward
    <3>2. call' \in [Callers -> [todo : SUBSET Peripherals, value : 0..1, under : BOOLEAN]]
      BY <3>1
    <3>. QED
      BY <2>3, <3>1, <3>2 DEF L!Forward, L!Pressed
  <2>4. CASE L!Evaluate
    BY <2>4 DEF L!Evaluate
  <2>5. ASSUME NEW p \in Peripherals, L!Reboot(p) PROVE L!TypeOK'
    BY <2>5 DEF L!Reboot
  <2>6. CASE UNCHANGED L!vars
    BY <2>6 DEF L!vars
  <2>. QED
    BY <2>1, <2>2, <2>3, <2>4, <2>5, <2>6 DEF L!Next
<1>. QED
  BY <1>1, <1>2, PTL DEF L!Spec

(* While a press that nobody has overlapped is under way it is the only    *)
(* one, and the peripherals it has been forwarded to hold its value.       *)
Reached ==
    \A c \in lone : call[c].under =>
        /\ L!UnderWay = {c}
        /\ \A p \in Peripherals \ call[c].todo : remote[p] = call[c].value
NothingTodo == \A c \in Callers : ~call[c].under => call[c].todo = {}

LEMMA LonePressReaches == L!Spec => [](Reached /\ NothingTodo)
<1>1. L!Init => Reached /\ NothingTodo
  BY DEF L!Init, Reached, NothingTodo, L!NoCall
<1>2. L!TypeOK /\ Reached /\ NothingTodo /\ [L!Next]_L!vars => (Reached /\ NothingTodo)'
  <2>. SUFFICES ASSUME L!TypeOK, Reached, NothingTodo, [L!Next]_L!vars PROVE (Reached /\ NothingTodo)'
    OBVIOUS
  <2>1. ASSUME NEW c \in Callers, L!Convert(c) PROVE (Reached /\ NothingTodo)'
    BY <2>1 DEF L!Convert, L!UnderWay, Reached, NothingTodo, L!TypeOK
  <2>2. ASSUME NEW c \in Callers, L!Apply(c) PROVE (Reached /\ NothingTodo)'
    BY <2>2 DEF L!Apply, L!NoCall, L!UnderWay, Reached, NothingTodo, L!TypeOK
  <2>3. ASSUME NEW c \in Callers, NEW p \in Peripherals, L!Forward(c, p)
        PROVE  (Reached /\ NothingTodo)'
    <3>1. /\ call[c].todo # {} /\ UNCHANGED lone
          /\ call' = [call EXCEPT ![c].todo = call[c].todo \ {p}]
          /\ remote' = [remote EXCEPT ![p] = call[c].value]
      BY <2>3 DEF L!Forward, L!Pressed
    <3>2. \A d \in Callers : /\ call'[d].under = call[d].under
                             /\ call'[d].value = call[d].value
                             /\ d # c => call'[d] = call[d]
      BY <3>1 DEF L!TypeOK
    <3>3. call'[c].todo = call[c].todo \ {p} /\ call[c].under
      BY <3>1 DEF L!TypeOK, NothingTodo
    <3>4. L!UnderWay' = L!UnderWay /\ c \in L!UnderWay
      BY <3>2, <3>3 DEF L!UnderWay
    <3>5. NothingTodo'
      BY <3>2, <3>3 DEF NothingTodo
    <3>6. Reached'
      BY <3>1, <3>2, <3>3, <3>4 DEF Reached, L!TypeOK
    <3>. QED
      BY <3>5, <3>6
  <2>4. CASE L!Evaluate
    BY <2>4 DEF L!Evaluate, L!UnderWay, Reached, NothingTodo
  <2>5. ASSUME NEW p \in Peripherals, L!Reboot(p) PROVE (Reached /\ NothingTodo)'
    BY <2>5 DEF L!Reboot, L!UnderWay, Reached, NothingTodo, L!TypeOK
  <2>6. CASE UNCHANGED L!vars
    BY <2>6 DEF L!vars, L!UnderWay, Reached, NothingTodo
  <2>. QED
    BY <2>1, <2>2, <2>3, <2>4, <2>5, <2>6 DEF L!Next
<1>. QED
  BY <1>1, <1>2, LatchTypeCorrect, PTL DEF L!Spec

(* A press that nobody overlaps leaves every half with the same value,     *)
(* whatever overlapping presses and restarts had left apart before it.     *)
THEOREM LonePressesAgree == L!Spec => L!LonePressAgrees
<1>1. L!TypeOK /\ Reached /\ [L!Next]_L!vars
        => [\A c \in lone : L!Apply(c) => \A p \in Peripherals : remote'[p] = latch']_L!vars
  BY DEF L!TypeOK, Reached, L!Apply, L!Pressed
<1>. QED
  BY <1>1, LatchTypeCorrect, LonePressReaches, PTL DEF L!Spec, L!LonePressAgrees

=============================================================================
