-------------------------- MODULE ConditionsProofs --------------------------
(***************************************************************************)
(* Proofs about Conditions, for any conditions and dependencies, gates,    *)
(* triggers, defects and either half.                                      *)
(***************************************************************************)
EXTENDS Conditions, WellFoundedInduction, TLAPS

-----------------------------------------------------------------------------
(* What depends on what *)

(* A set with each number whose predecessors it has, has them all.         *)
LEMMA AllNumbers ==
    ASSUME NEW S, \A n \in Nat : (\A m \in Nat : m < n => m \in S) => n \in S
    PROVE  \A n \in Nat : n \in S
<1>. DEFINE below == {pair \in Nat \X Nat : pair[1] < pair[2]}
            rest == Nat \ S
<1>1. IsWellFoundedOn(below, Nat)
  BY NatLessThanWellFounded DEF OpToRel
<1>2. ASSUME rest # {} PROVE FALSE
  <2>1. PICK n \in rest : \A m \in rest : <<m, n>> \notin below
    <3>. HIDE DEF below
    <3>1. rest \subseteq Nat
      OBVIOUS
    <3>. HIDE DEF rest
    <3>. QED BY <1>1, <1>2, <3>1, WFMin
  <2>2. \A m \in Nat : m < n => m \in S
    BY <2>1
  <2>. QED BY <2>2
<1>. QED BY <1>2

LEMMA BelowClosed ==
    ASSUME TypeOK, NEW c \in Conditions
    PROVE  /\ c \in Below(c) /\ Below(c) \subseteq Conditions
           /\ \A d \in Below(c) : deps[d] \subseteq Below(c)
BY DEF Below, TypeOK

LEMMA BelowLeast ==
    ASSUME NEW c, NEW S \in SUBSET Conditions, c \in S, \A s \in S : deps[s] \subseteq S
    PROVE  Below(c) \subseteq S
BY DEF Below

(* A condition is healthy if it is sound and all it depends on is healthy. *)
LEMMA HealthyByParts ==
    ASSUME TypeOK, NEW c \in Conditions
    PROVE  Healthy(c) = (Sound(c) /\ \A d \in deps[c] : Healthy(d))
<1>1. c # Always
  BY ConditionsAssumption DEF Conditions, Always
<1>2. deps[c] \subseteq Conditions
  BY DEF TypeOK
<1>3. ASSUME Healthy(c) PROVE Sound(c) /\ \A d \in deps[c] : Healthy(d)
  <2>1. Sound(c)
    BY <1>1, <1>3, BelowClosed DEF Healthy
  <2>2. ASSUME NEW d \in deps[c] PROVE Healthy(d)
    <3>1. d \in Below(c) /\ Below(c) \in SUBSET Conditions
      BY BelowClosed
    <3>2. Below(d) \subseteq Below(c)
      BY <3>1, BelowClosed, BelowLeast
    <3>. QED BY <1>1, <1>3, <3>2 DEF Healthy
  <2>. QED BY <2>1, <2>2
<1>4. ASSUME Sound(c), \A d \in deps[c] : Healthy(d) PROVE Healthy(c)
  <2>. DEFINE S == {x \in Conditions : Sound(x) /\ (x = c \/ Healthy(x))}
  <2>1. ASSUME NEW x \in Conditions, Healthy(x) PROVE Sound(x)
    BY <2>1, BelowClosed, ConditionsAssumption DEF Healthy, Conditions, Always
  <2>2. ASSUME NEW x \in Conditions, Healthy(x), NEW d \in deps[x]
        PROVE  d \in Conditions /\ Healthy(d)
    <3>1. d \in Below(x) /\ Below(x) \in SUBSET Conditions
      BY BelowClosed
    <3>2. Below(d) \subseteq Below(x)
      BY <3>1, BelowClosed, BelowLeast
    <3>. QED
      BY <2>2, <3>1, <3>2, ConditionsAssumption DEF Healthy, Conditions, Always
  <2>3. \A s \in S : deps[s] \subseteq S
    BY <1>2, <1>4, <2>1, <2>2
  <2>4. c \in S
    BY <1>4
  <2>5. Below(c) \subseteq S
    BY <2>3, <2>4, BelowLeast
  <2>. QED BY <2>5 DEF Healthy
<1>. QED BY <1>3, <1>4 DEF Healthy

-----------------------------------------------------------------------------
(* What a condition means *)

Meaning(f, c) ==
    IF kind[c] = "source" THEN source[c]
    ELSE IF kind[c] = "and" THEN \A d \in deps[c] : f[d]
    ELSE \E d \in deps[c] : f[d]

(* It depends on what the condition depends on only. *)
LEMMA MeaningLocal ==
    ASSUME TypeOK, NEW c \in Conditions, NEW f, NEW g,
           \A d \in deps[c] : f[d] = g[d]
    PROVE  Meaning(f, c) = Meaning(g, c)
BY DEF Meaning, TypeOK

LEMMA MeaningBoolean ==
    ASSUME TypeOK, NEW c \in Conditions, NEW f
    PROVE  Meaning(f, c) \in BOOLEAN
BY DEF Meaning, TypeOK

LEMMA TruthSolves ==
    ASSUME NEW f, f = [c \in Conditions |-> Meaning(f, c)]
    PROVE  Truth = [c \in Conditions |-> Meaning(Truth, c)]
<1>1. Truth = CHOOSE g : g = [c \in Conditions |-> Meaning(g, c)]
  BY DEF Truth, Meaning
<1>. QED BY <1>1

(* As dependencies come first, every condition has a meaning. *)
LEMMA TruthDefined ==
    ASSUME TypeOK, Registry
    PROVE  Truth = [c \in Conditions |-> Meaning(Truth, c)]
<1>. DEFINE Upto(n) == [1..n -> BOOLEAN]
            Solved(f, n) == \A c \in 1..n : f[c] = Meaning(f, c)
            S == {n \in Nat : n <= NumConditions => \E f \in Upto(n) : Solved(f, n)}
<1>1. ASSUME NEW n \in Nat, \A m \in Nat : m < n => m \in S PROVE n \in S
  <2>. SUFFICES ASSUME n <= NumConditions PROVE \E f \in Upto(n) : Solved(f, n)
    OBVIOUS
  <2>1. CASE n = 0
    <3>1. 1..n = {} /\ [c \in 1..n |-> TRUE] \in Upto(n)
      BY <2>1
    <3>. QED BY <3>1
  <2>2. CASE n # 0
    <3>0. n - 1 \in S
      <4>. HIDE DEF S
      <4>. QED BY <1>1, <2>2
    <3>1. PICK f \in Upto(n - 1) : Solved(f, n - 1)
      <4>. HIDE DEF Upto, Solved
      <4>. QED BY <3>0, ConditionsAssumption
    <3>. DEFINE g == [c \in 1..n |-> IF c < n THEN f[c] ELSE Meaning(f, n)]
    <3>2. ASSUME NEW c \in 1..n PROVE g[c] = Meaning(f, c)
      <4>1. CASE c < n
        BY <3>1, <4>1
      <4>2. CASE c = n
        BY <4>2
      <4>. QED BY <4>1, <4>2
    <3>3. ASSUME NEW c \in 1..n PROVE c \in Conditions /\ g[c] \in BOOLEAN
      BY <3>2, <3>3, MeaningBoolean, ConditionsAssumption DEF Conditions
    <3>4. ASSUME NEW c \in 1..n PROVE Meaning(f, c) = Meaning(g, c)
      <4>1. c \in Conditions
        BY <3>3
      <4>2. \A d \in deps[c] : d \in Conditions /\ d < c
        BY <4>1 DEF Registry, TypeOK
      <4>3. \A d \in deps[c] : g[d] = f[d]
        BY <4>1, <4>2, ConditionsAssumption DEF Conditions
      <4>. HIDE DEF g
      <4>. QED BY <4>1, <4>3, MeaningLocal
    <3>. HIDE DEF Upto
    <3>5. g \in Upto(n)
      BY <3>3 DEF Upto
    <3>6. Solved(g, n)
      BY <3>2, <3>4
    <3>. QED BY <3>5, <3>6
  <2>. QED BY <2>1, <2>2
<1>2. NumConditions \in S
  <2>. HIDE DEF S
  <2>. QED BY <1>1, AllNumbers, ConditionsAssumption
<1>3. PICK f \in Upto(NumConditions) : Solved(f, NumConditions)
  BY <1>2, ConditionsAssumption
<1>4. f = [c \in Conditions |-> Meaning(f, c)]
  BY <1>3 DEF Conditions
<1>. QED BY <1>4, TruthSolves

-----------------------------------------------------------------------------
(* Types *)

LEMMA InitTypes == Init => TypeOK
<1>. SUFFICES ASSUME Init PROVE TypeOK
  OBVIOUS
<1>1. 0 \in 0..(NumConditions + NumTriggers + 1)
  BY ConditionsAssumption
<1>2. /\ overlayRoot \in [Overlays -> Roots] /\ triggerRoot \in [Triggers -> Roots]
      /\ defective \subseteq Conditions /\ centralOnly \subseteq Conditions
  BY ConfigAssumption DEF Init
<1>. QED BY <1>1, <1>2 DEF Init, TypeOK, Stages

LEMMA StepTypes == TypeOK /\ [Next]_vars => TypeOK'
<1>. SUFFICES ASSUME TypeOK, [Next]_vars PROVE TypeOK'
  OBVIOUS
<1>. USE DEF config, entries, handler, gates, trigs, Stages
<1>1. CASE Require
  <2>1. NumConditions \in 0..(NumConditions + NumTriggers + 1)
    BY ConditionsAssumption
  <2>2. EvaluatedRoots \subseteq Conditions
    BY DEF EvaluatedRoots, Registered, Roots, Always, TypeOK
  <2>. QED BY <1>1, <2>1, <2>2 DEF Require, Registered, TypeOK
<1>2. CASE MarkDependencies
  <2>1. at \in Conditions \/ (at \notin live)
    BY DEF TypeOK
  <2>2. at - 1 \in 0..(NumConditions + NumTriggers + 1)
    BY <1>2, ConditionsAssumption DEF MarkDependencies, TypeOK
  <2>. QED BY <1>2, <2>1, <2>2 DEF MarkDependencies, Dependencies, TypeOK
<1>3. CASE Marked \/ Initialized \/ StartRun \/ Dispatch
  <2>1. 1 \in 0..(NumConditions + NumTriggers + 1)
    BY ConditionsAssumption
  <2>. QED BY <1>3, <2>1 DEF Marked, Initialized, StartRun, Dispatch, TypeOK
<1>4. CASE PropagateFault
  <2>1. at + 1 \in 0..(NumConditions + NumTriggers + 1)
    BY <1>4, ConditionsAssumption DEF PropagateFault, TypeOK
  <2>. QED BY <1>4, <2>1 DEF PropagateFault, Faulted, TypeOK
<1>5. CASE SampleCondition
  <2>1. at + 1 \in 0..(NumConditions + NumTriggers + 1)
    BY <1>5, ConditionsAssumption DEF SampleCondition, TypeOK
  <2>2. ASSUME at \in Conditions PROVE Sample(at) \in BOOLEAN
    BY <2>2 DEF Sample, TypeOK
  <2>3. value' \in [Conditions -> BOOLEAN]
    BY <1>5, <2>2 DEF SampleCondition, TypeOK
  <2>. QED BY <1>5, <2>1, <2>3 DEF SampleCondition, TypeOK
<1>6. CASE Sampled \/ FinishRun
  <2>1. 0 \in 0..(NumConditions + NumTriggers + 1)
    BY ConditionsAssumption
  <2>. QED BY <1>6, <2>1 DEF Sampled, FinishRun, TypeOK
<1>7. CASE Refresh
  <2>1. \A o \in Overlays : GateOf(o) \in BOOLEAN
    BY DEF GateOf, Holds, Valid, Value, TypeOK
  <2>. QED BY <1>7, <2>1 DEF Refresh, TypeOK
<1>8. CASE EvaluateTrigger
  <2>1. at \in Triggers
    BY <1>8 DEF EvaluateTrigger, Registered
  <2>2. at + 1 \in 0..(NumConditions + NumTriggers + 1)
    BY <2>1, ConditionsAssumption DEF Triggers
  <2>3. Holds(triggerRoot[at]) \in BOOLEAN
    BY DEF Holds, Valid, Value
  <2>4. ASSUME NEW list \in {"enter", "exit"}, Run(at, list)
        PROVE  /\ ran' \in [Triggers -> {"none", "enter", "exit"}]
               /\ source' \in [Conditions -> BOOLEAN] /\ pending' \in BOOLEAN
    BY <2>1, <2>4 DEF Run, Latches, TypeOK
  <2>5. /\ disabled' \subseteq Triggers /\ previous' \in [Triggers -> BOOLEAN]
        /\ ran' \in [Triggers -> {"none", "enter", "exit"}]
        /\ source' \in [Conditions -> BOOLEAN] /\ pending' \in BOOLEAN
    BY <1>8, <2>1, <2>3, <2>4 DEF EvaluateTrigger, TypeOK
  <2>. QED BY <1>8, <2>2, <2>5 DEF EvaluateTrigger, TypeOK
<1>9. ASSUME NEW c \in Conditions, ChangeSource(c) \/ Invalidate(c) PROVE TypeOK'
  BY <1>9 DEF ChangeSource, Invalidate, TypeOK
<1>10. CASE UNCHANGED vars
  BY <1>10 DEF vars, TypeOK
<1>. QED
  BY <1>1, <1>2, <1>3, <1>4, <1>5, <1>6, <1>7, <1>8, <1>9, <1>10
     DEF Next, Initialization, Evaluation

(* Every step keeps each variable in its type. *)
THEOREM ConditionsTypeCorrect == Spec => []TypeOK
BY InitTypes, StepTypes, PTL DEF Spec

-----------------------------------------------------------------------------
(* The configuration and the handler *)

LEMMA InitRegistry == Init => Registry
<1>1. Init => \A c \in Conditions : \A d \in deps[c] : d < c
  BY DEF Init
<1>2. Init => \A c \in Conditions : (kind[c] = "source") = (deps[c] = {})
  BY DEF Init
<1>3. Init => (~central => \A t \in Triggers : triggerRoot[t] = Always)
  BY DEF Init
<1>. QED BY <1>1, <1>2, <1>3 DEF Registry

LEMMA ConfigKept == [Next]_vars => UNCHANGED config
BY DEF Next, Initialization, Evaluation, Require, MarkDependencies, Marked, PropagateFault,
       Initialized, StartRun, SampleCondition, Sampled, Refresh, Dispatch, EvaluateTrigger,
       FinishRun, ChangeSource, Invalidate, vars

LEMMA RegistryKept == Registry /\ UNCHANGED config => Registry'
BY DEF Registry, config

LEMMA HealthKept ==
    ASSUME UNCHANGED config
    PROVE  /\ \A c : Sound(c)' = Sound(c)
           /\ \A r : Healthy(r)' = Healthy(r)
           /\ \A c : InScope(c)' = InScope(c)
           /\ EvaluatedRoots' = EvaluatedRoots /\ Registered' = Registered
<1>. USE DEF config
<1>1. \A c : Sound(c)' = Sound(c)
  BY DEF Sound
<1>2. \A c : Below(c)' = Below(c)
  BY DEF Below
<1>3. \A r : Healthy(r)' = Healthy(r)
  BY <1>1, <1>2 DEF Healthy
<1>. QED BY <1>1, <1>3 DEF InScope, EvaluatedRoots, Registered, Evaluated

LEMMA HandlerKept == TypeOK /\ HandlerInv /\ [Next]_vars => HandlerInv'
<1>. SUFFICES ASSUME TypeOK, HandlerInv, [Next]_vars PROVE HandlerInv'
  OBVIOUS
<1>. USE ConditionsAssumption DEF HandlerInv, handler
<1>1. CASE Initialization
  BY <1>1 DEF Initialization, Require, MarkDependencies, Marked, PropagateFault, Initialized,
              TypeOK
<1>2. CASE StartRun \/ SampleCondition \/ Sampled \/ Refresh \/ Dispatch \/ FinishRun
  BY <1>2 DEF StartRun, SampleCondition, Sampled, Refresh, Dispatch, FinishRun, TypeOK
<1>3. CASE EvaluateTrigger
  BY <1>3 DEF EvaluateTrigger, TypeOK
<1>4. ASSUME NEW c \in Conditions, ChangeSource(c) \/ Invalidate(c) PROVE HandlerInv'
  BY <1>4 DEF ChangeSource, Invalidate
<1>5. CASE UNCHANGED vars
  BY <1>5 DEF vars
<1>. QED BY <1>1, <1>2, <1>3, <1>4, <1>5 DEF Next, Evaluation

-----------------------------------------------------------------------------
(* Initialization *)

LEMMA MarkKept ==
    TypeOK /\ Registry /\ HandlerInv /\ MarkInv /\ [Next]_vars => MarkInv'
<1>. SUFFICES ASSUME TypeOK, Registry, HandlerInv, MarkInv, [Next]_vars PROVE MarkInv'
  OBVIOUS
<1>1. /\ \A c : Sound(c)' = Sound(c) /\ InScope(c)' = InScope(c)
      /\ EvaluatedRoots' = EvaluatedRoots /\ deps' = deps /\ defective' = defective
  BY ConfigKept, HealthKept DEF config
<1>2. CASE Require
  <2>1. ASSUME NEW c \in Conditions PROVE ~(c > NumConditions)
    BY ConditionsAssumption DEF Conditions
  <2>2. EvaluatedRoots \subseteq Conditions
    BY DEF EvaluatedRoots, Registered, Roots, Always, TypeOK
  <2>. QED BY <1>1, <1>2, <2>1, <2>2 DEF MarkInv, Require
<1>3. CASE MarkDependencies
  <2>1. /\ stage = "mark" /\ stage' = "mark" /\ at' = at - 1 /\ ~initialized
        /\ UNCHANGED initialized
    BY <1>3 DEF MarkDependencies, handler, HandlerInv
  <2>2. at \in Conditions
    BY <1>3, <2>1, ConditionsAssumption DEF MarkDependencies, HandlerInv, TypeOK, Conditions
  <2>3. \A d \in deps[at] : d \in Conditions /\ ~(d > at - 1)
    BY <2>2, ConditionsAssumption DEF Registry, TypeOK, Conditions
  <2>4. \A c \in Conditions : c > at - 1 <=> (c > at \/ c = at)
    BY <2>2 DEF Conditions
  <2>5. live \subseteq Conditions
    BY DEF TypeOK
  <2>6. /\ EvaluatedRoots \subseteq live
        /\ fault = defective \cup {c \in live : c > at /\ ~InScope(c)}
        /\ \A c \in live : c > at /\ Sound(c) => deps[c] \subseteq live
    BY <2>1 DEF MarkInv
  <2>7. (at \in fault) = (at \in defective)
    BY <2>2, <2>6 DEF Conditions
  <2>8. \A c : Sound(c) = (c \notin defective /\ InScope(c))
    BY DEF Sound, InScope
  <2>9. CASE at \notin live \/ at \in fault
    <3>1. UNCHANGED <<live, fault>>
      BY <1>3, <2>9 DEF MarkDependencies
    <3>2. fault = defective \cup {c \in live : c > at - 1 /\ ~InScope(c)}
      BY <2>4, <2>5, <2>6, <2>7, <2>9
    <3>3. \A c \in live : c > at - 1 /\ Sound(c) => deps[c] \subseteq live
      BY <2>4, <2>5, <2>6, <2>7, <2>8, <2>9
    <3>. QED BY <1>1, <2>1, <2>6, <3>1, <3>2, <3>3 DEF MarkInv
  <2>10. CASE at \in live /\ at \notin fault /\ ~InScope(at)
    <3>1. live' = live /\ fault' = fault \cup {at}
      BY <1>3, <2>10 DEF MarkDependencies, InScope
    <3>2. fault' = defective \cup {c \in live : c > at - 1 /\ ~InScope(c)}
      BY <2>4, <2>5, <2>6, <2>10, <3>1
    <3>3. \A c \in live : c > at - 1 /\ Sound(c) => deps[c] \subseteq live
      BY <2>4, <2>5, <2>6, <2>8, <2>10
    <3>. QED BY <1>1, <2>1, <2>6, <3>1, <3>2, <3>3 DEF MarkInv
  <2>11. CASE at \in live /\ at \notin fault /\ InScope(at)
    <3>1. live' = live \cup deps[at] /\ fault' = fault
      BY <1>3, <2>11 DEF MarkDependencies, InScope, Dependencies
    <3>2. fault' = defective \cup {c \in live' : c > at - 1 /\ ~InScope(c)}
      BY <2>3, <2>4, <2>5, <2>6, <2>11, <3>1
    <3>3. \A c \in live' : c > at - 1 /\ Sound(c) => deps[c] \subseteq live'
      BY <2>3, <2>4, <2>5, <2>6, <3>1
    <3>. QED BY <1>1, <2>1, <2>6, <3>1, <3>2, <3>3 DEF MarkInv
  <2>. QED BY <2>9, <2>10, <2>11
<1>4. CASE Marked
  <2>1. /\ stage = "mark" /\ stage' = "propagate" /\ at = 0 /\ UNCHANGED <<live, fault, initialized>>
    BY <1>4 DEF Marked, entries
  <2>2. \A c \in live : c > at
    BY <2>1 DEF TypeOK, Conditions
  <2>. QED BY <1>1, <2>1, <2>2 DEF MarkInv
<1>5. CASE PropagateFault \/ Initialized
  BY <1>1, <1>5 DEF PropagateFault, Initialized, entries, MarkInv
<1>6. CASE Evaluation
  <2>1. initialized /\ initialized' /\ live' = live /\ stage' # "mark"
    BY <1>6 DEF Evaluation, StartRun, SampleCondition, Sampled, Refresh, Dispatch,
         EvaluateTrigger, FinishRun, entries, HandlerInv
  <2>. QED BY <1>1, <2>1 DEF MarkInv
<1>7. ASSUME NEW c \in Conditions, ChangeSource(c) \/ Invalidate(c) PROVE MarkInv'
  BY <1>1, <1>7 DEF ChangeSource, Invalidate, entries, handler, MarkInv
<1>8. CASE UNCHANGED vars
  BY <1>1, <1>8 DEF vars, entries, handler, MarkInv
<1>. QED BY <1>2, <1>3, <1>4, <1>5, <1>6, <1>7, <1>8 DEF Next, Initialization

LEMMA FaultKept ==
    TypeOK /\ Registry /\ HandlerInv /\ MarkInv /\ FaultInv /\ [Next]_vars => FaultInv'
<1>. SUFFICES ASSUME TypeOK, Registry, HandlerInv, MarkInv, FaultInv, [Next]_vars
              PROVE  FaultInv'
  OBVIOUS
<1>1. /\ \A c : Sound(c)' = Sound(c)
      /\ \A r : Healthy(r)' = Healthy(r)
  BY ConfigKept, HealthKept
<1>2. CASE Require \/ MarkDependencies
  BY <1>2 DEF Require, MarkDependencies, HandlerInv, FaultInv
<1>3. CASE Marked
  <2>1. /\ stage = "mark" /\ at = 0 /\ at' = 1 /\ UNCHANGED <<live, fault, initialized>>
        /\ ~initialized
    BY <1>3 DEF Marked, entries, HandlerInv
  <2>2. \A c \in live : ~(c < 1) /\ c > 0
    BY DEF TypeOK, Conditions
  <2>3. \A c \in live : (c \in fault) = ~Sound(c)
    BY <2>1, <2>2 DEF MarkInv, Sound, InScope
  <2>. QED BY <1>1, <2>1, <2>2, <2>3 DEF FaultInv
<1>4. CASE PropagateFault
  <2>1. /\ stage = "propagate" /\ at' = at + 1 /\ ~initialized
        /\ UNCHANGED <<live, initialized>>
        /\ fault' = IF Faulted(at) THEN fault \cup {at} ELSE fault
    BY <1>4 DEF PropagateFault, HandlerInv
  <2>2. at \in Conditions
    BY <1>4, <2>1, ConditionsAssumption DEF PropagateFault, HandlerInv, TypeOK, Conditions
  <2>3. \A c \in live : (c \in fault) = (IF c < at THEN ~Healthy(c) ELSE ~Sound(c))
    BY <2>1 DEF FaultInv
  <2>4. ASSUME at \in live PROVE (at \in fault') = ~Healthy(at)
    <3>1. ASSUME Sound(at)
          PROVE  \A d \in deps[at] : (d \in fault) = ~Healthy(d)
      <4>1. deps[at] \subseteq live
        BY <2>1, <2>4, <3>1 DEF MarkInv
      <4>2. \A d \in deps[at] : d < at
        BY <2>2 DEF Registry
      <4>. QED BY <2>3, <4>1, <4>2
    <3>2. (at \in fault) = ~Sound(at)
      BY <2>2, <2>3, <2>4 DEF Conditions
    <3>3. Healthy(at) = (Sound(at) /\ \A d \in deps[at] : Healthy(d))
      BY <2>2, HealthyByParts
    <3>. QED BY <2>1, <2>4, <3>1, <3>2, <3>3 DEF Faulted
  <2>5. \A c \in live : c < at + 1 <=> (c < at \/ c = at)
    BY <2>2 DEF TypeOK, Conditions
  <2>6. \A c \in live : c # at => (c \in fault') = (c \in fault)
    BY <2>1
  <2>7. ASSUME NEW c \in live
        PROVE  (c \in fault') = (IF c < at + 1 THEN ~Healthy(c) ELSE ~Sound(c))
    <3>1. CASE c = at
      BY <2>4, <2>5, <3>1
    <3>2. CASE c # at
      BY <2>3, <2>5, <2>6, <3>2
    <3>. QED BY <3>1, <3>2
  <2>. QED BY <1>1, <2>1, <2>7 DEF FaultInv
<1>5. CASE Initialized
  <2>1. /\ stage = "propagate" /\ at > NumConditions /\ UNCHANGED <<live, fault>>
        /\ stage' = "sample"
    BY <1>5 DEF Initialized, entries
  <2>2. \A c \in live : c < at
    BY <2>1, ConditionsAssumption DEF TypeOK, Conditions
  <2>. QED BY <1>1, <2>1, <2>2 DEF FaultInv
<1>6. CASE Evaluation
  <2>1. initialized /\ UNCHANGED <<live, fault>> /\ stage' # "propagate"
    BY <1>6 DEF Evaluation, StartRun, SampleCondition, Sampled, Refresh, Dispatch,
         EvaluateTrigger, FinishRun, entries, HandlerInv
  <2>. QED BY <1>1, <2>1 DEF FaultInv
<1>7. ASSUME NEW c \in Conditions, ChangeSource(c) \/ Invalidate(c) PROVE FaultInv'
  BY <1>1, <1>7 DEF ChangeSource, Invalidate, entries, handler, FaultInv
<1>8. CASE UNCHANGED vars
  BY <1>1, <1>8 DEF vars, entries, handler, FaultInv
<1>. QED BY <1>2, <1>3, <1>4, <1>5, <1>6, <1>7, <1>8 DEF Next, Initialization

(* What a healthy root depends on is live and healthy. *)
LEMMA ValidExactly ==
    ASSUME TypeOK, MarkInv, FaultInv, initialized, NEW r \in EvaluatedRoots
    PROVE  /\ Valid(r) = Healthy(r)
           /\ Healthy(r) => \A d \in Below(r) : Valid(d)
<1>1. r \in live /\ live \subseteq Conditions /\ r # Always
  <2>1. r \in live
    BY DEF MarkInv
  <2>2. live \subseteq Conditions
    BY DEF TypeOK
  <2>. QED BY <2>1, <2>2, ConditionsAssumption DEF Conditions, Always
<1>2. \A c \in live : (c \in fault) = ~Healthy(c)
  BY DEF FaultInv
<1>3. Valid(r) = Healthy(r)
  <2>1. Healthy(r) \in BOOLEAN
    BY DEF Healthy
  <2>2. Valid(r) <=> r \notin fault
    BY <1>1 DEF Valid
  <2>3. Valid(r) \in BOOLEAN
    BY DEF Valid
  <2>. QED BY <1>1, <1>2, <2>1, <2>2, <2>3
<1>4. ASSUME Healthy(r) PROVE \A d \in Below(r) : Valid(d)
  <2>. DEFINE S == {c \in live : Healthy(c)}
  <2>1. ASSUME NEW c \in S PROVE deps[c] \subseteq S
    <3>1. Sound(c) /\ \A d \in deps[c] : Healthy(d)
      BY <1>1, HealthyByParts
    <3>. QED BY <3>1 DEF MarkInv
  <2>2. Below(r) \subseteq S
    BY <1>1, <1>4, <2>1, BelowLeast
  <2>. QED BY <1>2, <2>2 DEF Valid
<1>. QED BY <1>3, <1>4

LEMMA InitializationIsExact ==
    TypeOK /\ MarkInv /\ FaultInv => InitializationExact
BY ValidExactly DEF InitializationExact

-----------------------------------------------------------------------------
(* What comes of it *)

(* Roots that are evaluated, and the lack of one, have a value exactly if  *)
(* they are healthy.                                                       *)
LEMMA RootsValid ==
    ASSUME TypeOK, MarkInv, FaultInv, initialized
    PROVE  /\ \A o \in Overlays : Evaluated(o) =>
                 Valid(overlayRoot[o]) = Healthy(overlayRoot[o])
           /\ \A t \in Registered : Valid(triggerRoot[t]) = Healthy(triggerRoot[t])
<1>1. Valid(Always) = Healthy(Always)
  BY DEF Valid, Healthy
<1>2. ASSUME NEW o \in Overlays, Evaluated(o), overlayRoot[o] # Always
      PROVE  overlayRoot[o] \in EvaluatedRoots
  BY <1>2 DEF EvaluatedRoots
<1>3. ASSUME NEW t \in Registered, triggerRoot[t] # Always
      PROVE  triggerRoot[t] \in EvaluatedRoots
  BY <1>3 DEF EvaluatedRoots
<1>. QED BY <1>1, <1>2, <1>3, ValidExactly

(* Handlers that leave gates and triggers as they are. *)
LEMMA OutcomeLeft ==
    ASSUME UNCHANGED config, UNCHANGED gates, UNCHANGED trigs, OutcomeInv, FaultsInert,
           stage = "dispatch" => stage' = "dispatch"
    PROVE  OutcomeInv' /\ FaultsInert'
<1>1. \A r : Healthy(r)' = Healthy(r)
  BY HealthKept
<1>. QED BY <1>1 DEF OutcomeInv, FaultsInert, config, gates, trigs

LEMMA OutcomeKept ==
    TypeOK /\ Registry /\ HandlerInv /\ MarkInv /\ FaultInv
      /\ OutcomeInv /\ FaultsInert /\ [Next]_vars => OutcomeInv' /\ FaultsInert'
<1>. SUFFICES ASSUME TypeOK, Registry, HandlerInv, MarkInv, FaultInv, OutcomeInv, FaultsInert,
                     [Next]_vars
              PROVE  OutcomeInv' /\ FaultsInert'
  OBVIOUS
<1>1. UNCHANGED config
  BY ConfigKept
<1>2. \A r : Healthy(r)' = Healthy(r)
  BY <1>1, HealthKept
<1>3. CASE Require
  <2>1. ASSUME NEW t \in disabled' PROVE ~Healthy(triggerRoot[t])
    <3>1. t \in Triggers /\ triggerRoot[t] \in defective
      BY <1>3, <2>1 DEF Require, Registered
    <3>2. triggerRoot[t] \in Conditions
      BY <3>1 DEF TypeOK
    <3>. QED
      BY <3>1, <3>2, HealthyByParts DEF Sound
  <2>2. UNCHANGED <<gates, previous, ran>> /\ stage # "dispatch"
    BY <1>3 DEF Require
  <2>. QED BY <1>1, <1>2, <2>1, <2>2 DEF OutcomeInv, FaultsInert, config, gates
<1>4. CASE MarkDependencies \/ Marked \/ PropagateFault \/ Initialized \/ StartRun
           \/ SampleCondition \/ Sampled \/ FinishRun
  <2>1. /\ UNCHANGED gates /\ UNCHANGED trigs
        /\ stage = "dispatch" => stage' = "dispatch"
    BY <1>4 DEF MarkDependencies, Marked, PropagateFault, Initialized, StartRun,
         SampleCondition, Sampled, FinishRun
  <2>. QED BY <1>1, <2>1, OutcomeLeft
<1>5. CASE Refresh
  <2>1. initialized /\ stage' = "dispatch" /\ UNCHANGED trigs
    BY <1>5 DEF Refresh, HandlerInv
  <2>2. \A o \in Overlays : gate'[o] = IF Evaluated(o) THEN GateOf(o) ELSE gate[o]
    BY <1>5 DEF Refresh
  <2>3. ASSUME NEW o \in Overlays, gate'[o] PROVE Healthy(overlayRoot[o])
    BY <2>1, <2>2, <2>3, RootsValid DEF GateOf, Holds, FaultsInert
  <2>4. central => word' = {o \in Overlays \ Locals : gate'[o]}
    BY <1>5 DEF Refresh
  <2>. QED BY <1>1, <1>2, <2>1, <2>3, <2>4 DEF OutcomeInv, FaultsInert, config, trigs
<1>6. CASE Dispatch
  <2>1. UNCHANGED <<gate, word, trigs>> /\ (central => sent' = word)
    BY <1>6 DEF Dispatch
  <2>. QED BY <1>1, <1>2, <2>1 DEF OutcomeInv, FaultsInert, config, trigs
<1>7. CASE EvaluateTrigger
  <2>1. initialized /\ UNCHANGED gates /\ UNCHANGED stage /\ stage = "triggers"
        /\ at \in Registered /\ Registered \subseteq Triggers
    BY <1>7 DEF EvaluateTrigger, HandlerInv, Registered
  <2>2. Valid(triggerRoot[at]) = Healthy(triggerRoot[at])
    BY <2>1, RootsValid
  <2>3. CASE at \in disabled
    BY <1>1, <1>7, <2>1, <2>3, OutcomeLeft DEF EvaluateTrigger, trigs
  <2>4. CASE at \notin disabled /\ ~Valid(triggerRoot[at])
    <3>1. disabled' = disabled \cup {at} /\ UNCHANGED <<previous, ran>>
      BY <1>7, <2>4 DEF EvaluateTrigger
    <3>. QED BY <1>1, <1>2, <2>1, <2>2, <2>4, <3>1 DEF OutcomeInv, FaultsInert, config, gates
  <2>5. CASE at \notin disabled /\ Valid(triggerRoot[at]) /\ Changed(at)
    <3>1. /\ previous' = [previous EXCEPT ![at] = Holds(triggerRoot[at])]
          /\ ran' = [ran EXCEPT ![at] = IF Holds(triggerRoot[at]) THEN "enter" ELSE "exit"]
          /\ UNCHANGED disabled
      BY <1>7, <2>5 DEF EvaluateTrigger, Run
    <3>2. Holds(triggerRoot[at]) \in BOOLEAN
      BY DEF Holds, Valid, Value
    <3>3. previous'[at] = (ran'[at] = "enter")
      BY <2>1, <3>1, <3>2 DEF TypeOK
    <3>4. \A t \in Triggers : t # at => previous'[t] = previous[t] /\ ran'[t] = ran[t]
      BY <2>1, <3>1 DEF TypeOK
    <3>5. ASSUME NEW t \in Triggers PROVE previous'[t] = (ran'[t] = "enter")
      <4>1. CASE t = at
        BY <3>3, <4>1
      <4>2. CASE t # at
        <5>1. previous[t] = (ran[t] = "enter")
          BY DEF OutcomeInv
        <5>2. previous'[t] = previous[t] /\ ran'[t] = ran[t]
          BY <3>4, <4>2
        <5>. QED BY <5>1, <5>2
      <4>. QED BY <4>1, <4>2
    <3>6. \A t \in Triggers : ran'[t] # "none" => Healthy(triggerRoot[t])
      BY <2>2, <2>5, <3>4 DEF FaultsInert
    <3>7. FaultsInert'
      BY <1>1, <1>2, <2>1, <3>6 DEF FaultsInert, config, gates
    <3>8. OutcomeInv'
      <4>1. \A t \in Triggers : t \in disabled' => ~Healthy(triggerRoot[t])'
        BY <1>1, <1>2, <3>1 DEF OutcomeInv, config
      <4>2. (central => /\ word = {o \in Overlays \ Locals : gate[o]}
                        /\ stage # "dispatch" => sent = word)'
        BY <1>1, <2>1 DEF OutcomeInv, config, gates
      <4>. QED BY <3>5, <4>1, <4>2 DEF OutcomeInv
    <3>. QED BY <3>7, <3>8
  <2>6. CASE at \notin disabled /\ Valid(triggerRoot[at]) /\ ~Changed(at)
    <3>1. UNCHANGED trigs
      BY <1>7, <2>6 DEF EvaluateTrigger, trigs
    <3>. QED BY <1>1, <2>1, <3>1, OutcomeLeft
  <2>. QED BY <2>3, <2>4, <2>5, <2>6
<1>8. ASSUME NEW c \in Conditions, ChangeSource(c) \/ Invalidate(c)
      PROVE  OutcomeInv' /\ FaultsInert'
  BY <1>1, <1>8, OutcomeLeft DEF ChangeSource, Invalidate, handler
<1>9. CASE UNCHANGED vars
  BY <1>1, <1>9, OutcomeLeft DEF vars, handler
<1>. QED
  BY <1>3, <1>4, <1>5, <1>6, <1>7, <1>8, <1>9 DEF Next, Initialization, Evaluation

-----------------------------------------------------------------------------
(* Agreement with the sources *)

LEMMA SampleLocal ==
    ASSUME TypeOK, UNCHANGED <<config, live, fault, source>>, NEW c \in Conditions,
           \A d \in deps[c] : value'[d] = value[d]
    PROVE  Sample(c)' = Sample(c)
<1>1. \A d \in deps[c] : Value(d)' = Value(d)
  BY DEF Value
<1>. QED BY <1>1 DEF Sample, config, TypeOK

LEMMA SampledKept ==
    ASSUME TypeOK, Registry, UNCHANGED <<config, entries, source>>
    PROVE  \A n : SampledUpTo(n)' = SampledUpTo(n)
<1>1. \A c \in Conditions : Sample(c)' = Sample(c)
  BY SampleLocal DEF entries
<1>. QED BY <1>1 DEF SampledUpTo, entries, TypeOK

LEMMA HoldsKept ==
    ASSUME UNCHANGED <<config, entries>>
    PROVE  /\ \A r : Holds(r)' = Holds(r)
           /\ \A o \in Overlays : Evaluated(o)' = Evaluated(o)
BY DEF Holds, Valid, Value, Evaluated, config, entries

LEMMA CoherentKept ==
    TypeOK /\ Registry /\ HandlerInv /\ CoherentInv /\ [Next]_vars => CoherentInv'
<1>. SUFFICES ASSUME TypeOK, Registry, HandlerInv, CoherentInv, [Next]_vars,
                     initialized', ~pending', owing' = {}
              PROVE  Coherent'
  BY DEF CoherentInv
<1>1. UNCHANGED config /\ Registered' = Registered
  BY ConfigKept, HealthKept
<1>2. CASE Require \/ MarkDependencies \/ Marked \/ PropagateFault
  BY <1>2 DEF Require, MarkDependencies, Marked, PropagateFault, HandlerInv
<1>3. CASE Initialized \/ StartRun
  <2>1. stage' = "sample" /\ at' = 1 /\ live' = live
    BY <1>3 DEF Initialized, StartRun, entries
  <2>2. \A c \in live : ~(c < 1)
    BY DEF TypeOK, Conditions
  <2>. QED BY <2>1, <2>2 DEF Coherent, SampledUpTo
<1>4. CASE SampleCondition
  <2>1. /\ stage = "sample" /\ stage' = "sample" /\ at' = at + 1
        /\ UNCHANGED <<config, live, fault, source>> /\ at > 0
        /\ SampledUpTo(at)
    BY <1>4 DEF SampleCondition, HandlerInv, CoherentInv, Coherent
  <2>2. at \in Conditions
    BY <1>4, <2>1, ConditionsAssumption DEF SampleCondition, TypeOK, Conditions
  <2>3. ASSUME NEW c \in Conditions, c # at PROVE value'[c] = value[c]
    BY <1>4, <2>3 DEF SampleCondition, TypeOK
  <2>4. ASSUME NEW c \in live' \ fault', c < at + 1 PROVE value'[c] = Sample(c)'
    <3>1. c \in Conditions /\ c \in live \ fault
      BY <2>1 DEF TypeOK
    <3>2. \A d \in deps[c] : d \in Conditions /\ d < c
      BY <3>1 DEF Registry, TypeOK
    <3>3. c < at \/ c = at
      BY <2>2, <2>4, <3>1 DEF Conditions
    <3>4. \A d \in deps[c] : d # at
      BY <2>2, <3>1, <3>2, <3>3, ConditionsAssumption DEF Conditions
    <3>5. Sample(c)' = Sample(c)
      BY <2>1, <2>3, <3>1, <3>2, <3>4, SampleLocal
    <3>6. CASE c < at
      <4>1. value[c] = Sample(c)
        BY <2>1, <3>1, <3>6 DEF SampledUpTo
      <4>2. c # at
        BY <2>2, <3>1, <3>6 DEF Conditions
      <4>. QED BY <2>3, <3>1, <3>5, <4>1, <4>2
    <3>7. CASE c = at
      <4>1. value' = [value EXCEPT ![at] = Sample(at)]
        BY <1>4, <3>1, <3>7 DEF SampleCondition
      <4>. QED BY <2>2, <3>5, <3>7, <4>1 DEF TypeOK
    <3>. QED BY <3>3, <3>6, <3>7
  <2>. QED BY <2>1, <2>4 DEF Coherent, SampledUpTo
<1>5. CASE Sampled
  <2>1. /\ stage = "sample" /\ stage' = "refresh" /\ at > NumConditions
        /\ UNCHANGED <<config, entries, source>>
        /\ SampledUpTo(at)
    BY <1>5 DEF Sampled, CoherentInv, Coherent
  <2>2. \A c \in live : c < at /\ c < NumConditions + 1
    BY <2>1, ConditionsAssumption DEF TypeOK, Conditions
  <2>3. SampledUpTo(NumConditions + 1)
    BY <2>1, <2>2 DEF SampledUpTo
  <2>4. SampledUpTo(NumConditions + 1)'
    BY <2>1, <2>3, SampledKept
  <2>. QED BY <2>1, <2>4 DEF Coherent
<1>6. CASE Refresh
  <2>1. /\ stage = "refresh" /\ stage' = "dispatch"
        /\ UNCHANGED <<config, entries, source>>
        /\ gate' = [o \in Overlays |-> IF Evaluated(o) THEN GateOf(o) ELSE gate[o]]
        /\ SampledUpTo(NumConditions + 1)
    BY <1>6 DEF Refresh, CoherentInv, Coherent
  <2>2. SampledUpTo(NumConditions + 1)'
    BY <2>1, SampledKept
  <2>3. ASSUME NEW o \in Overlays, Evaluated(o)' PROVE gate'[o] = Holds(overlayRoot[o])'
    BY <2>1, <2>3, HoldsKept DEF GateOf, config
  <2>. QED BY <2>1, <2>2, <2>3 DEF Coherent
<1>7. CASE Dispatch \/ EvaluateTrigger \/ FinishRun
  <2>1. /\ stage \in {"dispatch", "triggers"} /\ stage' \in {"triggers", "idle"}
        /\ UNCHANGED <<config, entries>> /\ gate' = gate
        /\ source' = source /\ pending' = pending /\ owing' = owing
    BY <1>7 DEF Dispatch, EvaluateTrigger, FinishRun, Run, gates
  <2>2. Coherent /\ SampledUpTo(NumConditions + 1)
    BY <2>1 DEF CoherentInv, Coherent, HandlerInv
  <2>3. SampledUpTo(NumConditions + 1)'
    BY <2>1, <2>2, SampledKept
  <2>4. ASSUME NEW o \in Overlays, Evaluated(o)' PROVE gate'[o] = Holds(overlayRoot[o])'
    BY <2>1, <2>2, <2>4, HoldsKept DEF Coherent, config
  <2>5. \A t \in Triggers : Holds(triggerRoot[t])' = Holds(triggerRoot[t])
    BY <2>1, HoldsKept DEF config
  <2>6. (stage = "triggers" => TriggeredUpTo(at))'
    <3>1. CASE Dispatch
      <4>1. at' = 1 /\ \A t \in Triggers : ~(t < 1)
        BY <3>1 DEF Dispatch, Triggers
      <4>. QED BY <4>1 DEF TriggeredUpTo, Registered
    <3>2. CASE EvaluateTrigger
      <4>1. /\ at \in Registered /\ Registered \subseteq Triggers /\ at' = at + 1
            /\ TriggeredUpTo(at)
        BY <2>2, <3>2 DEF EvaluateTrigger, Registered, Coherent
      <4>2. ASSUME NEW t \in Registered, t \notin disabled', t < at + 1
            PROVE  previous'[t] = Holds(triggerRoot[t])
        <5>1. t < at \/ t = at
          BY <4>1, <4>2 DEF Registered, Triggers
        <5>2. t \notin disabled
          BY <3>2, <4>2 DEF EvaluateTrigger
        <5>3. CASE t = at
          BY <3>2, <4>1, <4>2, <5>2, <5>3 DEF EvaluateTrigger, Changed, TypeOK
        <5>4. CASE t < at
          <6>1. previous[t] = Holds(triggerRoot[t])
            BY <4>1, <4>2, <5>2, <5>4 DEF TriggeredUpTo
          <6>2. t # at
            BY <4>1, <5>4 DEF Triggers
          <6>3. previous'[t] = previous[t]
            BY <3>2, <4>1, <6>2 DEF EvaluateTrigger, TypeOK
          <6>. QED BY <6>1, <6>3
        <5>. QED BY <5>1, <5>3, <5>4
      <4>. QED BY <1>1, <2>5, <4>1, <4>2 DEF TriggeredUpTo
    <3>3. CASE FinishRun
      BY <3>3 DEF FinishRun
    <3>. QED BY <1>7, <3>1, <3>2, <3>3
  <2>7. (stage = "idle" => TriggeredUpTo(NumTriggers + 1))'
    <3>1. CASE Dispatch \/ EvaluateTrigger
      BY <2>1, <3>1 DEF Dispatch, EvaluateTrigger, handler
    <3>2. CASE FinishRun
      <4>1. /\ TriggeredUpTo(at) /\ UNCHANGED trigs /\ at \notin Registered /\ at > 0
        BY <2>2, <3>2 DEF FinishRun, Coherent, HandlerInv
      <4>2. ASSUME NEW t \in Registered PROVE t \in Triggers /\ t < at
        <5>1. t \in Triggers /\ at \notin Triggers
          BY <4>1 DEF Registered
        <5>. QED BY <4>1, <5>1, ConditionsAssumption DEF Triggers, TypeOK
      <4>3. ASSUME NEW t \in Registered, t \notin disabled
            PROVE  previous[t] = Holds(triggerRoot[t])
        BY <4>1, <4>2, <4>3 DEF TriggeredUpTo
      <4>. QED BY <1>1, <2>5, <4>1, <4>2, <4>3 DEF TriggeredUpTo, trigs
    <3>. QED BY <1>7, <3>1, <3>2
  <2>. QED BY <2>1, <2>3, <2>4, <2>6, <2>7 DEF Coherent
<1>8. ASSUME NEW c \in Conditions, ChangeSource(c) \/ Invalidate(c) PROVE FALSE
  BY <1>8 DEF ChangeSource, Invalidate
<1>9. CASE UNCHANGED vars
  <2>1. /\ UNCHANGED <<config, entries, source>> /\ UNCHANGED <<gates, trigs>>
        /\ UNCHANGED <<handler, pending, owing>>
    BY <1>9 DEF vars
  <2>2. Coherent
    BY <2>1 DEF CoherentInv, handler
  <2>3. /\ \A n : SampledUpTo(n)' = SampledUpTo(n)
        /\ \A r : Holds(r)' = Holds(r)
        /\ \A o \in Overlays : Evaluated(o)' = Evaluated(o)
    BY <2>1, SampledKept, HoldsKept
  <2>4. \A n : TriggeredUpTo(n)' = TriggeredUpTo(n)
    BY <1>1, <2>1, <2>3 DEF TriggeredUpTo, trigs, config
  <2>. QED BY <1>1, <2>1, <2>2, <2>3, <2>4 DEF Coherent, handler, gates, config
<1>. QED
  BY <1>2, <1>3, <1>4, <1>5, <1>6, <1>7, <1>8, <1>9 DEF Next, Initialization, Evaluation

(* Sampling every condition after those it depends on gives each healthy   *)
(* one its meaning.                                                        *)
LEMMA HealthySampled ==
    ASSUME TypeOK, Registry, MarkInv, FaultInv, initialized, SampledUpTo(NumConditions + 1)
    PROVE  \A c \in live : Healthy(c) => value[c] = Truth[c]
<1>. DEFINE S == {n \in Nat : n \in live /\ Healthy(n) => value[n] = Truth[n]}
<1>0. live \subseteq Conditions /\ Conditions \subseteq Nat
  BY DEF TypeOK, Conditions
<1>1. ASSUME NEW n \in Nat, \A m \in Nat : m < n => m \in S PROVE n \in S
  <2>. SUFFICES ASSUME n \in live, Healthy(n) PROVE value[n] = Truth[n]
    OBVIOUS
  <2>1. n \in Conditions /\ n \notin fault /\ n < NumConditions + 1
    BY <1>0, ConditionsAssumption DEF FaultInv, Conditions
  <2>2. Sound(n) /\ \A d \in deps[n] : Healthy(d)
    BY <2>1, HealthyByParts
  <2>3. ASSUME NEW d \in deps[n] PROVE d \in live /\ d \notin fault /\ value[d] = Truth[d]
    <3>1. d \in live /\ d \in Nat /\ d < n
      BY <1>0, <2>1, <2>2 DEF MarkInv, Registry
    <3>2. d \notin fault
      BY <2>2, <3>1 DEF FaultInv
    <3>3. d \in S
      <4>. HIDE DEF S
      <4>. QED BY <1>1, <3>1
    <3>. QED BY <2>2, <3>1, <3>2, <3>3
  <2>4. value[n] = Sample(n)
    BY <2>1 DEF SampledUpTo
  <2>5. \A d \in deps[n] : Value(d) = value[d]
    <3>1. \A d \in deps[n] : d \in Conditions /\ value[d] \in BOOLEAN
      BY <1>0, <2>3 DEF TypeOK
    <3>. QED BY <2>3, <3>1 DEF Value
  <2>6. Sample(n) = Meaning(value, n)
    BY <2>1, <2>5 DEF Sample, Meaning, TypeOK
  <2>7. Meaning(value, n) = Meaning(Truth, n)
    BY <2>1, <2>3, MeaningLocal
  <2>8. Truth[n] = Meaning(Truth, n)
    <3>1. Truth = [c \in Conditions |-> Meaning(Truth, c)]
      BY TruthDefined
    <3>2. [c \in Conditions |-> Meaning(Truth, c)][n] = Meaning(Truth, n)
      BY <2>1
    <3>. QED BY <3>1, <3>2
  <2>. QED BY <2>4, <2>6, <2>7, <2>8
<1>2. \A n \in Nat : n \in S
  <2>. HIDE DEF S
  <2>. QED BY <1>1, AllNumbers
<1>. QED BY <1>0, <1>2

LEMMA HoldsAsMeant ==
    ASSUME TypeOK, Registry, MarkInv, FaultInv, initialized, SampledUpTo(NumConditions + 1)
    PROVE  /\ \A o \in Overlays : Evaluated(o) => Holds(overlayRoot[o]) = Meant(overlayRoot[o])
           /\ \A t \in Registered : Holds(triggerRoot[t]) = Meant(triggerRoot[t])
<1>1. Holds(Always) = Meant(Always)
  BY DEF Holds, Valid, Meant, Healthy
<1>2. ASSUME NEW r \in EvaluatedRoots PROVE Holds(r) = Meant(r)
  <2>1. r \in live /\ r \in Conditions /\ r # Always
    <3>1. r \in live
      BY DEF MarkInv
    <3>2. r \in Conditions
      BY <3>1 DEF TypeOK
    <3>. QED BY <3>1, <3>2, ConditionsAssumption DEF Conditions, Always
  <2>2. (Valid(r) <=> Healthy(r)) /\ (Valid(r) <=> r \notin fault)
    BY <2>1, ValidExactly DEF Valid
  <2>3. Holds(r) <=> Healthy(r) /\ value[r]
    BY <2>1, <2>2 DEF Holds, Value
  <2>4. Healthy(r) => value[r] = Truth[r]
    BY <2>1, HealthySampled
  <2>5. Meant(r) <=> Healthy(r) /\ Truth[r]
    BY <2>1 DEF Meant
  <2>6. Holds(r) \in BOOLEAN /\ Meant(r) \in BOOLEAN
    BY DEF Holds, Meant, Valid, Value, Healthy
  <2>. QED BY <2>3, <2>4, <2>5, <2>6
<1>3. ASSUME NEW o \in Overlays, Evaluated(o), overlayRoot[o] # Always
      PROVE  overlayRoot[o] \in EvaluatedRoots
  BY <1>3 DEF EvaluatedRoots
<1>4. ASSUME NEW t \in Registered, triggerRoot[t] # Always
      PROVE  triggerRoot[t] \in EvaluatedRoots
  BY <1>4 DEF EvaluatedRoots
<1>. QED BY <1>1, <1>2, <1>3, <1>4

LEMMA SettledByParts ==
    TypeOK /\ Registry /\ HandlerInv /\ MarkInv /\ FaultInv /\ OutcomeInv /\ FaultsInert
      /\ CoherentInv => ControlSettled
<1>. SUFFICES ASSUME TypeOK, Registry, HandlerInv, MarkInv, FaultInv, OutcomeInv, FaultsInert,
                     CoherentInv, stage = "idle", ~pending, owing = {}
              PROVE  /\ \A o \in Overlays : Evaluated(o) => gate[o] = Meant(overlayRoot[o])
                     /\ central => sent = {o \in Overlays \ Locals : Meant(overlayRoot[o])}
                     /\ \A t \in Registered : (ran[t] = "enter") = Meant(triggerRoot[t])
  BY DEF ControlSettled
<1>1. initialized /\ Coherent
  BY DEF HandlerInv, CoherentInv
<1>2. SampledUpTo(NumConditions + 1) /\ TriggeredUpTo(NumTriggers + 1)
  BY <1>1 DEF Coherent
<1>3. \A o \in Overlays : Evaluated(o) => gate[o] = Meant(overlayRoot[o])
  BY <1>1, <1>2, HoldsAsMeant DEF Coherent
<1>4. central => sent = {o \in Overlays \ Locals : Meant(overlayRoot[o])}
  <2>. SUFFICES ASSUME central PROVE sent = {o \in Overlays \ Locals : gate[o]}
    BY <1>3 DEF Evaluated
  <2>. QED BY DEF OutcomeInv
<1>5. ASSUME NEW t \in Registered PROVE (ran[t] = "enter") = Meant(triggerRoot[t])
  <2>1. t \in Triggers /\ t < NumTriggers + 1
    BY ConditionsAssumption DEF Registered, Triggers
  <2>2. CASE t \in disabled
    <3>1. ~Healthy(triggerRoot[t]) /\ ran[t] = "none"
      BY <2>1, <2>2 DEF OutcomeInv, FaultsInert
    <3>. QED BY <3>1 DEF Meant
  <2>3. CASE t \notin disabled
    <3>1. previous[t] = Holds(triggerRoot[t])
      BY <1>2, <2>1, <2>3 DEF TriggeredUpTo
    <3>2. previous[t] = (ran[t] = "enter")
      BY <2>1, Zenon DEF OutcomeInv
    <3>3. Holds(triggerRoot[t]) = Meant(triggerRoot[t])
      BY <1>1, <1>2, HoldsAsMeant
    <3>. QED BY <3>1, <3>2, <3>3
  <2>. QED BY <2>2, <2>3
<1>. QED BY <1>3, <1>4, <1>5

-----------------------------------------------------------------------------
LEMMA InitOutcome ==
    Init => HandlerInv /\ MarkInv /\ FaultInv /\ OutcomeInv /\ FaultsInert /\ CoherentInv
<1>. SUFFICES ASSUME Init
              PROVE  HandlerInv /\ MarkInv /\ FaultInv /\ OutcomeInv /\ FaultsInert /\ CoherentInv
  OBVIOUS
<1>1. stage = "idle" /\ ~initialized /\ pending
  BY DEF Init
<1>2. HandlerInv /\ MarkInv /\ FaultInv /\ CoherentInv
  BY <1>1 DEF HandlerInv, MarkInv, FaultInv, CoherentInv
<1>3. OutcomeInv /\ FaultsInert
  BY DEF Init, OutcomeInv, FaultsInert
<1>. QED BY <1>2, <1>3

(* A root is valid exactly if all it depends on is sound and in scope, and *)
(* an overlay or a trigger of which it is not so never does anything.      *)
THEOREM OnlyHealthyAct == Spec => []FaultsExcluded
<1>. DEFINE Inv == /\ TypeOK /\ Registry /\ HandlerInv /\ MarkInv /\ FaultInv
                   /\ OutcomeInv /\ FaultsInert
<1>1. Init => Inv
  BY InitTypes, InitRegistry, InitOutcome
<1>2. Inv /\ [Next]_vars => Inv'
  BY StepTypes, ConfigKept, RegistryKept, HandlerKept, MarkKept, FaultKept, OutcomeKept
<1>3. Inv => FaultsExcluded
  BY InitializationIsExact DEF FaultsExcluded
<1>. QED BY <1>1, <1>2, <1>3, PTL DEF Spec

(* Once no invalidation is left, gates, their dispatch and the triggers    *)
(* agree with what the present sources mean.                               *)
THEOREM ControlSettlesRight == Spec => []ControlSettled
<1>. DEFINE Inv == /\ TypeOK /\ Registry /\ HandlerInv /\ MarkInv /\ FaultInv
                   /\ OutcomeInv /\ FaultsInert /\ CoherentInv
<1>1. Init => Inv
  BY InitTypes, InitRegistry, InitOutcome
<1>2. Inv /\ [Next]_vars => Inv'
  BY StepTypes, ConfigKept, RegistryKept, HandlerKept, MarkKept, FaultKept, OutcomeKept,
     CoherentKept
<1>3. Inv => ControlSettled
  BY SettledByParts
<1>. QED BY <1>1, <1>2, <1>3, PTL DEF Spec

=============================================================================
