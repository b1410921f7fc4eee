----------------------------- MODULE Conditions -----------------------------
(***************************************************************************)
(* Control evaluation: conditions (src/rgb_conditions.c, and the           *)
(* combinators of src/conditions/), overlay gates and their dispatch to    *)
(* peripherals (src/rgb_overlay_state.c), triggers (src/rgb_triggers.c).   *)
(*                                                                         *)
(* Conditions are registered in dependency order, numbered here.  The      *)
(* evaluation runs on the RGB work queue, with no lock held but for the    *)
(* publication of gates; other threads change sources and invalidate at    *)
(* any step of it.  The epochs by which the coordinator tells a stale      *)
(* evaluation are in Coordinator: here an invalidation leads to another.   *)
(***************************************************************************)
EXTENDS Naturals

CONSTANTS
    NumConditions, NumOverlays, NumTriggers,
    Sides,       \* whether this half may be the central (or only) one
    Defects,     \* sets of conditions that may have an invalid provider
    Scopes,      \* sets of sources that may only exist on the central
    Locals,      \* overlays evaluated on the half they are shown on
    Busy         \* whether sources change while the system runs

Conditions == 1..NumConditions
Overlays == 1..NumOverlays
Triggers == 1..NumTriggers
Always == 0      \* an overlay or trigger without a condition
Roots == Conditions \cup {Always}

ASSUME ConditionsAssumption == NumConditions \in Nat /\ NumOverlays \in Nat /\ NumTriggers \in Nat
ASSUME ConfigAssumption ==
    /\ Defects \subseteq SUBSET Conditions /\ Scopes \subseteq SUBSET Conditions
    /\ Locals \subseteq Overlays /\ Sides \subseteq BOOLEAN /\ Busy \in BOOLEAN

VARIABLES
    \* the configuration, from the devicetree
    central, deps, kind, defective, centralOnly, overlayRoot, triggerRoot,
    \* registrations
    live, fault, value,
    \* what sources would return if sampled; changes not yet invalidated
    source, owing,
    \* the handler: CONTROL requested, initialized, what it does next
    pending, initialized, stage, at,
    \* gates, the central's word of them, the last word dispatched
    gate, word, sent,
    \* triggers; ran is history, the last of a trigger's lists that ran
    disabled, previous, ran

config == <<central, deps, kind, defective, centralOnly, overlayRoot, triggerRoot>>
entries == <<live, fault, value>>
handler == <<initialized, stage, at>>
gates == <<gate, word, sent>>
trigs == <<disabled, previous, ran>>
vars == <<config, entries, source, owing, pending, handler, gates, trigs>>

Stages == {"idle", "mark", "propagate", "sample", "refresh", "dispatch", "triggers"}

TypeOK ==
    /\ central \in Sides
    /\ deps \in [Conditions -> SUBSET Conditions]
    /\ kind \in [Conditions -> {"source", "and", "or"}]
    /\ defective \subseteq Conditions /\ centralOnly \subseteq Conditions
    /\ overlayRoot \in [Overlays -> Roots] /\ triggerRoot \in [Triggers -> Roots]
    /\ live \subseteq Conditions /\ fault \subseteq Conditions
    /\ value \in [Conditions -> BOOLEAN]
    /\ source \in [Conditions -> BOOLEAN] /\ owing \subseteq Conditions
    /\ pending \in BOOLEAN /\ initialized \in BOOLEAN /\ stage \in Stages
    /\ at \in 0..(NumConditions + NumTriggers + 1)
    /\ gate \in [Overlays -> BOOLEAN] /\ word \subseteq Overlays /\ sent \subseteq Overlays
    /\ disabled \subseteq Triggers /\ previous \in [Triggers -> BOOLEAN]
    /\ ran \in [Triggers -> {"none", "enter", "exit"}]

(* Combinators have dependencies, which are registered before them.        *)
Init ==
    /\ central \in Sides
    /\ deps \in [Conditions -> SUBSET Conditions]
    /\ \A c \in Conditions : \A d \in deps[c] : d < c
    /\ kind \in [Conditions -> {"source", "and", "or"}]
    /\ \A c \in Conditions : (kind[c] = "source") = (deps[c] = {})
    /\ defective \in Defects /\ centralOnly \in Scopes
    /\ \A c \in centralOnly : kind[c] = "source"
    /\ central => centralOnly = {}     \* where it makes no difference
    /\ overlayRoot \in [Overlays -> Roots] /\ triggerRoot \in [Triggers -> Roots]
    /\ ~central => triggerRoot = [t \in Triggers |-> Always]
    /\ live = {} /\ fault = {} /\ value = [c \in Conditions |-> FALSE]
    /\ source \in [Conditions -> BOOLEAN] /\ owing = {}
    /\ \A c \in Conditions : kind[c] # "source" => ~source[c]
    /\ pending = TRUE /\ initialized = FALSE /\ stage = "idle" /\ at = 0
    /\ gate = [o \in Overlays |-> FALSE] /\ word = {} /\ sent = {}
    /\ disabled = {} /\ previous = [t \in Triggers |-> FALSE]
    /\ ran = [t \in Triggers |-> "none"]

-----------------------------------------------------------------------------
(* kp_rgb_condition_valid() and _value(), once initialized *)
Valid(c) == c = Always \/ (c \in live /\ c \notin fault)
Value(c) == c \in live /\ c \notin fault /\ value[c]
Holds(root) == Valid(root) /\ (root = Always \/ Value(root))

(* initialize_conditions() *)

(* A peripheral evaluates local overlays only, and has no triggers. *)
Registered == IF central THEN Triggers ELSE {}
Evaluated(o) == o \in Locals \/ central
EvaluatedRoots ==
    ({overlayRoot[o] : o \in {p \in Overlays : Evaluated(p)}}
     \cup {triggerRoot[t] : t \in Registered}) \ {Always}

(* Providers are checked, then the roots required: triggers whose root is  *)
(* already at fault are disabled.                                          *)
Require ==
    /\ stage = "idle" /\ pending /\ ~initialized
    /\ pending' = FALSE
    /\ fault' = defective
    /\ live' = EvaluatedRoots
    /\ disabled' = {t \in Registered : triggerRoot[t] \in defective}
    /\ stage' = "mark" /\ at' = NumConditions
    /\ UNCHANGED <<config, value, source, owing, initialized, gates, previous, ran>>

DependenciesBug(c) == {d \in deps[c] : \A e \in deps[c] : e <= d}
Dependencies(c) == deps[c]

(* From the last registration to the first, what a live one depends on is  *)
(* live, unless it is itself at fault.                                     *)
MarkDependencies ==
    /\ stage = "mark" /\ at > 0
    /\ IF at \notin live \/ at \in fault THEN UNCHANGED <<live, fault>>
       ELSE IF at \in centralOnly /\ ~central
            THEN fault' = fault \cup {at} /\ UNCHANGED live
            ELSE live' = live \cup Dependencies(at) /\ UNCHANGED fault
    /\ at' = at - 1
    /\ UNCHANGED <<config, value, source, owing, pending, initialized, stage, gates, trigs>>

Marked ==
    /\ stage = "mark" /\ at = 0
    /\ stage' = "propagate" /\ at' = 1
    /\ UNCHANGED <<config, entries, source, owing, pending, initialized, gates, trigs>>

(* From the first to the last, a live one with a dependency at fault is.   *)
Faulted(c) == c \in live /\ \E d \in deps[c] : d \in fault

PropagateFault ==
    /\ stage = "propagate" /\ at <= NumConditions
    /\ fault' = IF Faulted(at) THEN fault \cup {at} ELSE fault
    /\ at' = at + 1
    /\ UNCHANGED <<config, live, value, source, owing, pending, initialized, stage, gates, trigs>>

Initialized ==
    /\ stage = "propagate" /\ at > NumConditions
    /\ initialized' = TRUE
    /\ stage' = "sample" /\ at' = 1
    /\ UNCHANGED <<config, entries, source, owing, pending, gates, trigs>>

-----------------------------------------------------------------------------
(* kp_rgb_conditions_run() *)
StartRun ==
    /\ stage = "idle" /\ pending /\ initialized
    /\ pending' = FALSE
    /\ stage' = "sample" /\ at' = 1
    /\ UNCHANGED <<config, entries, source, owing, initialized, gates, trigs>>

(* The sample callbacks: a source is read, combinators use what was        *)
(* sampled before them in the same run.                                    *)
Sample(c) ==
    CASE kind[c] = "source" -> source[c]
      [] kind[c] = "and" -> \A d \in deps[c] : Value(d)
      [] kind[c] = "or" -> \E d \in deps[c] : Value(d)

SampleCondition ==
    /\ stage = "sample" /\ at <= NumConditions
    /\ value' = IF at \in live /\ at \notin fault
                THEN [value EXCEPT ![at] = Sample(at)] ELSE value
    /\ at' = at + 1
    /\ UNCHANGED <<config, live, fault, source, owing, pending, initialized, stage, gates, trigs>>

Sampled ==
    /\ stage = "sample" /\ at > NumConditions
    /\ stage' = "refresh" /\ at' = 0
    /\ UNCHANGED <<config, entries, source, owing, pending, initialized, gates, trigs>>

(* kp_rgb_overlay_refresh(): a peripheral leaves the word it received. *)
GateOf(o) == Holds(overlayRoot[o])

Refresh ==
    /\ stage = "refresh"
    /\ gate' = [o \in Overlays |-> IF Evaluated(o) THEN GateOf(o) ELSE gate[o]]
    /\ word' = IF central THEN {o \in Overlays \ Locals : gate'[o]} ELSE word
    /\ stage' = "dispatch"
    /\ UNCHANGED <<config, entries, source, owing, pending, initialized, at, sent, trigs>>

(* kp_rgb_overlay_dispatch() sends a word that differs from the last sent. *)
Dispatch ==
    /\ stage = "dispatch"
    /\ sent' = IF central THEN word ELSE sent
    /\ stage' = "triggers" /\ at' = 1
    /\ UNCHANGED <<config, entries, source, owing, pending, initialized, gate, word, trigs>>

(* kp_rgb_triggers_evaluate(): on a change of its condition a trigger runs *)
(* one of its lists, whose behaviors may set a latch and invalidate.       *)
Latches == {c \in Conditions : kind[c] = "source"}
Run(t, list) ==
    /\ ran' = [ran EXCEPT ![t] = list]
    /\ \/ UNCHANGED <<source, pending>>
       \/ Busy /\ \E c \in Latches : /\ source' = [source EXCEPT ![c] = ~@]
                                     /\ pending' = TRUE

ChangedBug(t) == Holds(triggerRoot[t])
Changed(t) == Holds(triggerRoot[t]) # previous[t]

EvaluateTrigger ==
    /\ stage = "triggers" /\ at \in Registered
    /\ at' = at + 1
    /\ IF at \in disabled
       THEN UNCHANGED <<disabled, previous, ran, source, pending>>
       ELSE IF ~Valid(triggerRoot[at])
       THEN disabled' = disabled \cup {at} /\ UNCHANGED <<previous, ran, source, pending>>
       ELSE IF Changed(at)
       THEN /\ previous' = [previous EXCEPT ![at] = Holds(triggerRoot[at])]
            /\ Run(at, IF Holds(triggerRoot[at]) THEN "enter" ELSE "exit")
            /\ UNCHANGED disabled
       ELSE UNCHANGED <<disabled, previous, ran, source, pending>>
    /\ UNCHANGED <<config, entries, owing, initialized, stage, gates>>

FinishRun ==
    /\ stage = "triggers" /\ at \notin Registered
    /\ stage' = "idle" /\ at' = 0
    /\ UNCHANGED <<config, entries, source, owing, pending, initialized, gates, trigs>>

-----------------------------------------------------------------------------
(* Other threads: a source changes, then its owner invalidates. *)
ChangeSource(c) ==
    /\ Busy /\ kind[c] = "source"
    /\ source' = [source EXCEPT ![c] = ~@]
    /\ owing' = owing \cup {c}
    /\ UNCHANGED <<config, entries, pending, handler, gates, trigs>>

Invalidate(c) ==
    /\ c \in owing
    /\ owing' = owing \ {c}
    /\ pending' = TRUE
    /\ UNCHANGED <<config, entries, source, handler, gates, trigs>>

Initialization == Require \/ MarkDependencies \/ Marked \/ PropagateFault \/ Initialized
Evaluation == StartRun \/ SampleCondition \/ Sampled \/ Refresh \/ Dispatch
              \/ EvaluateTrigger \/ FinishRun

Next == Initialization \/ Evaluation
        \/ \E c \in Conditions : ChangeSource(c) \/ Invalidate(c)

Spec == Init /\ [][Next]_vars

-----------------------------------------------------------------------------
(* Properties *)

(* What a condition depends on, directly or not, and itself *)
Below(c) == {d \in Conditions : \A S \in SUBSET Conditions :
                (c \in S /\ \A s \in S : deps[s] \subseteq S) => d \in S}

Sound(c) == c \notin defective /\ (c \in centralOnly => central)
Healthy(root) == root = Always \/ \A d \in Below(root) : Sound(d)

(* What a condition is, from the present sources *)
Truth[c \in Conditions] ==
    IF kind[c] = "source" THEN source[c]
    ELSE IF kind[c] = "and" THEN \A d \in deps[c] : Truth[d]
    ELSE \E d \in deps[c] : Truth[d]
Meant(root) == Healthy(root) /\ (root = Always \/ Truth[root])

(* Initialization finds each root valid exactly if everything it depends   *)
(* on has a sound provider that exists on this half, and leaves none of    *)
(* what such a root depends on unsampled.                                  *)
InitializationExact ==
    initialized => \A r \in EvaluatedRoots :
        /\ Valid(r) = Healthy(r)
        /\ Healthy(r) => \A d \in Below(r) : Valid(d)

(* An overlay or a trigger with a faulty condition never does anything. *)
FaultsInert ==
    /\ \A o \in Overlays : gate[o] => Healthy(overlayRoot[o])
    /\ \A t \in Triggers : ran[t] # "none" => Healthy(triggerRoot[t])
FaultsExcluded == InitializationExact /\ FaultsInert

(* When no invalidation is left, gates, what was dispatched of them, and   *)
(* the last actions of the triggers are those the present sources ask for. *)
ControlSettled ==
    stage = "idle" /\ ~pending /\ owing = {} =>
        /\ \A o \in Overlays : Evaluated(o) => gate[o] = Meant(overlayRoot[o])
        /\ central => sent = {o \in Overlays \ Locals : Meant(overlayRoot[o])}
        /\ \A t \in Registered : (ran[t] = "enter") = Meant(triggerRoot[t])

(* Why these hold.  The configuration has no cycle, and where the handler   *)
(* is tells whether initialization is over.                                *)
Registry ==
    /\ \A c \in Conditions : /\ \A d \in deps[c] : d < c
                             /\ (kind[c] = "source") = (deps[c] = {})
    /\ ~central => \A t \in Triggers : triggerRoot[t] = Always
HandlerInv ==
    /\ stage \in {"mark", "propagate"} => ~initialized
    /\ stage \in {"sample", "refresh", "dispatch", "triggers"} => initialized
    /\ stage = "idle" => initialized \/ pending
    /\ stage = "mark" => at <= NumConditions
    /\ stage \in {"propagate", "sample", "triggers"} => at > 0

(* Marking has settled what is live, and at fault by itself, of everything *)
(* above its place; propagation, what is at fault, of everything below.    *)
InScope(c) == c \in centralOnly => central
MarkInv ==
    /\ stage = "mark" =>
          /\ EvaluatedRoots \subseteq live
          /\ fault = defective \cup {c \in live : c > at /\ ~InScope(c)}
          /\ \A c \in live : c > at /\ Sound(c) => deps[c] \subseteq live
    /\ stage = "propagate" \/ initialized =>
          /\ EvaluatedRoots \subseteq live
          /\ \A c \in live : Sound(c) => deps[c] \subseteq live
FaultInv ==
    /\ stage = "propagate" => \A c \in live :
          (c \in fault) = (IF c < at THEN ~Healthy(c) ELSE ~Sound(c))
    /\ initialized => \A c \in live : (c \in fault) = ~Healthy(c)

(* What a trigger last ran is its previous value, and only a trigger with  *)
(* a fault is disabled; what was sent is the word but for a dispatch.      *)
OutcomeInv ==
    /\ \A t \in Triggers : /\ previous[t] = (ran[t] = "enter")
                           /\ t \in disabled => ~Healthy(triggerRoot[t])
    /\ central => /\ word = {o \in Overlays \ Locals : gate[o]}
                  /\ stage # "dispatch" => sent = word

(* Unless an evaluation is owed, sources have stayed as they are since the *)
(* run began: what it has done so far agrees with them.                    *)
SampledUpTo(n) == \A c \in live \ fault : c < n => value[c] = Sample(c)
TriggeredUpTo(n) == \A t \in Registered \ disabled :
                       t < n => previous[t] = Holds(triggerRoot[t])
Coherent ==
    /\ stage = "sample" => SampledUpTo(at)
    /\ stage # "sample" => SampledUpTo(NumConditions + 1)
    /\ stage \notin {"sample", "refresh"} =>
          \A o \in Overlays : Evaluated(o) => gate[o] = Holds(overlayRoot[o])
    /\ stage = "triggers" => TriggeredUpTo(at)
    /\ stage = "idle" => TriggeredUpTo(NumTriggers + 1)
CoherentInv == initialized /\ ~pending /\ owing = {} => Coherent

=============================================================================
