----------------------------- MODULE Preference -----------------------------
(***************************************************************************)
(* Endpoint conditions (src/conditions/endpoint.c) depend on ZMK's         *)
(* preferred transport, of whose changes no event tells.  They are made by *)
(* keys: each key event has the preference looked at some time later, and  *)
(* conditions evaluated again if it is not the one last observed.          *)
(*                                                                         *)
(* The look and the evaluation of conditions run on the RGB work queue,    *)
(* one at a time; an evaluation samples one condition after the other,     *)
(* while keys and transports go on.                                        *)
(***************************************************************************)
EXTENDS Naturals

CONSTANTS
    Transports,     \* what may be preferred
    NumConditions   \* endpoint conditions that use the preference

Conditions == 1..NumConditions

ASSUME ConditionsAssumption == NumConditions \in Nat

VARIABLES
    preference,        \* zmk_endpoint_get_preferred_transport()
    observed,          \* observed_preference
    isObserved,        \* preference_observed
    look,              \* preference_work
    pending, next,     \* CONTROL is requested; the condition sampled next
    sampled,           \* the preference each condition was last sampled with
    unheard            \* history: changed since the last key or transport event

vars == <<preference, observed, isObserved, look, pending, next, sampled, unheard>>

Idle == 0

TypeOK ==
    /\ preference \in Transports
    /\ observed \in Transports /\ isObserved \in BOOLEAN
    /\ look \in {"none", "delayed", "due"}
    /\ pending \in BOOLEAN /\ next \in 0..(NumConditions + 1)
    /\ sampled \in [Conditions -> Transports]
    /\ unheard \in BOOLEAN

Init ==
    /\ preference \in Transports
    /\ observed \in Transports /\ isObserved = FALSE
    /\ look = "none"
    /\ pending = TRUE /\ next = Idle
    /\ sampled \in [Conditions -> Transports]
    /\ unheard = FALSE

-----------------------------------------------------------------------------
(* The environment.  A preference is changed by a key's behavior, before   *)
(* some later event of that key, or with an event of the transports.       *)
ChangePreference ==
    /\ preference' \in Transports \ {preference}
    /\ unheard' = TRUE
    /\ UNCHANGED <<observed, isObserved, look, pending, next, sampled>>

(* A key event schedules the look, unless it is scheduled already. *)
ScheduledBug == "delayed"
Scheduled == IF look = "none" THEN "delayed" ELSE look

KeyEvent ==
    /\ look' = Scheduled
    /\ unheard' = FALSE
    /\ UNCHANGED <<preference, observed, isObserved, pending, next, sampled>>

TransportEvent ==
    /\ pending' = TRUE
    /\ unheard' = FALSE
    /\ UNCHANGED <<preference, observed, isObserved, look, next, sampled>>

DelayPasses ==
    /\ look = "delayed"
    /\ look' = "due"
    /\ UNCHANGED <<preference, observed, isObserved, pending, next, sampled, unheard>>

-----------------------------------------------------------------------------
(* sample_preference() *)
Look ==
    /\ look = "due" /\ next = Idle
    /\ look' = "none"
    /\ IF ~isObserved \/ preference # observed
       THEN /\ observed' = preference /\ isObserved' = TRUE
            /\ pending' = TRUE
       ELSE UNCHANGED <<observed, isObserved, pending>>
    /\ UNCHANGED <<preference, next, sampled, unheard>>

(* kp_rgb_conditions_run() *)
StartEvaluation ==
    /\ pending /\ next = Idle
    /\ pending' = FALSE
    /\ next' = 1
    /\ UNCHANGED <<preference, observed, isObserved, look, sampled, unheard>>

(* A preference other than the observed one is not forgotten, though the   *)
(* next look may find the observed one again.                              *)
StillObservedBug == isObserved
StillObserved == isObserved /\ preference = observed

InList(i) == i <= NumConditions

SampleCondition ==
    /\ next # Idle /\ InList(next)
    /\ sampled' = [sampled EXCEPT ![next] = preference]
    /\ isObserved' = StillObserved
    /\ next' = next + 1
    /\ UNCHANGED <<preference, observed, look, pending, unheard>>

FinishEvaluation ==
    /\ next # Idle /\ ~InList(next)
    /\ next' = Idle
    /\ UNCHANGED <<preference, observed, isObserved, look, pending, sampled, unheard>>

Evaluation == StartEvaluation \/ SampleCondition \/ FinishEvaluation

Next == ChangePreference \/ KeyEvent \/ TransportEvent \/ DelayPasses \/ Look \/ Evaluation

(* The work queue serves its items in turn, so a due look is not kept from *)
(* its turn by evaluations that follow each other.                         *)
Spec == Init /\ [][Next]_vars
FairSpec == Spec /\ WF_vars(DelayPasses) /\ WF_vars(Evaluation) /\ SF_vars(Look)

-----------------------------------------------------------------------------
(* Properties *)

Quiet == look = "none" /\ ~pending /\ next = Idle

(* When nothing is scheduled and every change was followed by an event,    *)
(* all conditions were sampled with the present preference, even if it     *)
(* went to and fro while they were.                                        *)
PreferenceFollowed == Quiet /\ ~unheard => \A c \in Conditions : sampled[c] = preference

(* Continuous input does not put off the look. *)
LookServed == look = "delayed" ~> look = "none"

=============================================================================
