------------------------------- MODULE Latch -------------------------------
(***************************************************************************)
(* The latch condition and its toggle (src/behaviors/overlay_toggle.c,     *)
(* src/conditions/rgb_latch.h): each half keeps its own latch.  ZMK        *)
(* resolves a press to an absolute value on the central, forwards that to  *)
(* the peripherals, and applies it locally; presses come from different    *)
(* threads (the keymap's, the RGB work queue running a trigger), which     *)
(* hold no lock in common from conversion to application.                  *)
(***************************************************************************)
EXTENDS Naturals

CONSTANTS
    Callers,     \* threads that press the toggle
    Peripherals,
    Reboots      \* whether peripherals restart

VARIABLES
    latch,       \* the central's
    remote,      \* each peripheral's
    call,        \* what a caller's invocation has resolved and still to do
    invalid,     \* the central's conditions are to be evaluated again
    lone         \* history: the callers that nobody has overlapped

vars == <<latch, remote, call, invalid, lone>>

NoCall == [todo |-> {}, value |-> 0, under |-> FALSE]

TypeOK ==
    /\ latch \in 0..1 /\ remote \in [Peripherals -> 0..1]
    /\ call \in [Callers -> [todo : SUBSET Peripherals, value : 0..1, under : BOOLEAN]]
    /\ invalid \in BOOLEAN /\ lone \subseteq Callers

Init ==
    /\ latch = 0 /\ remote = [p \in Peripherals |-> 0]
    /\ call = [c \in Callers |-> NoCall]
    /\ invalid = FALSE /\ lone = {}

UnderWay == {c \in Callers : call[c].under}

(* kp_ovl_toggle_convert() *)
Resolved == IF latch # 0 THEN 0 ELSE 1

Convert(c) ==
    /\ ~call[c].under
    /\ call' = [call EXCEPT ![c] = [todo |-> Peripherals, value |-> Resolved, under |-> TRUE]]
    /\ lone' = IF UnderWay = {} THEN {c} ELSE {}
    /\ UNCHANGED <<latch, remote, invalid>>

(* kp_ovl_toggle_pressed(), on a peripheral and on the central *)
Pressed(old, value) == value

Forward(c, p) ==
    /\ p \in call[c].todo
    /\ remote' = [remote EXCEPT ![p] = Pressed(@, call[c].value)]
    /\ call' = [call EXCEPT ![c].todo = @ \ {p}]
    /\ UNCHANGED <<latch, invalid, lone>>

Apply(c) ==
    /\ call[c].under /\ call[c].todo = {}
    /\ latch' = Pressed(latch, call[c].value)
    /\ invalid' = (invalid \/ latch' # latch)
    /\ call' = [call EXCEPT ![c] = NoCall]
    /\ UNCHANGED <<remote, lone>>

Evaluate ==
    /\ invalid
    /\ invalid' = FALSE
    /\ UNCHANGED <<latch, remote, call, lone>>

Reboot(p) ==
    /\ Reboots /\ UnderWay = {}
    /\ remote' = [remote EXCEPT ![p] = 0]
    /\ UNCHANGED <<latch, call, invalid, lone>>

Next ==
    \/ \E c \in Callers : Convert(c) \/ Apply(c) \/ \E p \in Peripherals : Forward(c, p)
    \/ Evaluate
    \/ \E p \in Peripherals : Reboot(p)

Spec == Init /\ [][Next]_vars

-----------------------------------------------------------------------------
(* Properties *)

(* "A peripheral that rebooted converges on the next press", and so does   *)
(* one that overlapping presses left apart: once a press ends that no      *)
(* other overlapped, all halves agree.                                     *)
LonePressAgrees ==
    [][\A c \in lone : Apply(c) => \A p \in Peripherals : remote'[p] = latch']_vars

(* "Absolute, so the halves cannot end up inverted": when no press is      *)
(* under way, no peripheral that kept its power has the opposite value.    *)
NeverInverted == UnderWay = {} => \A p \in Peripherals : remote[p] = latch

=============================================================================
