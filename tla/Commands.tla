------------------------------ MODULE Commands ------------------------------
(***************************************************************************)
(* What the bound behaviors of the RGB engine do to the replicated state   *)
(* of each half: src/behavior_rgb_matrix.c (on, off, toggle, brightness,   *)
(* global reset), src/behaviors/selector.c with src/rgb_selector.c (hue,   *)
(* saturation, period, colour, selection, selector reset), for one         *)
(* selector.  ZMK converts a press on the central, under the matrix mutex  *)
(* but for the conversion only, forwards the result to the peripherals and *)
(* executes it locally.  SplitSync repairs what such calls leave apart;    *)
(* here is what a single one does.                                         *)
(***************************************************************************)
EXTENDS Integers

CONSTANTS
    Callers,     \* threads that press
    Peripherals,
    Central,     \* the central half
    Presses,     \* the bindings pressed
    Togglers,    \* halves whose power is also toggled by a local call
    NumSlots,    \* effect_count
    HueMax, SatMax, BrtMax, MinPeriod, MaxPeriod,
    HueStep, SatStep, BrtStep, PeriodStep,
    Defaults     \* the state of a half that starts

Halves == {Central} \cup Peripherals
Slots == 0..(NumSlots - 1)
Colors == [h : 0..HueMax, s : 0..SatMax, b : 0..BrtMax]
Black == [h |-> 0, s |-> 0, b |-> 0]
Periods == MinPeriod..MaxPeriod

HalfStates ==
    [on : BOOLEAN, brt : 0..BrtMax, slot : Slots,
     color : [Slots -> Colors], period : [Slots -> Periods]]

(* A binding: opcode, addressed slot (RGB_SELECTOR_..._CMD only) and       *)
(* argument, which is a colour for the colour commands.                    *)
GlobalRelative == {"TOG", "BRI", "BRD"}
GlobalAbsolute == {"ON", "OFF", "BRT_SET", "RESET_ALL"}
SelectorRelative == {"HUI", "HUD", "SAI", "SAD", "SPI", "SPD", "EFF", "EFR", "COLOR_HSB"}
Member == {"MEMBER_COLOR", "MEMBER_PERIOD"}
SelectorAbsolute == {"EFS", "RESET"} \cup Member
Opcodes == GlobalRelative \cup GlobalAbsolute \cup SelectorRelative \cup SelectorAbsolute
Bindings == [op : Opcodes, slot : Nat, arg : Nat, color : [h : Nat, s : Nat, b : Nat]]
Binding(op, slot, arg, color) == [op |-> op, slot |-> slot, arg |-> arg, color |-> color]

ASSUME RangesAssumption ==
    /\ NumSlots \in Nat \ {0} /\ HueMax \in Nat \ {0} /\ SatMax \in Nat /\ BrtMax \in Nat
    /\ MinPeriod \in Nat \ {0} /\ MaxPeriod \in Nat /\ MinPeriod <= MaxPeriod
    /\ HueStep \in Nat /\ SatStep \in Nat /\ BrtStep \in Nat /\ PeriodStep \in Nat
ASSUME DefaultsAssumption == Defaults \in HalfStates
ASSUME PressesAssumption == Presses \subseteq Bindings
ASSUME HalvesAssumption == Central \notin Peripherals /\ Togglers \subseteq Halves

VARIABLES
    half,    \* each half's kp_rgb_global, effect_index, effects' data
    call,    \* what a caller's invocation carries and has still to forward
    asked,   \* history: what the last step asked of the engine, per half
    lone,    \* history: calls under way that nothing else has overlapped
    aim      \* history: a caller's press and the slot it was meant for

vars == <<half, call, asked, lone, aim>>

NoCall == [under |-> FALSE, todo |-> {}, binding |-> Binding("RESET", 0, 0, Black)]
NoAim == [press |-> NoCall.binding, slot |-> 0]
Requests == {"repaint", "control", "replicate", "power", "reset", "save"}

TypeOK ==
    /\ half \in [Halves -> HalfStates]
    /\ call \in [Callers -> [under : BOOLEAN, todo : SUBSET Peripherals, binding : Bindings]]
    /\ asked \in [Halves -> SUBSET Requests]
    /\ lone \subseteq Callers
    /\ aim \in [Callers -> [press : Bindings, slot : Slots]]

Nothing == [h \in Halves |-> {}]

Init ==
    /\ half = [h \in Halves |-> Defaults]
    /\ call = [c \in Callers |-> NoCall]
    /\ asked = Nothing /\ lone = {} /\ aim = [c \in Callers |-> NoAim]

-----------------------------------------------------------------------------
(* Conversion of relative commands into addressed, absolute ones.          *)

Clamp(v, low, high) == IF v < low THEN low ELSE IF v > high THEN high ELSE v

(* kp_rgb_selector_calc_index() with a delta of one or minus one; the C    *)
(* remainder of a delta is brought above zero by adding the count.         *)
CalcIndex(slot, delta) == (slot + delta + NumSlots) % NumSlots

(* kp_rgb_calc_brt_locked() *)
BrightnessBug(s, direction) == s.brt + direction * BrtStep
Brightness(s, direction) == Clamp(s.brt + direction * BrtStep, 0, BrtMax)

HueTurned(color, direction) == [color EXCEPT !.h = (@ + direction * HueStep) % HueMax]
SatMoved(color, direction) == [color EXCEPT !.s = Clamp(@ + direction * SatStep, 0, SatMax)]
PeriodMoved(s, direction) ==
    Clamp(s.period[s.slot] + direction * PeriodStep, MinPeriod, MaxPeriod)

Sign(op) == IF op \in {"BRI", "HUI", "SAI", "SPI", "EFF"} THEN 1 ELSE -1

MemberColor(slot, color) == Binding("MEMBER_COLOR", slot, 0, color)
MemberPeriod(slot, period) == Binding("MEMBER_PERIOD", slot, period, Black)

(* on_keymap_binding_convert_central_state_dependent_params() and          *)
(* kp_rgb_selector_convert_locked(): the absolute command.                 *)
Absolute(s, b) ==
    LET color == s.color[s.slot] IN
    CASE b.op = "TOG" -> Binding(IF s.on THEN "OFF" ELSE "ON", 0, b.arg, Black)
      [] b.op \in {"BRI", "BRD"} -> Binding("BRT_SET", 0, Brightness(s, Sign(b.op)), Black)
      [] b.op \in {"EFF", "EFR"} -> Binding("EFS", 0, CalcIndex(s.slot, Sign(b.op)), Black)
      [] b.op \in {"HUI", "HUD"} -> MemberColor(s.slot, HueTurned(color, Sign(b.op)))
      [] b.op \in {"SAI", "SAD"} -> MemberColor(s.slot, SatMoved(color, Sign(b.op)))
      [] b.op \in {"SPI", "SPD"} ->
             MemberPeriod(s.slot, IF b.arg = 0 THEN PeriodMoved(s, Sign(b.op)) ELSE b.arg)
      [] b.op = "COLOR_HSB" -> MemberColor(s.slot, b.color)
      [] OTHER -> b

(* Commands a conversion refuses, by their argument before ...             *)
BadArgument(b) ==
    \/ b.op \in {"RESET", "EFF", "EFR", "HUI", "HUD", "SAI", "SAD", "SPD"} /\ b.arg # 0
    \/ b.op \in Member /\ b.slot >= NumSlots
    \/ b.op = "EFS" /\ b.arg >= NumSlots

(* ... and after it.                                                       *)
OutOfRange(b) ==
    \/ b.op = "MEMBER_COLOR" /\ b.color \notin Colors
    \/ b.op = "MEMBER_PERIOD" /\ b.arg \notin Periods

Convertible(s, b) == ~BadArgument(b) /\ ~OutOfRange(Absolute(s, b))

-----------------------------------------------------------------------------
(* Execution on one half: its new state and what is asked of the engine.   *)

Result(s, new, requests) ==
    [half |-> new,
     asked |-> requests \cup (IF new # s THEN {"replicate"} ELSE {})]

Refused(s) == [half |-> s, asked |-> {}]

(* kp_rgb_set_color_locked(), kp_rgb_set_period_locked() *)
Normal(color) == [color EXCEPT !.h = @ % HueMax]

SetColor(s, slot, color) ==
    LET new == [s EXCEPT !.color[slot] = Normal(color)]
    IN  Result(s, new, IF new # s THEN {"repaint"} ELSE {})

SetPeriod(s, slot, period) ==
    LET new == [s EXCEPT !.period[slot] = period]
    IN  Result(s, new, IF new # s THEN {"repaint"} ELSE {})

(* kp_rgb_selector_select_locked() and its caller's flush and save *)
SelectBug(s, slot) ==
    Result(s, [s EXCEPT !.slot = slot],
           {"save"} \cup (IF slot # s.slot THEN {"repaint"} ELSE {}))
Select(s, slot) ==
    Result(s, [s EXCEPT !.slot = slot],
           {"save"} \cup (IF slot # s.slot THEN {"control", "repaint"} ELSE {}))

(* kp_rgb_selector_overlay_reset_locked() *)
ResetSelector(s) ==
    Result(s, [s EXCEPT !.slot = Defaults.slot, !.color = Defaults.color,
                        !.period = Defaults.period],
           {"repaint", "reset", "save"}
               \cup (IF s.slot # Defaults.slot THEN {"control"} ELSE {}))

(* kp_rgb_reset_state() *)
ResetState(s) ==
    LET reset == ResetSelector([s EXCEPT !.on = Defaults.on, !.brt = Defaults.brt])
    IN  Result(s, reset.half, (reset.asked \ {"replicate"}) \cup {"power"})

(* kp_rgb_set_user_on(), zmk_rgb_matrix_toggle() *)
SetUserOn(s, on) == Result(s, [s EXCEPT !.on = on], {"power", "save"})
Toggle(s) == Result(s, [s EXCEPT !.on = ~@], {"power"})

(* RGB_BRT_SET_CMD *)
SetBrightness(s, brt) ==
    Result(s, [s EXCEPT !.brt = brt],
           {"save"} \cup (IF brt # s.brt THEN {"repaint"} ELSE {}))

ChangeBrightness(s, direction) ==
    Result(s, [s EXCEPT !.brt = Brightness(s, direction)], {"save", "repaint"})

(* on_keymap_binding_pressed_command(): the global control *)
PressedGlobal(s, b) ==
    CASE b.op = "TOG" -> [Toggle(s) EXCEPT !.asked = @ \cup {"save"}]
      [] b.op = "ON" -> SetUserOn(s, TRUE)
      [] b.op = "OFF" -> SetUserOn(s, FALSE)
      [] b.op \in {"BRI", "BRD"} -> ChangeBrightness(s, Sign(b.op))
      [] b.op = "BRT_SET" /\ b.arg <= BrtMax -> SetBrightness(s, b.arg)
      [] b.op = "RESET_ALL" /\ b.arg = 0 -> ResetState(s)
      [] OTHER -> Refused(s)

(* kp_rgb_selector_dispatch_locked() once it has converted again, and      *)
(* kp_rgb_selector_binding_apply().                                        *)
Executed(s, b) ==
    CASE b.op = "RESET" -> ResetSelector(s)
      [] b.op = "EFS" -> Select(s, b.arg)
      [] b.op = "MEMBER_COLOR" -> SetColor(s, b.slot, b.color)
      [] b.op = "MEMBER_PERIOD" -> SetPeriod(s, b.slot, b.arg)

DispatchedBug(s, b) ==
    IF Convertible(s, b) THEN Executed(s, [Absolute(s, b) EXCEPT !.slot = s.slot])
    ELSE Refused(s)
Dispatched(s, b) ==
    IF Convertible(s, b) THEN Executed(s, Absolute(s, b)) ELSE Refused(s)

Pressed(s, b) ==
    IF b.op \in GlobalRelative \cup GlobalAbsolute THEN PressedGlobal(s, b) ELSE Dispatched(s, b)

-----------------------------------------------------------------------------
(* Invocations *)

UnderWay == {c \in Callers : call[c].under}

(* Conversion on the central: a refused press ends there. *)
ConvertedBug(s, b) == IF b.op \in {"COLOR_HSB", "TOG"} THEN b ELSE Absolute(s, b)
Converted(s, b) == Absolute(s, b)

Convert(c, b) ==
    /\ ~call[c].under /\ Convertible(half[Central], b)
    /\ call' = [call EXCEPT ![c] = [under |-> TRUE, todo |-> Peripherals,
                                    binding |-> Converted(half[Central], b)]]
    /\ lone' = IF UnderWay = {} THEN {c} ELSE {}
    /\ aim' = [aim EXCEPT ![c] =
                  [press |-> b, slot |-> IF b.op \in Member THEN b.slot ELSE half[Central].slot]]
    /\ asked' = Nothing
    /\ UNCHANGED half

Execute(h, b) ==
    LET result == Pressed(half[h], b)
    IN  /\ half' = [half EXCEPT ![h] = result.half]
        /\ asked' = [Nothing EXCEPT ![h] = result.asked]

Forward(c, p) ==
    /\ p \in call[c].todo
    /\ Execute(p, call[c].binding)
    /\ call' = [call EXCEPT ![c].todo = @ \ {p}]
    /\ UNCHANGED <<lone, aim>>

Apply(c) ==
    /\ call[c].under /\ call[c].todo = {}
    /\ Execute(Central, call[c].binding)
    /\ call' = [call EXCEPT ![c] = NoCall]
    /\ aim' = [aim EXCEPT ![c] = NoAim]
    /\ lone' = lone \ {c}

(* zmk_rgb_matrix_toggle() called on one half, by any module.              *)
LocalToggle(h) ==
    /\ LET result == Toggle(half[h])
       IN  /\ half' = [half EXCEPT ![h] = result.half]
           /\ asked' = [Nothing EXCEPT ![h] = result.asked]
    /\ lone' = {}
    /\ UNCHANGED <<call, aim>>

(* A peripheral restarts, with nothing stored. *)
Reboot(p) ==
    /\ half' = [half EXCEPT ![p] = Defaults]
    /\ asked' = Nothing /\ lone' = {}
    /\ UNCHANGED <<call, aim>>

Next ==
    \/ \E c \in Callers : \/ \E b \in Presses : Convert(c, b)
                          \/ \E p \in Peripherals : Forward(c, p)
                          \/ Apply(c)
    \/ \E h \in Togglers : LocalToggle(h)
    \/ \E p \in Peripherals : Reboot(p)

Spec == Init /\ [][Next]_vars

-----------------------------------------------------------------------------
(* Properties *)

Items == ({"on", "brt", "slot"} \X {0}) \cup ({"color", "period"} \X Slots)
Value(s, item) ==
    CASE item[1] = "on" -> s.on [] item[1] = "brt" -> s.brt [] item[1] = "slot" -> s.slot
      [] item[1] = "color" -> s.color[item[2]] [] item[1] = "period" -> s.period[item[2]]

(* What a press is about, given the slot that was selected then. *)
Addressed(op, slot) ==
    CASE op \in {"TOG", "ON", "OFF"} -> {<<"on", 0>>}
      [] op \in {"BRI", "BRD", "BRT_SET"} -> {<<"brt", 0>>}
      [] op \in {"EFF", "EFR", "EFS"} -> {<<"slot", 0>>}
      [] op \in {"HUI", "HUD", "SAI", "SAD", "COLOR_HSB", "MEMBER_COLOR"} -> {<<"color", slot>>}
      [] op \in {"SPI", "SPD", "MEMBER_PERIOD"} -> {<<"period", slot>>}
      [] op = "RESET" -> Items \ {<<"on", 0>>, <<"brt", 0>>}
      [] op = "RESET_ALL" -> Items
Aimed(c) == Addressed(aim[c].press.op, aim[c].slot)

(* RGB_BRT_SET_CMD and the global RGB_RESET_CMD are the only commands      *)
(* whose argument is not looked at before they are forwarded.              *)
Unchecked(b) ==
    \/ b.op = "BRT_SET" /\ b.arg > BrtMax
    \/ b.op = "RESET_ALL" /\ b.arg # 0

Executes(c) == call[c].under /\ call[c] # call'[c]

(* A command that the central converted is absolute and acceptable         *)
(* wherever it arrives: no half reads its own state to execute it, and     *)
(* none refuses it, whatever happened to it in between.                    *)
AcceptedEverywhere ==
    \A c \in UnderWay : \A h \in Halves :
        LET b == call[c].binding
        IN  /\ Absolute(half[h], b) = b /\ Convertible(half[h], b)
            /\ ~Unchecked(aim[c].press) => ~Unchecked(b)

(* A command changes only what was addressed when it was converted, also   *)
(* on a half where another effect is selected, and if another press moves  *)
(* the selection before it is executed.                                    *)
OnlyAddressed ==
    [][\A c \in Callers : Executes(c) =>
           \A h \in Halves : \A item \in Items \ Aimed(c) :
               Value(half'[h], item) = Value(half[h], item)]_vars

(* When a call ends that nothing overlapped, all halves hold the same      *)
(* value of what it addressed, however far they had drifted apart.         *)
LoneCommandAgrees ==
    [][\A c \in lone : Executes(c) /\ ~call'[c].under /\ ~Unchecked(aim[c].press) =>
           \A p \in Peripherals : \A item \in Aimed(c) :
               Value(half'[p], item) = Value(half'[Central], item)]_vars

(* Every change of replicated state is announced: to the replay (its       *)
(* generation), to the picture or the output policy, to the conditions     *)
(* that look at the selection and, if it persists, to the settings.        *)
ChangesAnnounced ==
    [][\A c \in Callers : Executes(c) =>
           \A h \in Halves : \A item \in Items :
               Value(half'[h], item) # Value(half[h], item) =>
                   /\ "replicate" \in asked'[h]
                   /\ (IF item[1] = "on" THEN "power" ELSE "repaint") \in asked'[h]
                   /\ item[1] = "slot" => "control" \in asked'[h]
                   /\ item[1] \in {"on", "brt", "slot"} => "save" \in asked'[h]]_vars

=============================================================================
