--------------------------- MODULE CommandsProofs ---------------------------
(***************************************************************************)
(* Proofs about Commands, for any threads, halves, bindings, numbers of    *)
(* slots, ranges and steps.                                                *)
(***************************************************************************)
EXTENDS Commands, TLAPS

(* What conversion leaves: absolute and in range.                          *)
Settled(b) ==
    /\ b.op \in GlobalAbsolute \cup SelectorAbsolute
    /\ ~BadArgument(b) /\ ~OutOfRange(b)

MeantSlot(s, b) == IF b.op \in Member THEN b.slot ELSE s.slot

LEMMA DefaultsTyped ==
    /\ Defaults \in HalfStates /\ 0 \in Slots
    /\ NoCall \in [under : BOOLEAN, todo : SUBSET Peripherals, binding : Bindings]
    /\ NoAim \in [press : Bindings, slot : Slots]
<1>1. 0 \in Slots
  BY RangesAssumption DEF Slots
<1>2. Binding("RESET", 0, 0, Black) \in Bindings
  BY DEF Binding, Bindings, Black, Opcodes, SelectorAbsolute
<1>. QED
  BY <1>1, <1>2, DefaultsAssumption DEF NoCall, NoAim

(* Relative values stay in range.                                          *)
LEMMA InRange ==
    ASSUME NEW s \in HalfStates, NEW direction \in {1, -1}
    PROVE  /\ Brightness(s, direction) \in 0..BrtMax
           /\ HueTurned(s.color[s.slot], direction) \in Colors
           /\ SatMoved(s.color[s.slot], direction) \in Colors
           /\ PeriodMoved(s, direction) \in Periods
           /\ CalcIndex(s.slot, direction) \in Slots
<1>1. /\ s.brt \in 0..BrtMax /\ s.slot \in Slots
      /\ s.color[s.slot] \in Colors /\ s.period[s.slot] \in Periods
  BY DEF HalfStates
<1>2. Brightness(s, direction) \in 0..BrtMax
  BY <1>1, RangesAssumption DEF Brightness, Clamp
<1>3. PeriodMoved(s, direction) \in Periods
  BY <1>1, RangesAssumption DEF PeriodMoved, Clamp, Periods
<1>4. CalcIndex(s.slot, direction) \in Slots
  <2>1. s.slot + direction + NumSlots \in Int
    BY <1>1, RangesAssumption DEF Slots
  <2>. QED
    BY <2>1, RangesAssumption DEF CalcIndex, Slots
<1>5. SatMoved(s.color[s.slot], direction) \in Colors
  BY <1>1, RangesAssumption DEF SatMoved, Clamp, Colors
<1>6. HueTurned(s.color[s.slot], direction) \in Colors
  <2>. DEFINE h == s.color[s.slot].h + direction * HueStep
  <2>1. h \in Int
    BY <1>1, RangesAssumption DEF Colors
  <2>2. h % HueMax \in 0..HueMax
    <3>. HIDE DEF h
    <3>. QED
      BY <2>1, RangesAssumption
  <2>. QED
    BY <1>1, <2>2 DEF HueTurned, Colors
<1>. QED
  BY <1>2, <1>3, <1>4, <1>5, <1>6

(* A conversion yields a settled binding for what was meant.               *)
LEMMA ConversionSettles ==
    ASSUME NEW s \in HalfStates, NEW b \in Bindings, Convertible(s, b)
    PROVE  /\ Absolute(s, b) \in Bindings /\ Settled(Absolute(s, b))
           /\ Addressed(Absolute(s, b).op, Absolute(s, b).slot) = Addressed(b.op, MeantSlot(s, b))
           /\ ~Unchecked(b) => ~Unchecked(Absolute(s, b))
<1>. DEFINE a == Absolute(s, b)
<1>1. /\ s.slot \in Slots /\ s.color[s.slot] \in Colors /\ ~BadArgument(b) /\ ~OutOfRange(a)
      /\ b.op \in Opcodes /\ b.slot \in Nat /\ b.arg \in Nat /\ s.slot \in Nat /\ s.slot < NumSlots
      /\ b.color \in [h : Nat, s : Nat, b : Nat] /\ Black \in [h : Nat, s : Nat, b : Nat]
      /\ Sign(b.op) \in {1, -1}
  BY RangesAssumption DEF Bindings, HalfStates, Slots, Convertible, Black, Sign
<1>. DEFINE d == Sign(b.op)
<1>2. /\ Brightness(s, d) \in 0..BrtMax
      /\ HueTurned(s.color[s.slot], d) \in Colors
      /\ SatMoved(s.color[s.slot], d) \in Colors
      /\ PeriodMoved(s, d) \in Periods
      /\ CalcIndex(s.slot, d) \in Slots
  BY <1>1, InRange
<1>3. Colors \subseteq [h : Nat, s : Nat, b : Nat] /\ Periods \subseteq Nat
  BY RangesAssumption DEF Colors, Periods
<1>4. CASE b.op \in {"TOG"}
  <2>1. a = [op |-> IF s.on THEN "OFF" ELSE "ON", slot |-> 0, arg |-> b.arg, color |-> Black]
    BY <1>4 DEF Absolute, Binding
  <2>2. a \in Bindings
    BY <1>1, <1>2, <1>3, <2>1, RangesAssumption DEF Bindings, Opcodes, GlobalAbsolute, SelectorAbsolute, Member, Slots
  <2>3. Settled(a)
    BY <1>1, <1>2, <1>3, <1>4, <2>1, RangesAssumption
    DEF Settled, BadArgument, OutOfRange, GlobalAbsolute, SelectorAbsolute, Member, Slots
  <2>4. Addressed(a.op, a.slot) = Addressed(b.op, MeantSlot(s, b))
    BY <1>4, <2>1 DEF Addressed, MeantSlot, Member
  <2>5. ~Unchecked(a)
    BY <1>1, <1>2, <2>1, RangesAssumption DEF Unchecked
  <2>. QED
    BY <2>2, <2>3, <2>4, <2>5
<1>5. CASE b.op \in {"BRI", "BRD"}
  <2>1. a = [op |-> "BRT_SET", slot |-> 0, arg |-> Brightness(s, d), color |-> Black]
    BY <1>5 DEF Absolute, Binding
  <2>2. a \in Bindings
    BY <1>1, <1>2, <1>3, <2>1, RangesAssumption DEF Bindings, Opcodes, GlobalAbsolute, SelectorAbsolute, Member, Slots
  <2>3. Settled(a)
    BY <1>1, <1>2, <1>3, <1>5, <2>1, RangesAssumption
    DEF Settled, BadArgument, OutOfRange, GlobalAbsolute, SelectorAbsolute, Member, Slots
  <2>4. Addressed(a.op, a.slot) = Addressed(b.op, MeantSlot(s, b))
    BY <1>5, <2>1 DEF Addressed, MeantSlot, Member
  <2>5. ~Unchecked(a)
    BY <1>1, <1>2, <2>1, RangesAssumption DEF Unchecked
  <2>. QED
    BY <2>2, <2>3, <2>4, <2>5
<1>6. CASE b.op \in {"EFF", "EFR"}
  <2>1. a = [op |-> "EFS", slot |-> 0, arg |-> CalcIndex(s.slot, d), color |-> Black]
    BY <1>6 DEF Absolute, Binding
  <2>2. a \in Bindings
    BY <1>1, <1>2, <1>3, <2>1, RangesAssumption DEF Bindings, Opcodes, GlobalAbsolute, SelectorAbsolute, Member, Slots
  <2>3. Settled(a)
    BY <1>1, <1>2, <1>3, <1>6, <2>1, RangesAssumption
    DEF Settled, BadArgument, OutOfRange, GlobalAbsolute, SelectorAbsolute, Member, Slots
  <2>4. Addressed(a.op, a.slot) = Addressed(b.op, MeantSlot(s, b))
    BY <1>6, <2>1 DEF Addressed, MeantSlot, Member
  <2>5. ~Unchecked(a)
    BY <1>1, <1>2, <2>1, RangesAssumption DEF Unchecked
  <2>. QED
    BY <2>2, <2>3, <2>4, <2>5
<1>7. CASE b.op \in {"HUI", "HUD"}
  <2>1. a = [op |-> "MEMBER_COLOR", slot |-> s.slot, arg |-> 0, color |-> HueTurned(s.color[s.slot], d)]
    BY <1>7 DEF Absolute, Binding, MemberColor
  <2>2. a \in Bindings
    BY <1>1, <1>2, <1>3, <2>1, RangesAssumption DEF Bindings, Opcodes, GlobalAbsolute, SelectorAbsolute, Member, Slots
  <2>3. Settled(a)
    BY <1>1, <1>2, <1>3, <1>7, <2>1, RangesAssumption
    DEF Settled, BadArgument, OutOfRange, GlobalAbsolute, SelectorAbsolute, Member, Slots
  <2>4. Addressed(a.op, a.slot) = Addressed(b.op, MeantSlot(s, b))
    BY <1>7, <2>1 DEF Addressed, MeantSlot, Member
  <2>5. ~Unchecked(a)
    BY <1>1, <1>2, <2>1, RangesAssumption DEF Unchecked
  <2>. QED
    BY <2>2, <2>3, <2>4, <2>5
<1>8. CASE b.op \in {"SAI", "SAD"}
  <2>1. a = [op |-> "MEMBER_COLOR", slot |-> s.slot, arg |-> 0, color |-> SatMoved(s.color[s.slot], d)]
    BY <1>8 DEF Absolute, Binding, MemberColor
  <2>2. a \in Bindings
    BY <1>1, <1>2, <1>3, <2>1, RangesAssumption DEF Bindings, Opcodes, GlobalAbsolute, SelectorAbsolute, Member, Slots
  <2>3. Settled(a)
    BY <1>1, <1>2, <1>3, <1>8, <2>1, RangesAssumption
    DEF Settled, BadArgument, OutOfRange, GlobalAbsolute, SelectorAbsolute, Member, Slots
  <2>4. Addressed(a.op, a.slot) = Addressed(b.op, MeantSlot(s, b))
    BY <1>8, <2>1 DEF Addressed, MeantSlot, Member
  <2>5. ~Unchecked(a)
    BY <1>1, <1>2, <2>1, RangesAssumption DEF Unchecked
  <2>. QED
    BY <2>2, <2>3, <2>4, <2>5
<1>9. CASE b.op \in {"COLOR_HSB"}
  <2>1. a = [op |-> "MEMBER_COLOR", slot |-> s.slot, arg |-> 0, color |-> b.color]
    BY <1>9 DEF Absolute, Binding, MemberColor
  <2>2. a \in Bindings
    BY <1>1, <1>2, <1>3, <2>1, RangesAssumption DEF Bindings, Opcodes, GlobalAbsolute, SelectorAbsolute, Member, Slots
  <2>3. Settled(a)
    BY <1>1, <1>2, <1>3, <1>9, <2>1, RangesAssumption
    DEF Settled, BadArgument, OutOfRange, GlobalAbsolute, SelectorAbsolute, Member, Slots
  <2>4. Addressed(a.op, a.slot) = Addressed(b.op, MeantSlot(s, b))
    BY <1>9, <2>1 DEF Addressed, MeantSlot, Member
  <2>5. ~Unchecked(a)
    BY <1>1, <1>2, <2>1, RangesAssumption DEF Unchecked
  <2>. QED
    BY <2>2, <2>3, <2>4, <2>5
<1>10. CASE b.op \in {"SPI", "SPD"}
  <2>. DEFINE period == IF b.arg = 0 THEN PeriodMoved(s, d) ELSE b.arg
  <2>1. a = [op |-> "MEMBER_PERIOD", slot |-> s.slot, arg |-> period, color |-> Black]
    BY <1>10 DEF Absolute, Binding, MemberPeriod
  <2>2. period \in Nat
    <3>1. PeriodMoved(s, d) \in Nat
      BY <1>2, <1>3
    <3>2. CASE b.arg = 0
      BY <3>1, <3>2
    <3>3. CASE b.arg # 0
      BY <1>1, <3>3
    <3>. QED
      BY <3>2, <3>3
  <2>3. a \in Bindings
    <3>. HIDE DEF period
    <3>. QED
      BY <1>1, <2>1, <2>2 DEF Bindings, Opcodes, SelectorAbsolute, Member
  <2>4. Settled(a)
    <3>. HIDE DEF period
    <3>. QED
      BY <1>1, <2>1, RangesAssumption DEF Settled, BadArgument, SelectorAbsolute, Member
  <2>5. Addressed(a.op, a.slot) = Addressed(b.op, MeantSlot(s, b))
    BY <1>10, <2>1 DEF Addressed, MeantSlot, Member
  <2>6. ~Unchecked(a)
    BY <2>1 DEF Unchecked
  <2>. QED
    BY <2>3, <2>4, <2>5, <2>6
<1>11. CASE b.op \in GlobalAbsolute \cup SelectorAbsolute
  <2>1. a = b
    BY <1>11 DEF Absolute, GlobalAbsolute, SelectorAbsolute, Member
  <2>2. Addressed(b.op, b.slot) = Addressed(b.op, MeantSlot(s, b))
    BY <1>11 DEF Addressed, MeantSlot, GlobalAbsolute, SelectorAbsolute, Member
  <2>. QED
    BY <1>1, <1>11, <2>1, <2>2 DEF Settled
<1>. QED
  BY <1>1, <1>4, <1>5, <1>6, <1>7, <1>8, <1>9, <1>10, <1>11
  DEF Opcodes, GlobalRelative, SelectorRelative

(* A settled binding means the same on every half.                         *)
LEMMA SettledIsFixed ==
    ASSUME NEW s, NEW b \in Bindings, Settled(b)
    PROVE  Absolute(s, b) = b /\ Convertible(s, b)
<1>1. Absolute(s, b) = b
  BY DEF Settled, Absolute, GlobalAbsolute, SelectorAbsolute, Member
<1>. QED
  BY <1>1 DEF Settled, Convertible

(* The state in which a settled command leaves a half.                     *)
After(s, b) ==
    CASE b.op = "ON" -> [s EXCEPT !.on = TRUE]
      [] b.op = "OFF" -> [s EXCEPT !.on = FALSE]
      [] b.op = "BRT_SET" -> [s EXCEPT !.brt = IF b.arg <= BrtMax THEN b.arg ELSE @]
      [] b.op = "RESET_ALL" -> IF b.arg = 0 THEN Defaults ELSE s
      [] b.op = "RESET" -> [Defaults EXCEPT !.on = s.on, !.brt = s.brt]
      [] b.op = "EFS" -> [s EXCEPT !.slot = b.arg]
      [] b.op = "MEMBER_COLOR" ->
             [s EXCEPT !.color = [@ EXCEPT ![b.slot] = Normal(b.color)]]
      [] b.op = "MEMBER_PERIOD" ->
             [s EXCEPT !.period = [@ EXCEPT ![b.slot] = b.arg]]

LEMMA ResetHalves ==
    ASSUME NEW s \in HalfStates
    PROVE  /\ ResetSelector(s).half = [Defaults EXCEPT !.on = s.on, !.brt = s.brt]
           /\ ResetState(s).half = Defaults
           /\ ResetSelector(s).asked \subseteq Requests
           /\ ResetState(s).asked \subseteq Requests
<1>. DEFINE new(t) == [t EXCEPT !.slot = Defaults.slot, !.color = Defaults.color,
                                !.period = Defaults.period]
            t == [s EXCEPT !.on = Defaults.on, !.brt = Defaults.brt]
<1>1. t \in HalfStates
  BY DefaultsAssumption DEF HalfStates
<1>2. /\ ResetSelector(s).half = new(s) /\ ResetSelector(s).asked \subseteq Requests
      /\ ResetSelector(t).half = new(t) /\ ResetSelector(t).asked \subseteq Requests
  BY DEF ResetSelector, Result, Requests
<1>3. ResetState(s).half = ResetSelector(t).half /\ ResetState(s).asked \subseteq Requests
  BY <1>2 DEF ResetState, Result, Requests
<1>4. new(s) = [Defaults EXCEPT !.on = s.on, !.brt = s.brt]
  BY DefaultsAssumption DEF HalfStates
<1>5. new(t) = Defaults
  BY DefaultsAssumption DEF HalfStates
<1>. QED
  BY <1>2, <1>3, <1>4, <1>5

LEMMA PressedAfter ==
    ASSUME NEW s \in HalfStates, NEW b \in Bindings, Settled(b)
    PROVE  Pressed(s, b).half = After(s, b) /\ Pressed(s, b).asked \subseteq Requests
<1>. USE DEF Result, Requests
<1>1. CASE b.op = "ON"
  <2>1. Pressed(s, b) = SetUserOn(s, TRUE)
    BY <1>1 DEF Pressed, PressedGlobal, GlobalAbsolute
  <2>. QED
    BY <1>1, <2>1 DEF SetUserOn, After
<1>2. CASE b.op = "OFF"
  <2>1. Pressed(s, b) = SetUserOn(s, FALSE)
    BY <1>2 DEF Pressed, PressedGlobal, GlobalAbsolute
  <2>. QED
    BY <1>2, <2>1 DEF SetUserOn, After
<1>3. CASE b.op = "BRT_SET"
  <2>1. Pressed(s, b) = IF b.arg <= BrtMax THEN SetBrightness(s, b.arg) ELSE Refused(s)
    BY <1>3 DEF Pressed, PressedGlobal, GlobalAbsolute
  <2>2. After(s, b) = IF b.arg <= BrtMax THEN [s EXCEPT !.brt = b.arg] ELSE s
    <3>1. After(s, b) = [s EXCEPT !.brt = IF b.arg <= BrtMax THEN b.arg ELSE s.brt]
      BY <1>3 DEF After
    <3>2. [s EXCEPT !.brt = s.brt] = s
      BY DEF HalfStates
    <3>. QED
      BY <3>1, <3>2
  <2>. QED
    BY <2>1, <2>2 DEF SetBrightness, Refused
<1>4. CASE b.op = "RESET_ALL"
  <2>1. Pressed(s, b) = IF b.arg = 0 THEN ResetState(s) ELSE Refused(s)
    BY <1>4 DEF Pressed, PressedGlobal, GlobalAbsolute
  <2>2. CASE b.arg = 0
    BY <1>4, <2>1, <2>2, ResetHalves DEF After
  <2>3. CASE b.arg # 0
    BY <1>4, <2>1, <2>3 DEF Refused, After
  <2>. QED
    BY <2>2, <2>3
<1>5. CASE b.op \in SelectorAbsolute
  <2>1. Pressed(s, b) = Executed(s, b)
    BY <1>5, SettledIsFixed DEF Pressed, Dispatched, GlobalRelative, GlobalAbsolute,
       SelectorAbsolute, Member
  <2>2. CASE b.op = "RESET"
    BY <2>1, <2>2, ResetHalves DEF Executed, After
  <2>3. CASE b.op = "EFS"
    BY <2>1, <2>3 DEF Executed, Select, After
  <2>4. CASE b.op = "MEMBER_COLOR"
    <3>1. Pressed(s, b) = SetColor(s, b.slot, b.color)
      BY <2>1, <2>4 DEF Executed
    <3>2. After(s, b) = [s EXCEPT !.color[b.slot] = Normal(b.color)]
      BY <2>4 DEF After
    <3>. QED
      BY <3>1, <3>2 DEF SetColor
  <2>5. CASE b.op = "MEMBER_PERIOD"
    <3>1. Pressed(s, b) = SetPeriod(s, b.slot, b.arg)
      BY <2>1, <2>5 DEF Executed
    <3>2. After(s, b) = [s EXCEPT !.period[b.slot] = b.arg]
      BY <2>5 DEF After
    <3>. QED
      BY <3>1, <3>2 DEF SetPeriod
  <2>. QED
    BY <1>5, <2>2, <2>3, <2>4, <2>5 DEF SelectorAbsolute, Member
<1>. QED
  BY <1>1, <1>2, <1>3, <1>4, <1>5 DEF Settled, GlobalAbsolute

LEMMA SettledArguments ==
    ASSUME NEW b \in Bindings, Settled(b)
    PROVE  /\ b.arg \in Nat
           /\ b.op = "EFS" => b.arg \in Slots
           /\ b.op \in Member => b.slot \in Slots
           /\ b.op = "MEMBER_COLOR" => Normal(b.color) \in Colors
           /\ b.op = "MEMBER_PERIOD" => b.arg \in Periods
<1>1. b.arg \in Nat /\ b.slot \in Nat
  BY DEF Bindings
<1>2. /\ b.op = "EFS" => b.arg \in Slots
      /\ b.op \in Member => b.slot \in Slots
  BY <1>1, RangesAssumption DEF Settled, BadArgument, Slots, Member
<1>3. b.op = "MEMBER_PERIOD" => b.arg \in Periods
  BY DEF Settled, OutOfRange
<1>4. ASSUME b.op = "MEMBER_COLOR" PROVE Normal(b.color) \in Colors
  <2>1. b.color \in Colors
    BY <1>4 DEF Settled, OutOfRange
  <2>2. b.color.h \in Int
    BY <2>1, RangesAssumption DEF Colors
  <2>3. b.color.h % HueMax \in 0..HueMax
    BY <2>2, RangesAssumption
  <2>. QED
    BY <2>1, <2>3 DEF Normal, Colors
<1>. QED
  BY <1>1, <1>2, <1>3, <1>4

(* A half's state and its requests keep their types.                       *)
LEMMA PressedType ==
    ASSUME NEW s \in HalfStates, NEW b \in Bindings, Settled(b)
    PROVE  Pressed(s, b).half \in HalfStates /\ Pressed(s, b).asked \subseteq Requests
<1>. SUFFICES After(s, b) \in HalfStates
  BY PressedAfter
<1>. USE SettledArguments DEF HalfStates
<1>1. CASE b.op \in {"ON", "OFF"}
  BY <1>1 DEF After
<1>2. CASE b.op = "BRT_SET"
  <2>1. (IF b.arg <= BrtMax THEN b.arg ELSE s.brt) \in 0..BrtMax
    BY RangesAssumption
  <2>. QED
    BY <1>2, <2>1 DEF After
<1>3. CASE b.op \in {"RESET", "RESET_ALL"}
  BY <1>3, DefaultsAssumption DEF After
<1>4. CASE b.op = "EFS"
  BY <1>4 DEF After
<1>5. CASE b.op = "MEMBER_COLOR"
  <2>1. [s.color EXCEPT ![b.slot] = Normal(b.color)] \in [Slots -> Colors]
    BY <1>5 DEF Member
  <2>. QED
    BY <1>5, <2>1 DEF After
<1>6. CASE b.op = "MEMBER_PERIOD"
  <2>1. [s.period EXCEPT ![b.slot] = b.arg] \in [Slots -> Periods]
    BY <1>6 DEF Member
  <2>. QED
    BY <1>6, <2>1 DEF After
<1>. QED
  BY <1>1, <1>2, <1>3, <1>4, <1>5, <1>6 DEF Settled, GlobalAbsolute, SelectorAbsolute, Member

(* Nothing but what is addressed changes.                                  *)
LEMMA PressedOthers ==
    ASSUME NEW s \in HalfStates, NEW b \in Bindings, Settled(b),
           NEW item \in Items, item \notin Addressed(b.op, b.slot)
    PROVE  Value(Pressed(s, b).half, item) = Value(s, item)
<1>. SUFFICES Value(After(s, b), item) = Value(s, item)
  BY PressedAfter
<1>. USE DEF Items, Addressed, Value, HalfStates
<1>1. CASE b.op \in {"ON", "OFF"}
  <2>1. CASE b.op = "ON"
    BY <2>1 DEF After
  <2>2. CASE b.op = "OFF"
    BY <2>2 DEF After
  <2>. QED
    BY <1>1, <2>1, <2>2
<1>2. CASE b.op = "BRT_SET"
  BY <1>2 DEF After
<1>3. CASE b.op = "RESET_ALL"
  BY <1>3
<1>4. CASE b.op = "RESET"
  <2>1. item \in {<<"on", 0>>, <<"brt", 0>>}
    BY <1>4
  <2>2. After(s, b).on = s.on /\ After(s, b).brt = s.brt
    BY <1>4, DefaultsAssumption DEF After
  <2>. QED
    BY <2>1, <2>2
<1>5. CASE b.op = "EFS"
  BY <1>5 DEF After
<1>6. CASE b.op = "MEMBER_COLOR"
  BY <1>6 DEF After
<1>7. CASE b.op = "MEMBER_PERIOD"
  BY <1>7 DEF After
<1>. QED
  BY <1>1, <1>2, <1>3, <1>4, <1>5, <1>6, <1>7
  DEF Settled, GlobalAbsolute, SelectorAbsolute, Member

(* What is addressed gets the same value from whatever state.              *)
LEMMA PressedAgrees ==
    ASSUME NEW s \in HalfStates, NEW t \in HalfStates, NEW b \in Bindings, Settled(b),
           ~Unchecked(b), NEW item \in Addressed(b.op, b.slot)
    PROVE  Value(Pressed(s, b).half, item) = Value(Pressed(t, b).half, item)
<1>. SUFFICES Value(After(s, b), item) = Value(After(t, b), item)
  BY PressedAfter
<1>. USE DEF Addressed, Value, HalfStates
<1>1. CASE b.op \in {"ON", "OFF"}
  <2>1. After(s, b).on = (b.op = "ON") /\ After(t, b).on = (b.op = "ON")
    BY <1>1 DEF After
  <2>. QED
    BY <1>1, <2>1
<1>2. CASE b.op = "BRT_SET"
  <2>1. b.arg <= BrtMax
    BY <1>2, RangesAssumption DEF Unchecked, Bindings
  <2>. QED
    BY <1>2, <2>1 DEF After
<1>3. CASE b.op = "RESET_ALL"
  BY <1>3 DEF After, Unchecked
<1>4. CASE b.op = "RESET"
  <2>1. item \in Items /\ item[1] \in {"slot", "color", "period"}
    BY <1>4 DEF Items
  <2>2. /\ After(s, b).slot = After(t, b).slot
        /\ After(s, b).color = After(t, b).color
        /\ After(s, b).period = After(t, b).period
    BY <1>4, DefaultsAssumption DEF After
  <2>. QED
    BY <2>1, <2>2
<1>5. CASE b.op = "EFS"
  BY <1>5 DEF After
<1>6. CASE b.op = "MEMBER_COLOR"
  BY <1>6, SettledArguments DEF After, Member
<1>7. CASE b.op = "MEMBER_PERIOD"
  BY <1>7, SettledArguments DEF After, Member
<1>. QED
  BY <1>1, <1>2, <1>3, <1>4, <1>5, <1>6, <1>7
  DEF Settled, GlobalAbsolute, SelectorAbsolute, Member

(* What is asked of the engine for a change of one item.                   *)
Announced(item, requests) ==
    /\ "replicate" \in requests
    /\ (IF item[1] = "on" THEN "power" ELSE "repaint") \in requests
    /\ item[1] = "slot" => "control" \in requests
    /\ item[1] \in {"on", "brt", "slot"} => "save" \in requests

LEMMA ResetAnnounces ==
    ASSUME NEW s \in HalfStates
    PROVE  /\ {"repaint", "save"} \subseteq ResetSelector(s).asked
           /\ s.slot # Defaults.slot => "control" \in ResetSelector(s).asked
           /\ ResetSelector(s).half # s => "replicate" \in ResetSelector(s).asked
           /\ {"repaint", "save", "power"} \subseteq ResetState(s).asked
           /\ s.slot # Defaults.slot => "control" \in ResetState(s).asked
           /\ ResetState(s).half # s => "replicate" \in ResetState(s).asked
<1>. DEFINE t == [s EXCEPT !.on = Defaults.on, !.brt = Defaults.brt]
<1>1. ASSUME NEW u
      PROVE  /\ {"repaint", "save"} \subseteq ResetSelector(u).asked
             /\ u.slot # Defaults.slot => "control" \in ResetSelector(u).asked
             /\ ResetSelector(u).half # u => "replicate" \in ResetSelector(u).asked
  BY DEF ResetSelector, Result
<1>2. t.slot = s.slot
  BY DEF HalfStates
<1>3. /\ ResetState(s).half = ResetSelector(t).half
      /\ ResetState(s).asked =
            ((ResetSelector(t).asked \ {"replicate"}) \cup {"power"})
                \cup (IF ResetSelector(t).half # s THEN {"replicate"} ELSE {})
  BY DEF ResetState, Result
<1>. HIDE DEF t
<1>. QED
  BY <1>1, <1>2, <1>3

(* An execution announces every item it changes.                           *)
LEMMA PressedAnnounces ==
    ASSUME NEW s \in HalfStates, NEW b \in Bindings, Settled(b), NEW item \in Items,
           Value(Pressed(s, b).half, item) # Value(s, item)
    PROVE  Announced(item, Pressed(s, b).asked)
<1>1. Pressed(s, b).half # s
  OBVIOUS
<1>2. item \in Addressed(b.op, b.slot)
  BY PressedOthers
<1>. USE DEF Announced, Addressed
<1>3. CASE b.op \in {"ON", "OFF"}
  <2>1. Pressed(s, b) = SetUserOn(s, b.op = "ON")
    BY <1>3 DEF Pressed, PressedGlobal, GlobalAbsolute
  <2>. QED
    BY <1>1, <1>2, <1>3, <2>1 DEF SetUserOn, Result
<1>4. CASE b.op = "BRT_SET"
  <2>1. Pressed(s, b) = IF b.arg <= BrtMax THEN SetBrightness(s, b.arg) ELSE Refused(s)
    BY <1>4 DEF Pressed, PressedGlobal, GlobalAbsolute
  <2>2. Pressed(s, b) = SetBrightness(s, b.arg)
    BY <1>1, <2>1 DEF Refused
  <2>3. b.arg # s.brt
    <3>1. [s EXCEPT !.brt = s.brt] = s
      BY DEF HalfStates
    <3>. QED
      BY <1>1, <2>2, <3>1 DEF SetBrightness, Result
  <2>. QED
    BY <1>1, <1>2, <1>4, <2>2, <2>3 DEF SetBrightness, Result
<1>5. ASSUME item[1] = "slot", b.op \in {"RESET", "RESET_ALL"}
      PROVE  Pressed(s, b).half.slot = Defaults.slot => s.slot # Defaults.slot
  BY <1>5 DEF Value
<1>6. CASE b.op = "RESET_ALL"
  <2>1. Pressed(s, b) = IF b.arg = 0 THEN ResetState(s) ELSE Refused(s)
    BY <1>6 DEF Pressed, PressedGlobal, GlobalAbsolute
  <2>2. Pressed(s, b) = ResetState(s)
    BY <1>1, <2>1 DEF Refused
  <2>3. item[1] = "slot" => s.slot # Defaults.slot
    BY <1>5, <1>6, <2>2, ResetHalves
  <2>. QED
    BY <1>1, <2>2, <2>3, ResetAnnounces
<1>7. CASE b.op \in SelectorAbsolute
  <2>1. Pressed(s, b) = Executed(s, b)
    BY <1>7, SettledIsFixed DEF Pressed, Dispatched, GlobalRelative, GlobalAbsolute,
       SelectorAbsolute, Member
  <2>2. CASE b.op = "RESET"
    <3>1. Pressed(s, b) = ResetSelector(s)
      BY <2>1, <2>2 DEF Executed
    <3>2. item[1] # "on"
      BY <1>2, <2>2 DEF Items
    <3>3. item[1] = "slot" => s.slot # Defaults.slot
      <4>1. ResetSelector(s).half.slot = Defaults.slot
        BY ResetHalves, DefaultsAssumption DEF HalfStates
      <4>. QED
        BY <1>5, <2>2, <3>1, <4>1
    <3>. QED
      BY <1>1, <3>1, <3>2, <3>3, ResetAnnounces
  <2>3. CASE b.op = "EFS"
    <3>1. Pressed(s, b) = Select(s, b.arg)
      BY <2>1, <2>3 DEF Executed
    <3>2. b.arg # s.slot
      <4>1. [s EXCEPT !.slot = s.slot] = s
        BY DEF HalfStates
      <4>. QED
        BY <1>1, <3>1, <4>1 DEF Select, Result
    <3>. QED
      BY <1>1, <1>2, <2>3, <3>1, <3>2 DEF Select, Result
  <2>4. CASE b.op = "MEMBER_COLOR"
    <3>1. Pressed(s, b) = SetColor(s, b.slot, b.color)
      BY <2>1, <2>4 DEF Executed
    <3>. QED
      BY <1>1, <1>2, <2>4, <3>1 DEF SetColor, Result
  <2>5. CASE b.op = "MEMBER_PERIOD"
    <3>1. Pressed(s, b) = SetPeriod(s, b.slot, b.arg)
      BY <2>1, <2>5 DEF Executed
    <3>. QED
      BY <1>1, <1>2, <2>5, <3>1 DEF SetPeriod, Result
  <2>. QED
    BY <1>7, <2>2, <2>3, <2>4, <2>5 DEF SelectorAbsolute, Member
<1>. QED
  BY <1>3, <1>4, <1>6, <1>7 DEF Settled, GlobalAbsolute

-----------------------------------------------------------------------------
(* A call under way carries a settled binding for what its press was meant *)
(* for.                                                                    *)
CallInv ==
    \A c \in Callers : call[c].under =>
        LET b == call[c].binding
        IN  /\ Settled(b)
            /\ Addressed(b.op, b.slot) = Aimed(c)
            /\ ~Unchecked(aim[c].press) => ~Unchecked(b)
            /\ aim[c].press.op \in Opcodes

TypeInv == TypeOK /\ CallInv /\ \A c \in Callers : call[c].todo # {} => call[c].under

LEMMA ExecuteSound ==
    ASSUME TypeOK, NEW h \in Halves, NEW b \in Bindings, Settled(b), Execute(h, b)
    PROVE  /\ half' \in [Halves -> HalfStates] /\ asked' \in [Halves -> SUBSET Requests]
           /\ half' = [half EXCEPT ![h] = Pressed(half[h], b).half]
<1>1. half[h] \in HalfStates
  BY DEF TypeOK
<1>2. Pressed(half[h], b).half \in HalfStates /\ Pressed(half[h], b).asked \subseteq Requests
  BY <1>1, PressedType
<1>. QED
  BY <1>2 DEF Execute, TypeOK, Nothing

LEMMA TypeInductive == TypeInv /\ [Next]_vars => TypeInv'
<1>. SUFFICES ASSUME TypeInv, [Next]_vars PROVE TypeInv'
  OBVIOUS
<1>. USE DEF TypeInv
<1>1. ASSUME NEW c \in Callers, NEW b \in Presses, Convert(c, b) PROVE TypeInv'
  <2>1. half[Central] \in HalfStates /\ b \in Bindings /\ Convertible(half[Central], b)
    BY <1>1, PressesAssumption DEF TypeOK, Halves, Convert
  <2>. DEFINE a == Absolute(half[Central], b)
              slot == MeantSlot(half[Central], b)
  <2>2. /\ a \in Bindings /\ Settled(a) /\ Addressed(a.op, a.slot) = Addressed(b.op, slot)
        /\ ~Unchecked(b) => ~Unchecked(a)
    BY <2>1, ConversionSettles
  <2>3. slot \in Slots
    <3>1. b.op \in Member => b.slot < NumSlots
      BY <2>1, RangesAssumption DEF Convertible, BadArgument, Bindings
    <3>2. b.slot \in Nat /\ half[Central].slot \in Slots
      BY <2>1 DEF Bindings, HalfStates
    <3>. QED
      BY <3>1, <3>2, RangesAssumption DEF MeantSlot, Slots
  <2>4. /\ call' = [call EXCEPT ![c] = [under |-> TRUE, todo |-> Peripherals, binding |-> a]]
        /\ aim' = [aim EXCEPT ![c] = [press |-> b, slot |-> slot]]
    BY <1>1 DEF Convert, Converted, MeantSlot
  <2>. HIDE DEF a, slot
  <2>5. TypeOK'
    <3>1. /\ call' \in [Callers -> [under : BOOLEAN, todo : SUBSET Peripherals,
                                     binding : Bindings]]
          /\ aim' \in [Callers -> [press : Bindings, slot : Slots]]
      BY <2>1, <2>2, <2>3, <2>4 DEF TypeOK
    <3>2. half' = half /\ asked' = Nothing /\ lone' \subseteq Callers
      BY <1>1 DEF Convert
    <3>. QED
      BY <3>1, <3>2 DEF TypeOK, Nothing
  <2>6. CallInv'
    <3>. SUFFICES ASSUME NEW d \in Callers, call'[d].under
                  PROVE  /\ Settled(call'[d].binding)
                         /\ Addressed(call'[d].binding.op, call'[d].binding.slot)
                              = Addressed(aim'[d].press.op, aim'[d].slot)
                         /\ ~Unchecked(aim'[d].press) => ~Unchecked(call'[d].binding)
                         /\ aim'[d].press.op \in Opcodes
      BY DEF CallInv, Aimed
    <3>1. CASE d = c
      <4>1. call'[d].binding = a /\ aim'[d].press = b /\ aim'[d].slot = slot
        BY <2>4, <3>1 DEF TypeOK
      <4>2. b.op \in Opcodes
        BY <2>1 DEF Bindings
      <4>. QED
        BY <2>2, <4>1, <4>2
    <3>2. CASE d # c
      <4>1. call'[d] = call[d] /\ aim'[d] = aim[d]
        BY <2>4, <3>2 DEF TypeOK
      <4>. QED
        BY <4>1 DEF CallInv, Aimed
    <3>. QED
      BY <3>1, <3>2
  <2>7. (\A d \in Callers : call[d].todo # {} => call[d].under)'
    BY <2>4 DEF TypeOK
  <2>. QED
    BY <2>5, <2>6, <2>7
<1>2. ASSUME NEW c \in Callers, NEW p \in Peripherals, Forward(c, p) PROVE TypeInv'
  <2>1. /\ call[c].binding \in Bindings /\ Settled(call[c].binding) /\ p \in Halves
        /\ call' = [call EXCEPT ![c].todo = @ \ {p}] /\ UNCHANGED <<lone, aim>>
        /\ Execute(p, call[c].binding)
    BY <1>2 DEF Forward, TypeOK, CallInv, Halves
  <2>2. half' \in [Halves -> HalfStates] /\ asked' \in [Halves -> SUBSET Requests]
    BY <2>1, ExecuteSound
  <2>3. TypeOK'
    BY <2>1, <2>2 DEF TypeOK
  <2>4. \A d \in Callers : /\ call'[d].under = call[d].under
                           /\ call'[d].binding = call[d].binding
                           /\ call'[d].todo \subseteq call[d].todo
    BY <2>1 DEF TypeOK
  <2>. QED
    BY <2>1, <2>3, <2>4 DEF CallInv, Aimed
<1>3. ASSUME NEW c \in Callers, Apply(c) PROVE TypeInv'
  <2>1. /\ call[c].binding \in Bindings /\ Settled(call[c].binding) /\ Central \in Halves
        /\ call' = [call EXCEPT ![c] = NoCall] /\ aim' = [aim EXCEPT ![c] = NoAim]
        /\ lone' = lone \ {c} /\ Execute(Central, call[c].binding)
    BY <1>3 DEF Apply, TypeOK, CallInv, Halves
  <2>2. half' \in [Halves -> HalfStates] /\ asked' \in [Halves -> SUBSET Requests]
    BY <2>1, ExecuteSound
  <2>3. TypeOK'
    BY <2>1, <2>2, DefaultsTyped DEF TypeOK
  <2>4. \A d \in Callers : d # c => call'[d] = call[d] /\ aim'[d] = aim[d]
    BY <2>1 DEF TypeOK
  <2>5. call'[c] = NoCall
    BY <2>1 DEF TypeOK
  <2>6. ~NoCall.under /\ NoCall.todo = {}
    BY DEF NoCall
  <2>. QED
    BY <2>3, <2>4, <2>5, <2>6 DEF CallInv, Aimed
<1>4. ASSUME NEW h \in Togglers, LocalToggle(h) PROVE TypeInv'
  <2>1. h \in Halves /\ half[h] \in HalfStates
    BY HalvesAssumption DEF TypeOK
  <2>2. Toggle(half[h]).half \in HalfStates /\ Toggle(half[h]).asked \subseteq Requests
    BY <2>1 DEF Toggle, Result, HalfStates, Requests
  <2>3. TypeOK'
    BY <1>4, <2>1, <2>2 DEF LocalToggle, TypeOK, Nothing
  <2>. QED
    BY <1>4, <2>3 DEF LocalToggle, CallInv, Aimed
<1>5. ASSUME NEW p \in Peripherals, Reboot(p) PROVE TypeInv'
  <2>1. TypeOK'
    BY <1>5, DefaultsTyped DEF Reboot, TypeOK, Nothing, Halves
  <2>. QED
    BY <1>5, <2>1 DEF Reboot, CallInv, Aimed
<1>6. CASE UNCHANGED vars
  BY <1>6 DEF vars, TypeOK, CallInv, Aimed
<1>. QED
  BY <1>1, <1>2, <1>3, <1>4, <1>5, <1>6 DEF Next

LEMMA TypeInvInvariant == Spec => []TypeInv
<1>1. Init => TypeInv
  BY DefaultsTyped DEF Init, TypeInv, TypeOK, CallInv, Nothing, NoCall
<1>. QED
  BY <1>1, TypeInductive, PTL DEF Spec

(* Every half's settings stay in their ranges, whatever is pressed.        *)
THEOREM CommandsTypeCorrect == Spec => []TypeOK
<1>1. TypeInv => TypeOK
  BY DEF TypeInv
<1>. QED
  BY <1>1, TypeInvInvariant, PTL

(* What the central converted means the same everywhere and is refused     *)
(* nowhere.                                                                *)
THEOREM ConvertedAccepted == Spec => []AcceptedEverywhere
<1>1. TypeInv => AcceptedEverywhere
  BY SettledIsFixed DEF TypeInv, TypeOK, CallInv, AcceptedEverywhere, UnderWay
<1>. QED
  BY <1>1, TypeInvInvariant, PTL

(* A command changes what was addressed at its conversion, and only that.  *)
THEOREM CommandsLand == Spec => OnlyAddressed
<1>. DEFINE Lands == \A c \in Callers : Executes(c) =>
                \A h \in Halves : \A item \in Items \ Aimed(c) :
                    Value(half'[h], item) = Value(half[h], item)
<1>1. TypeInv /\ [Next]_vars => [Lands]_vars
  <2>. SUFFICES ASSUME TypeInv, Next, NEW c \in Callers, Executes(c),
                       NEW h \in Halves, NEW item \in Items \ Aimed(c)
                PROVE  Value(half'[h], item) = Value(half[h], item)
    BY DEF Lands
  <2>. USE DEF TypeInv
  <2>. DEFINE b == call[c].binding
  <2>1. b \in Bindings /\ Settled(b) /\ item \notin Addressed(b.op, b.slot)
    BY DEF Executes, TypeOK, CallInv
  <2>2. ASSUME NEW g \in Halves, Execute(g, b)
        PROVE  Value(half'[h], item) = Value(half[h], item)
    <3>1. half' = [half EXCEPT ![g] = Pressed(half[g], b).half] /\ half[g] \in HalfStates
      BY <2>1, <2>2, ExecuteSound DEF TypeOK
    <3>2. Value(Pressed(half[g], b).half, item) = Value(half[g], item)
      BY <2>1, <3>1, PressedOthers
    <3>. QED
      BY <3>1, <3>2 DEF TypeOK
  <2>3. CASE \E p \in Peripherals : Forward(c, p)
    BY <2>2, <2>3 DEF Forward, Halves
  <2>4. CASE Apply(c)
    BY <2>2, <2>4 DEF Apply, Halves
  <2>5. CASE UNCHANGED half
    BY <2>5
  <2>6. ASSUME NEW d \in Callers, d # c,
               (\E p \in Peripherals : Forward(d, p)) \/ Apply(d)
        PROVE  FALSE
    BY <2>6 DEF Forward, Apply, Executes, TypeOK
  <2>7. ASSUME NEW g \in Togglers, LocalToggle(g) PROVE FALSE
    BY <2>7 DEF LocalToggle, Executes
  <2>8. ASSUME NEW p \in Peripherals, Reboot(p) PROVE FALSE
    BY <2>8 DEF Reboot, Executes
  <2>9. ASSUME NEW d \in Callers, NEW e \in Presses, Convert(d, e) PROVE UNCHANGED half
    BY <2>9 DEF Convert
  <2>. QED
    BY <2>3, <2>4, <2>5, <2>6, <2>7, <2>8, <2>9 DEF Next
<1>. QED
  BY <1>1, TypeInvInvariant, PTL DEF Spec, OnlyAddressed, Lands

(* Every change a command makes to replicated state is announced to the    *)
(* replay, to the picture or the power, to the conditions that look at the *)
(* selection and to the settings that keep it.                             *)
THEOREM CommandsAnnounce == Spec => ChangesAnnounced
<1>. DEFINE Announces == \A c \in Callers : Executes(c) =>
                \A h \in Halves : \A item \in Items :
                    Value(half'[h], item) # Value(half[h], item) =>
                        /\ "replicate" \in asked'[h]
                        /\ (IF item[1] = "on" THEN "power" ELSE "repaint") \in asked'[h]
                        /\ item[1] = "slot" => "control" \in asked'[h]
                        /\ item[1] \in {"on", "brt", "slot"} => "save" \in asked'[h]
<1>1. TypeInv /\ [Next]_vars => [Announces]_vars
  <2>. SUFFICES ASSUME TypeInv, Next, NEW c \in Callers, Executes(c),
                       NEW h \in Halves, NEW item \in Items,
                       Value(half'[h], item) # Value(half[h], item)
                PROVE  Announced(item, asked'[h])
    BY DEF Announces, Announced
  <2>. USE DEF TypeInv
  <2>. DEFINE b == call[c].binding
  <2>1. b \in Bindings /\ Settled(b)
    BY DEF Executes, TypeOK, CallInv
  <2>2. ASSUME NEW g \in Halves, Execute(g, b)
        PROVE  Announced(item, asked'[h])
    <3>1. half' = [half EXCEPT ![g] = Pressed(half[g], b).half] /\ half[g] \in HalfStates
      BY <2>1, <2>2, ExecuteSound DEF TypeOK
    <3>2. h = g
      BY <3>1 DEF TypeOK
    <3>3. Value(Pressed(half[g], b).half, item) # Value(half[g], item)
      BY <3>1, <3>2 DEF TypeOK
    <3>4. Announced(item, Pressed(half[g], b).asked)
      BY <2>1, <3>1, <3>3, PressedAnnounces
    <3>5. asked'[g] = Pressed(half[g], b).asked
      BY <2>2 DEF Execute, Nothing
    <3>. QED
      BY <3>2, <3>4, <3>5
  <2>3. CASE \E p \in Peripherals : Forward(c, p)
    BY <2>2, <2>3 DEF Forward, Halves
  <2>4. CASE Apply(c)
    BY <2>2, <2>4 DEF Apply, Halves
  <2>5. half' # half
    OBVIOUS
  <2>6. ASSUME NEW d \in Callers, d # c,
               (\E p \in Peripherals : Forward(d, p)) \/ Apply(d)
        PROVE  FALSE
    BY <2>6 DEF Forward, Apply, Executes, TypeOK
  <2>7. ASSUME NEW g \in Togglers, LocalToggle(g) PROVE FALSE
    BY <2>7 DEF LocalToggle, Executes
  <2>8. ASSUME NEW p \in Peripherals, Reboot(p) PROVE FALSE
    BY <2>8 DEF Reboot, Executes
  <2>9. ASSUME NEW d \in Callers, NEW e \in Presses, Convert(d, e) PROVE half' = half
    BY <2>9 DEF Convert
  <2>. QED
    BY <2>3, <2>4, <2>5, <2>6, <2>7, <2>8, <2>9 DEF Next
<1>. QED
  BY <1>1, TypeInvInvariant, PTL DEF Spec, ChangesAnnounced, Announces

(* A call that nothing has overlapped is the only one under way, and every *)
(* peripheral it was forwarded to holds what the command gives, from       *)
(* whatever state.                                                         *)
Given(c, h) ==
    \A item \in Aimed(c) :
        Value(half[h], item) = Value(Pressed(Defaults, call[c].binding).half, item)
LoneInv ==
    \A c \in lone :
        /\ UnderWay = {c}
        /\ ~Unchecked(aim[c].press) => \A p \in Peripherals \ call[c].todo : Given(c, p)

LEMMA ExecuteGives ==
    ASSUME TypeInv, NEW c \in Callers, call[c].under, ~Unchecked(aim[c].press),
           NEW h \in Halves, Execute(h, call[c].binding), NEW item \in Aimed(c)
    PROVE  Value(half'[h], item) = Value(Pressed(Defaults, call[c].binding).half, item)
<1>. DEFINE b == call[c].binding
<1>1. b \in Bindings /\ Settled(b) /\ ~Unchecked(b) /\ item \in Addressed(b.op, b.slot)
  BY DEF TypeInv, TypeOK, CallInv
<1>2. half'[h] = Pressed(half[h], b).half /\ half[h] \in HalfStates
  BY <1>1, ExecuteSound DEF TypeInv, TypeOK
<1>. QED
  BY <1>1, <1>2, PressedAgrees, DefaultsAssumption

LEMMA LoneInductive == TypeInv /\ LoneInv /\ [Next]_vars => LoneInv'
<1>. SUFFICES ASSUME TypeInv, LoneInv, [Next]_vars PROVE LoneInv'
  OBVIOUS
<1>1. ASSUME NEW c \in Callers, NEW b \in Presses, Convert(c, b) PROVE LoneInv'
  <2>1. CASE UnderWay = {}
    <3>1. lone' = {c} /\ call'[c].under /\ call'[c].todo = Peripherals
      BY <1>1, <2>1 DEF Convert, TypeInv, TypeOK
    <3>2. \A d \in Callers : d # c => call'[d] = call[d]
      BY <1>1 DEF Convert, TypeInv, TypeOK
    <3>3. UnderWay' = {c}
      BY <2>1, <3>1, <3>2 DEF UnderWay
    <3>. QED
      BY <3>1, <3>3 DEF LoneInv
  <2>2. CASE UnderWay # {}
    BY <1>1, <2>2 DEF Convert, LoneInv
  <2>. QED
    BY <2>1, <2>2
<1>2. ASSUME NEW c \in Callers, NEW p \in Peripherals, Forward(c, p) PROVE LoneInv'
  <2>1. /\ call' = [call EXCEPT ![c].todo = @ \ {p}] /\ UNCHANGED <<lone, aim>>
        /\ Execute(p, call[c].binding) /\ call[c].under /\ p \in Halves
    BY <1>2 DEF Forward, TypeInv, Halves
  <2>2. \A d \in Callers : /\ call'[d].under = call[d].under
                           /\ call'[d].binding = call[d].binding
                           /\ d # c => call'[d] = call[d]
    BY <2>1 DEF TypeInv, TypeOK
  <2>3. UnderWay' = UnderWay /\ c \in UnderWay
    BY <2>1, <2>2 DEF UnderWay
  <2>4. ASSUME NEW d \in lone', ~Unchecked(aim'[d].press),
               NEW q \in Peripherals \ call'[d].todo
        PROVE  Given(d, q)'
    <3>1. d = c
      BY <2>1, <2>3, <2>4 DEF LoneInv
    <3>2. Aimed(c)' = Aimed(c) /\ call'[c].binding = call[c].binding
      BY <2>1, <2>2 DEF Aimed
    <3>3. CASE q = p
      BY <2>1, <2>4, <3>1, <3>2, <3>3, ExecuteGives DEF Given
    <3>4. CASE q # p
      <4>1. half'[q] = half[q]
        BY <2>1, <3>4 DEF Execute, TypeInv, TypeOK, Halves
      <4>2. q \in Peripherals \ call[c].todo
        BY <2>1, <2>4, <3>1, <3>4 DEF TypeInv, TypeOK
      <4>3. Given(c, q)
        BY <2>1, <2>4, <3>1, <4>2 DEF LoneInv
      <4>. QED
        BY <3>1, <3>2, <4>1, <4>3 DEF Given
    <3>. QED
      BY <3>3, <3>4
  <2>. QED
    BY <2>1, <2>3, <2>4 DEF LoneInv
<1>3. ASSUME NEW c \in Callers, Apply(c) PROVE LoneInv'
  <2>1. c \in UnderWay /\ lone' = lone \ {c}
    BY <1>3 DEF Apply, UnderWay
  <2>2. lone' = {}
    BY <2>1 DEF LoneInv
  <2>. QED
    BY <2>2 DEF LoneInv
<1>4. ASSUME NEW h \in Togglers, LocalToggle(h) PROVE LoneInv'
  BY <1>4 DEF LocalToggle, LoneInv
<1>5. ASSUME NEW p \in Peripherals, Reboot(p) PROVE LoneInv'
  BY <1>5 DEF Reboot, LoneInv
<1>6. CASE UNCHANGED vars
  BY <1>6 DEF vars, LoneInv, UnderWay, Given, Aimed
<1>. QED
  BY <1>1, <1>2, <1>3, <1>4, <1>5, <1>6 DEF Next

(* A call that nothing overlaps leaves all halves with the same value of   *)
(* what it addressed.                                                      *)
THEOREM LoneCommandsAgree == Spec => LoneCommandAgrees
<1>. DEFINE Agrees == \A c \in lone :
                Executes(c) /\ ~call'[c].under /\ ~Unchecked(aim[c].press) =>
                    \A p \in Peripherals : \A item \in Aimed(c) :
                        Value(half'[p], item) = Value(half'[Central], item)
<1>1. TypeInv /\ LoneInv /\ [Next]_vars => [Agrees]_vars
  <2>. SUFFICES ASSUME TypeInv, LoneInv, Next, NEW c \in lone, Executes(c), ~call'[c].under,
                       ~Unchecked(aim[c].press),
                       NEW p \in Peripherals, NEW item \in Aimed(c)
                PROVE  Value(half'[p], item) = Value(half'[Central], item)
    BY DEF Agrees
  <2>1. c \in Callers /\ call[c].under
    BY DEF TypeInv, TypeOK, Executes
  <2>2. Apply(c)
    <3>1. ASSUME NEW d \in Callers, NEW b \in Presses, Convert(d, b) PROVE FALSE
      BY <2>1, <3>1 DEF Convert, TypeInv, TypeOK
    <3>2. ASSUME NEW d \in Callers, NEW q \in Peripherals, Forward(d, q) PROVE FALSE
      BY <2>1, <3>2 DEF Forward, TypeInv, TypeOK
    <3>3. ASSUME NEW d \in Callers, Apply(d), d # c PROVE FALSE
      BY <2>1, <3>3 DEF Apply, TypeInv, TypeOK
    <3>4. ASSUME NEW g \in Togglers, LocalToggle(g) PROVE FALSE
      BY <3>4 DEF LocalToggle, Executes
    <3>5. ASSUME NEW q \in Peripherals, Reboot(q) PROVE FALSE
      BY <3>5 DEF Reboot, Executes
    <3>. QED
      BY <3>1, <3>2, <3>3, <3>4, <3>5 DEF Next
  <2>3. /\ Execute(Central, call[c].binding) /\ call[c].todo = {} /\ Central \in Halves
        /\ p \in Halves /\ p # Central
    BY <2>2, HalvesAssumption DEF Apply, Halves
  <2>4. Value(half'[Central], item) = Value(Pressed(Defaults, call[c].binding).half, item)
    BY <2>1, <2>3, ExecuteGives
  <2>5. Given(c, p)
    BY <2>3 DEF LoneInv
  <2>6. half'[p] = half[p]
    BY <2>3 DEF Execute, TypeInv, TypeOK
  <2>. QED
    BY <2>4, <2>5, <2>6 DEF Given
<1>2. Init => LoneInv
  BY DEF Init, LoneInv
<1>. QED
  BY <1>1, <1>2, TypeInvInvariant, LoneInductive, PTL DEF Spec, LoneCommandAgrees, Agrees

=============================================================================
