------------------------------ MODULE Settings ------------------------------
(***************************************************************************)
(* Persistence (src/rgb_settings.c, src/rgb_control_start.c): a whole-     *)
(* state snapshot is stored some time after it was asked for, by a         *)
(* delayable work item on the system work queue, and staged and restored   *)
(* when Zephyr loads its settings, at boot and whenever it is asked to.    *)
(* The flash holds bytes, which any firmware may have written.             *)
(*                                                                         *)
(* The matrix mutex makes each operation a single step; the storage I/O is *)
(* done without it.  A snapshot is the global state (user intent and       *)
(* brightness) and a slot for each selector.  Time is kept as far as the   *)
(* code compares it: the deadline of a pending save is ahead or passed.    *)
(***************************************************************************)
EXTENDS Persist

CONSTANTS
    Clients,      \* threads that press RGB behaviors
    Choices,      \* the user intents and brightnesses that are set
    InitialGlobal,
    NumSelectors, \* KP_RGB_SELECTOR_COUNT
    NumSlots,     \* effect_count, the same for every selector
    Initial,      \* initial_effect of each selector, which may be no slot
    Foreign       \* what other firmware may have left in the flash

Selectors == 1..NumSelectors
Parts == 0..NumSelectors \* what a reset restores: a selector, or 0, the global state

Snapshots == [global : Globals, slots : [Selectors -> Words]]
Nothing == [absent |-> TRUE]
NoRecord == <<>>

ASSUME SlotsAssumption ==
    NumSelectors \in Words /\ NumSlots \in Nat \ {0} /\ NumSlots <= Base * Base
ASSUME InitialAssumption ==
    /\ Choices \subseteq Globals /\ InitialGlobal \in Globals
    /\ Initial \in [Selectors -> Words]
ASSUME ForeignAssumption == Foreign \subseteq Seq(Bytes)

VARIABLES
    \* guarded by the matrix mutex
    current, started, staged, savePending, deadline,
    \* the save work item: its delay, its submission; the handler's locals
    timer, queued, wpc, saving,
    \* the other threads, Zephyr's settings and the flash
    requesting, loading, flash,
    \* history: see Requested and resets
    since, resets

liveVars == <<current, started, staged>>
saveVars == <<savePending, deadline, timer, queued>>
workVars == <<wpc, saving>>
vars == <<liveVars, saveVars, workVars, requesting, loading, flash, since, resets>>

TypeOK ==
    /\ current \in Snapshots /\ started \in BOOLEAN
    /\ staged \in Snapshots \cup {Nothing}
    /\ savePending \in BOOLEAN /\ deadline \in {"ahead", "passed"}
    /\ timer \in BOOLEAN /\ queued \in BOOLEAN
    /\ wpc \in {"idle", "run", "write"} /\ saving \in Snapshots \cup {Nothing}
    /\ wpc = "write" => saving \in Snapshots
    /\ requesting \subseteq Clients /\ loading \in BOOLEAN
    /\ flash \in Seq(Bytes)
    /\ since \subseteq Snapshots
    /\ resets \subseteq Parts

(* kp_initial_slot() *)
InitialSlot(s) == IF Initial[s] < NumSlots THEN Initial[s] ELSE 0
Defaults == [global |-> InitialGlobal, slots |-> Initial]

Init ==
    /\ current = Defaults /\ started = FALSE /\ staged = Nothing
    /\ savePending = FALSE /\ deadline = "passed"
    /\ timer = FALSE /\ queued = FALSE
    /\ wpc = "idle" /\ saving = Nothing
    /\ requesting = {} /\ loading = FALSE
    /\ since = {} /\ resets = {}
    /\ flash \in Foreign \cup {NoRecord}

-----------------------------------------------------------------------------
(* History.  since holds the states the engine has been in since the last  *)
(* save request; it is empty when no request waits to be served.  resets   *)
(* names what has been reset since the staged record was loaded.           *)
Remembered == IF since = {} THEN {} ELSE since \cup {current'}
Requested == {current'}

(* kp_request_save_locked(): k_work_reschedule() replaces a running delay; *)
(* without one it submits at once.                                         *)
RequestSave(when) ==
    /\ savePending' = TRUE
    /\ deadline' = when
    /\ timer' = (when = "ahead")
    /\ queued' = (queued \/ when = "passed")
    /\ since' = Requested

-----------------------------------------------------------------------------
(* Operations of the other threads *)

(* Intent or brightness is changed by an API call, or by a behavior, which *)
(* asks for a save once it has released the mutex (kp_rgb_save_state).     *)
SetGlobal(c, g, save) ==
    /\ c \notin requesting
    /\ current' = [current EXCEPT !.global = g]
    /\ requesting' = IF save THEN requesting \cup {c} ELSE requesting
    /\ since' = Remembered
    /\ UNCHANGED <<started, staged, saveVars, workVars, loading, flash, resets>>

SaveState(c) ==
    /\ c \in requesting
    /\ requesting' = requesting \ {c}
    /\ UNCHANGED <<liveVars, workVars, loading, flash, resets>>
    /\ RequestSave("ahead")

(* A selector command selects and asks for a save under the mutex. *)
SelectSlot(s, slot) ==
    /\ started
    /\ current' = [current EXCEPT !.slots[s] = slot]
    /\ RequestSave("ahead")
    /\ UNCHANGED <<started, staged, workVars, requesting, loading, flash, resets>>

(* So does its reset, which also reaches a staged record. *)
StagedAfterResetBug(s) == staged
StagedAfterReset(s) ==
    IF staged = Nothing THEN Nothing
    ELSE [staged EXCEPT !.slots[s] = InitialSlot(s)]

ResetSelector(s) ==
    /\ started
    /\ current' = [current EXCEPT !.slots[s] = InitialSlot(s)]
    /\ staged' = StagedAfterReset(s)
    /\ resets' = resets \cup {s}
    /\ RequestSave("ahead")
    /\ UNCHANGED <<started, workVars, requesting, loading, flash>>

(* kp_rgb_reset_state() drops a staged record and saves without delay.     *)
(* Before startup the configured slots are not resolved yet.               *)
ResetState ==
    /\ current' = [Defaults EXCEPT !.slots =
                      IF started THEN [s \in Selectors |-> InitialSlot(s)] ELSE @]
    /\ staged' = Nothing
    /\ resets' = Parts
    /\ RequestSave("passed")
    /\ UNCHANGED <<started, workVars, requesting, loading, flash>>

-----------------------------------------------------------------------------
(* Loading.  Zephyr holds its settings lock from the first record it loads *)
(* to the last commit, so no snapshot is written in between.               *)

(* kp_rgb_load_cb(): stages a readable record, of which it has room for    *)
(* its own number of slots.  Those it lacks are defaults.                  *)
Prefix ==
    SubSeq(flash, 1, IF Len(flash) < Size(NumSelectors) THEN Len(flash)
                     ELSE Size(NumSelectors))
LengthValid ==
    /\ HeaderSize <= Len(flash) /\ (Len(flash) - HeaderSize) % 2 = 0
    /\ (Len(flash) - HeaderSize) \div 2 < Base * Base
Readable == LengthValid /\ Accepts(Prefix, Len(flash), NumSelectors)
Decoded ==
    [global |-> GlobalIn(Prefix),
     slots |-> [s \in Selectors |-> IF s <= Count(Prefix) THEN SlotIn(Prefix, s)
                                    ELSE InitialSlot(s)]]

(* Zephyr skips a record it could not read, or that was refused. *)
Load ==
    /\ ~loading
    /\ loading' = TRUE
    /\ \/ Readable /\ staged' = Decoded /\ resets' = {}
       \/ UNCHANGED <<staged, resets>>
    /\ UNCHANGED <<current, started, saveVars, workVars, requesting, flash, since>>

(* kp_rgb_settings_restore_locked() *)
RestoredSlotBug(s) == staged.slots[s]
RestoredSlot(s) == IF staged.slots[s] < NumSlots THEN staged.slots[s] ELSE InitialSlot(s)
Restored ==
    IF staged = Nothing THEN current
    ELSE [global |-> staged.global, slots |-> [s \in Selectors |-> RestoredSlot(s)]]

(* kp_rgb_selector_resolve_locked() *)
Resolved(slot) == IF slot < NumSlots THEN slot ELSE 0

(* kp_rgb_control_commit() *)
Commit ==
    /\ loading
    /\ loading' = FALSE
    /\ current' = IF started THEN Restored
                  ELSE [Restored EXCEPT !.slots =
                           [s \in Selectors |-> Resolved(Restored.slots[s])]]
    /\ started' = TRUE
    /\ staged' = Nothing
    /\ since' = Remembered
    /\ resets' = {}
    /\ UNCHANGED <<saveVars, workVars, requesting, flash>>

-----------------------------------------------------------------------------
(* kp_rgb_save_work_handler() on the system work queue *)
TakeWork ==
    /\ wpc = "idle" /\ queued
    /\ queued' = FALSE
    /\ wpc' = "run"
    /\ UNCHANGED <<liveVars, savePending, deadline, timer, saving, requesting, loading,
                   flash, since, resets>>

NothingToSave ==
    /\ wpc = "run" /\ ~savePending
    /\ wpc' = "idle"
    /\ UNCHANGED <<liveVars, saveVars, saving, requesting, loading, flash, since, resets>>

TimerTooEarlyBug == timer
TimerTooEarly == TRUE

TooEarly ==
    /\ wpc = "run" /\ savePending /\ deadline = "ahead"
    /\ timer' = TimerTooEarly
    /\ wpc' = "idle"
    /\ UNCHANGED <<liveVars, savePending, deadline, queued, saving, requesting, loading,
                   flash, since, resets>>

(* The request is consumed with the snapshot, before the mutex is released. *)
Capture ==
    /\ wpc = "run" /\ savePending /\ deadline = "passed"
    /\ savePending' = FALSE
    /\ saving' = current
    /\ wpc' = "write"
    /\ UNCHANGED <<liveVars, deadline, timer, queued, requesting, loading, flash, since,
                   resets>>

(* settings_save_one(): stores the record or fails; the completion leaves  *)
(* newer requests alone.  A request that failed has to be made again.      *)
PendingAfterWriteBug == FALSE
PendingAfterWrite == savePending

Write ==
    /\ wpc = "write" /\ ~loading
    /\ savePending' = PendingAfterWrite
    /\ \/ /\ flash' = Encoded(saving)
          /\ since' = IF saving \in since THEN {} ELSE since
       \/ /\ UNCHANGED flash
          /\ since' = IF savePending THEN since ELSE {}
    /\ saving' = Nothing
    /\ wpc' = "idle"
    /\ UNCHANGED <<liveVars, deadline, timer, queued, requesting, loading, resets>>

-----------------------------------------------------------------------------
(* The deadline passes; the delay, which follows it but for rounding, ends. *)
DeadlinePasses ==
    /\ deadline = "ahead"
    /\ deadline' = "passed"
    /\ UNCHANGED <<liveVars, savePending, timer, queued, workVars, requesting, loading,
                   flash, since, resets>>

TimerExpires ==
    /\ timer
    /\ timer' = FALSE
    /\ queued' = TRUE
    /\ UNCHANGED <<liveVars, savePending, deadline, workVars, requesting, loading, flash,
                   since, resets>>

(* A reset or loss of power at any time; the backend keeps the old record  *)
(* or the one being written.                                               *)
Restart ==
    /\ current' = Defaults /\ started' = FALSE /\ staged' = Nothing
    /\ savePending' = FALSE /\ deadline' = "passed"
    /\ timer' = FALSE /\ queued' = FALSE
    /\ wpc' = "idle" /\ saving' = Nothing
    /\ requesting' = {} /\ loading' = FALSE
    /\ since' = {} /\ resets' = {}
    /\ flash' \in {flash} \cup (IF wpc = "write" THEN {Encoded(saving)} ELSE {})

Operation ==
    \/ \E c \in Clients, g \in Choices, save \in BOOLEAN : SetGlobal(c, g, save)
    \/ \E s \in Selectors : \/ ResetSelector(s)
                            \/ \E slot \in 0..(NumSlots - 1) : SelectSlot(s, slot)
    \/ ResetState
    \/ Load
Handler == TakeWork \/ NothingToSave \/ TooEarly \/ Capture \/ Write

Next == \/ Operation \/ \E c \in Clients : SaveState(c)
        \/ Commit \/ Handler \/ DeadlinePasses \/ TimerExpires \/ Restart

(* The work queue, the clock and a thread or a load under way go on. *)
Fairness == /\ WF_vars(Handler) /\ WF_vars(DeadlinePasses) /\ WF_vars(TimerExpires)
            /\ WF_vars(Commit) /\ \A c \in Clients : WF_vars(SaveState(c))

Spec == Init /\ [][Next]_vars
FairSpec == Spec /\ Fairness

-----------------------------------------------------------------------------
(* Properties *)

(* A pending save has its work item submitted, delayed or running.         *)
SaveArmed == savePending => timer \/ queued \/ wpc = "run"

(* A save asked for is not forgotten: until a write has stored a state the *)
(* engine was in at or after the last request, or that write has failed,   *)
(* such a write is pending or under way ("completion must preserve newer   *)
(* requests", whatever was asked for during the unlocked I/O).             *)
SaveOwed == since # {} => savePending \/ (wpc = "write" /\ saving \in since)

(* A reset is not undone by a record loaded before it.                     *)
ResetStands ==
    [][Commit =>
         /\ 0 \in resets => current'.global = current.global
         /\ \A s \in resets \cap Selectors :
               current'.slots[s] \in {Resolved(current.slots[s]), InitialSlot(s)}]_vars

(* After startup a selector's slot exists, whatever was configured, stored *)
(* by another layout, staged or reset (docs: missing or invalid selections *)
(* use configured defaults).                                               *)
RetainedValid ==
    started => \A s \in Selectors : current.slots[s] < NumSlots

(* Loading takes exactly what an encoder wrote, and takes it as what was   *)
(* encoded: no record that is truncated, too long, of another version or   *)
(* out of range, whatever its count says, and a complete one with fewer or *)
(* more slots than there are selectors.                                    *)
Stored == UNION {[global : Globals, slots : [1..n -> Words]] :
                    n \in {m \in 0..Len(flash) : Size(m) = Len(flash)}}
Completed(record) ==
    [global |-> record.global,
     slots |-> [s \in Selectors |-> IF s <= Len(record.slots) THEN record.slots[s]
                                    ELSE InitialSlot(s)]]
Readings == {<<Encoded(record), Completed(record)>> : record \in Stored}
Encodings == {Encoded(record) : record \in Stored}
RecordsRead ==
    IF Readable THEN <<flash, Decoded>> \in Readings ELSE flash \notin Encodings

(* Once nobody asks for anything and the power stays on, saves come to an  *)
(* end: the snapshot is stored, or its write has failed.                   *)
SavesSettle == <>[][~Operation /\ ~Restart]_vars => <>[](~savePending /\ since = {})

=============================================================================
