# Verification of the RGB matrix engine

TLA+ models of `src/src/` (the RGB matrix engine for ZMK keyboards), model-checked
with TLC on small instances, with theorems checked by TLAPS for every value of the
constants. Paths below are relative to the repository root; the engine's C files
are in `src/`, and PROJECT.json's `map` names the lines every definition stands for.

## 1. The system

The engine lights a keyboard. Key events, conditions (layers, caps lock, battery,
endpoints, latches, the selected effect) and behaviors bound to keys change what is
shown; a low-priority work queue turns the present state into frames and drives
the LED strip; on a split keyboard the central half keeps its peripherals in step.

| Component | Code | State it keeps | Operations | Correct when |
| --- | --- | --- | --- | --- |
| Coordinator | `rgb_matrix.c` | request bits, control epochs, work item, next frame, scene | request, start, the handler, finish | no request, input or frame is lost; scenes only under fresh gates |
| Output policy | `rgb_matrix.c` | user intent, activity, inhibition, readiness, permission, pending blackout | on/off/toggle, inhibit, activity listener, reconcile | permission is the policy's answer; a blocked strip goes dark; SLEEP is dark at once |
| Key event ring | `rgb_matrix.c` | ring, head, tail, drop count | push, pop, purge, available | bounded, nothing stranded, nothing survives a blocked period |
| Conditions | `rgb_conditions.c`, `conditions/*` | providers' values, live and fault marks | require, sample, invalidate, run | the published values are those of the providers' present state, or another evaluation comes |
| Overlay gates | `rgb_overlay_state.c` | gate words, local and received | refresh, set word, dispatch | gates follow conditions; central words override |
| Triggers | `rgb_triggers.c` | previous value, disabled | evaluate | every change of a condition runs the right actions once |
| Scene and instances | `rgb_matrix.c`, `rgb_instance.c` | wanted, active, initialised, animating, reset pending | lifecycle pass, deliver, render | reset before activation, input and rendering only while active |
| Selectors | `rgb_selector.c`, `overlays/overlay.c` | retained slot, live slot, reset requests | convert, dispatch, select, reset, reconcile | the live child is the selected one when rendered; resets reach every child |
| Replication | `rgb_replication.c` | generation, calls outstanding, exceptional group, repair epoch | begin, finish, changed | a replay is declared complete only when it is |
| Split sync | `rgb_split_sync.c` | per-source cursor, deadlines, slot cursor | poll, repair, attempt, rearm | every healthy peripheral converges; nobody is starved |
| Settings | `rgb_settings.c`, `rgb_persist.c`, `rgb_control_start.c` | staged load, pending save, deadline | load, commit, request, save, reset | what was asked to be saved last is what is stored |
| Behaviors | `behavior_rgb_matrix.c`, `behaviors/*` | - | convert, press, release | relative commands become absolute once, on the central |
| Effects | `effects/*` | pending hits, levels, remainders, triggers, trials' phase | render, on_event, reset | what is shown depends on presses and times, not on when frames came |
| Overlays, colour | `overlays/*`, `rgb_color.c`, `rgb_utils.c` | - | render | arithmetic stays in range |
| Composite strip | `drivers/led_strip_composite.c` | - | update | every strip gets its own pixels though others fail |

How they interact. Any thread may call `kp_rgb_coordinator_request()` (directly,
through `zmk_rgb_matrix_flush()` or `kp_rgb_condition_invalidate()`): it sets bits
and schedules the work item unless the handler is running. The handler evaluates
conditions (unlocked), publishes gates (under the matrix mutex), runs trigger actions
(unlocked: they are behavior calls like anybody's), then takes the mutex, delivers
a blackout, admits a scene if control is still fresh, and reschedules itself.
Behaviors, settings and listeners change state under the mutex and call back into the
coordinator. GLOBAL behaviors pass through ZMK, which forwards the converted
command to the peripherals before applying it locally; the replication counters bracket
that. The sync work item shares the RGB work queue and reads state under the mutex.

What is hard. Requests arriving at any point of a running handler; evaluation with no
lock held; two locks and one atomic read outside both; blackouts against a queue
that may be busy or starved; a synchronous blackout from another thread;
overlapping calls forwarded in one order and applied in another; peripherals that
come, go, refuse and are switched; a handler that rearms itself while being woken.
PROJECT.json's `hazards` lists each at its line with the properties that guard it.

## 2. Modules

| Module | Models | Checked by | Proved in |
| --- | --- | --- | --- |
| `Coordinator` | coordinator, output policy, ring, one condition gating one overlay | `MCCoordinator`, two configurations | `CoordinatorProofs` |
| `EventQueue` | what the key event ring promises: a bounded queue | refined by `EventRing` | `FramesProofs` |
| `EventRing` | the ring: array, head, tail, drop count, purge | `MCFrames` | `FramesProofs` |
| `Effects` | one frame, one event and one reset of every effect that keeps data | `MCFrames` | `FramesProofs` |
| `Promises` | what the effects promise, without frames | `MCFrames` | `FramesProofs` |
| `Frames` | from a key press through the ring and a pass to a frame and the next deadline | `MCFrames` | `FramesProofs` |
| `SplitSync` | replication, split sync, ZMK's forwarding, the peripherals' state | `MCSplitSync`, two configurations | `SplitSyncProofs` |
| `SyncWalk` | the replay's nested cursor, in step with `SplitSync` | `MCSyncWalk` | `SplitSyncProofs` |
| `Persist` | the stored record, byte by byte | `MCSettings` | `SettingsProofs` |
| `Settings` | staged load, commit, debounced save, resets, the flash, power loss | `MCSettings` | `SettingsProofs` |
| `Composite` | the update of a strip that is several | `MCScene` | `SceneProofs` |
| `Scene` | overlays' lifecycle, occlusion, input, animation, a composition's children, the strips | `MCScene` | `SceneProofs` |
| `Conditions` | initialisation and sampling of conditions, combinators, gates, triggers | `MCConditions` | `ConditionsProofs` |
| `Preference` | the endpoint provider's delayed look at the preferred transport | `MCPreference` | `ProviderProofs` |
| `Commands` | conversion and execution of every bound command on each half | `MCCommands` | `CommandsProofs` |
| `Latch` | the latch condition and its toggle on two halves | `MCLatch` | `ProviderProofs` |

Definitions named `...Bug` stand before the definition they are a plausible
mistake in; nothing uses them but the mutation table of PROJECT.json, which
replaces the definition by its mistake and expects the named property to fail.

### 2.1 Coordinator

State. `reasons`, `enabled`, `evaluated`, `queued`, `timer`, `black`, `frame`,
`ring`, `allowed`, `userOn`, `activity`, `inhibited`, `ready` are the static variables
of `rgb_matrix.c` (`kp_rgb_reasons`, ...). Control epochs are compared for equality
and only grow, so `evaluatedCurrent` and `snapshotCurrent` keep the two comparisons
the code makes. A frame deadline is absent, waiting or due; the ring is its number of
events. `level` stands for every renderer parameter that a change of repaints
(brightness, colour, period, battery charge, selected effect), `source` for the
providers' state, `gate` for a condition-gated overlay, and `strip` for what was last
submitted: unknown (also after a failed update), dark, or the scene of a given
gate, level and brightness cap.

Atomicity. A spinlock section is one step. The matrix mutex spans steps:
`holding` are the clients between their change and their request, `wpc` is
`"scene"` or `"finish"` while the handler has it. The handler is one action per
critical section: `StartPass`, `SampleCondition`, `RefreshGates`,
`PublishEvaluation`, `AdmitScene`, `DeliverInput`, `PaintScene`, `FinishPass`. A locked
operation's requests are merged, because nothing that consumes REPAINT, INPUT or
OUTPUT can run while it holds the mutex. Trigger actions and gate behaviors run on the
handler's thread between two of its actions and are interleaved there as a client's
operations. The activity listener adopts the state ZMK is in when it runs, which may
not be the event's: `ZmkActivity` and `ActivityListener` are separate steps.

Assumed: `max_brightness` is not zero (`IdleCap` is named relative to it), and
the strip device, when initialised, stays. Left out here: the ring's array and drop
counter (`EventRing`), the pass seen from its inside and its times (`Frames`), the order of
the overlays' callbacks (`Scene`), logging and the pixels.

| Run | Question | Instance |
| --- | --- | --- |
| `coordinator` | do operations racing the handler ever lose a request, strand input or an animation, publish a stale evaluation, leave a stale picture, or leave a blocked strip lit with no blackout owed? | every operation but activity changes, 2 threads, 2 levels, ring of 3 (two events), failing strip |
| `coordinator_live` | is the strip dark on SLEEP, a blackout delivered under endless invalidations, and does the engine settle? | 1 thread that also changes activity, idle cap low, failing strip, every fairness condition below |

Bounds. Two threads suffice for one to be inside an operation (holding the mutex, or
between an unlocked change and its request) while the other begins one: an operation
is two steps and waits for nobody but the mutex's holder. Two levels let a paint be
stale. A ring of three holds two events, enough to be full, half drained and refilled
during a drain; nothing in the code depends on its length. Nothing counts without
bound, so each run is exhaustive for its operations. Activity changes multiply the
states; the listener races the handler only, which one thread shows. The theorems have them all.

Fairness (`coordinator_live`). Zephyr's work queue thread, its timers and a thread
inside an operation run on (WF). `k_mutex` hands itself to a waiter when unlocked, so
who waits for it gets it although others keep taking it (SF on the handler's and the
activity listener's lock steps). Nobody is obliged to begin an operation.

### 2.2 SplitSync

State. `central` is the replicated state, a function on `Items`: the order of a
replay (brightness, power, gate words, colours, periods, selections). `replica[p]` is
what source `p` holds after the commands accepted for it. `call[c]` is a thread's
invocation: forwarding to each source in turn, then applying, then finishing;
`kp_rgb_outstanding` is how many there are. `captured[p]` says whether the generation
captured by `p`'s replay is the present one, `repairOwed` whether
`consumed_repair_epoch` differs from `repair_epoch`. A deadline is ahead or passed.
`pos[p]` is the replay's cursor; one past the last item marks the completion test.

Atomicity. Conversion (`Begin`), each transport send, the local callback (`Apply`)
and `Finish` are separate steps of a call. The handler is one action per critical
section or send: `StartHandler` (poll), `ConsumeRepair`, the choice of a slot with the
sampling of the state to send (`ReadState`), the send, the completion test, `Rearm`.
A finishing call's wake is part of `Finish`: it only submits the work item, which the
handler may have taken before and will take again.

Environment. `Irregular` names what may go wrong in a run: `local` (replicated
state changed without a call), `reject` (the local callback fails after
forwarding), `drop` (a forwarded command is lost unnoticed), `refuse` (a replayed
one is refused), `query` (the source query fails), `switch` (another transport), `blip`
(a source reconnects before its loss was observed). The last is the documented limit
"short disconnects may go unobserved" (`docs/architecture-decisions.md`): no run and no
theorem about replays includes it. `local` and `drop` are excluded from the agreement
runs for the same reason: "isolated successful calls and local-only changes do not
start idle repair" and "live enqueue errors ... may go unobserved".

Not modelled here: the generation's and counter's overflow, an abandoned or reused
invocation marker (excluded by contract in the docs), what a clock correction carries
(`Frames`).

`SyncWalk` replaces the count `pos[p]` by what the code keeps: a phase, a gate word, a selector and
a member of it (`walk[p]`), with the resets of the cursor at exactly the places where the code has
them. Its steps are `SplitSync`'s, so that the two run along: `WalkInStep` says that the
cursor's next command is the one of `Order`, the flat list of a layout's commands. `walk` keeps
its old place when a replay is over, as in the code, which is what a forgotten reset would
show.

| Run | Question | Instance |
| --- | --- | --- |
| `sync_faults` | is a replay declared complete only if it is, under local changes, transport switches, refusals, lost commands and failing queries? | 1 thread, 1 source, 2 items |
| `sync_live` | do an idle central and its idle peripherals agree, whatever groups of overlapping and failing calls came before; is the work item ever lost; does a peripheral converge once calls and reconnections stop? | 2 threads, 1 source, 1 item |
| `sync_walk` | does the nested cursor send each command of a layout once and in order, after whatever ended the replay before; does a peripheral that refuses everything starve another's replay, or anybody's clock? | 2 sources, one broken; layouts of 9 commands: two selectors of an effect each, seven gate words and no selector, two words and a selector of two effects |

Bounds. Sources interact only through the slot cursor and the pace, so one source
is enough for soundness and two for starvation. Two items let a command be sent before
and another after a change. That a replay is complete also when several threads' calls race it
is proved, for any number of them. Two threads overlap; a third adds no new group, since only
"first", "overlapping" and "last of the group" are told apart. What the items hold does not
matter to the cursor: one value and no call is enough for `sync_walk`, in which replays are given up
by disconnections at any command.

Fairness (`sync_live`, `sync_walk`): the work queue, its timers, deadlines, startup
and a call under way go on (WF); connecting, disconnecting and beginning a call are
never forced. `Converges` speaks of behaviours in which the environment is
eventually quiet, for "continuous mutation can delay convergence"; `PeersServed` of a source that
stays connected.

### 2.3 Settings

State. `current` is what a snapshot holds (user intent and brightness as one value,
a slot per selector), `started` whether control has started, `staged` is
`kp_load_*`, `savePending` and `deadline` the pending save, `timer` and `queued` the
delayed work item, `wpc` and `saving` its handler and the snapshot it writes, `flash`
the stored bytes, which at first may be another firmware's (`Foreign`). `since` (history) holds the
snapshots the engine has been in since the last request that no write has served,
`resets` the parts reset since the record now staged was read.

Atomicity. The matrix mutex makes every operation one step; the handler's capture and
its write are two, because the write holds no lock. A load stages in one step and is
committed in another, with operations between; Zephyr's settings lock keeps a write
from falling between. A timer may expire before the deadline, which is what a
deadline that was moved looks like to the handler. `Restart` may happen at any point.

`Persist` is the codec: `Encoded` writes the record (a header of six bytes and a little-endian word
per selector), `Accepts` is the decoder's tests on a prefix of it, which is all that fits a buffer made for
this firmware's selectors (`Prefix`). `RecordsRead` compares what is restored with what was written,
also of a firmware with one selector more, and with nothing if the bytes are no record.

Left out: encoding errors (excluded by the types the encoder is given), and effects' colours and
periods, which are not persisted.

| Run | Question | Instance |
| --- | --- | --- |
| `settings` | do loads, resets, selections and saves racing each other, the unlocked write and a loss of power ever drop a requested save, undo a reset or leave a selector without an effect; is a record read as it was written or refused; do saves come to an end? | 1 thread, 1 selector (configured with no valid slot); bytes of base 3; records of no, one and two selectors, of invalid slots, damaged in each byte of the header, cut off and too long |

Bounds. A second thread adds nothing while every operation is a step under the
mutex. Selectors are
restored, reset and saved independently of one another: one is enough, and the theorems are for
any number. A byte of three values keeps the number of damaged records small and has words of two
bytes; the brightness then ends at 1. The theorems are for any base. `NumSlots` itself stands for every slot that does not exist. Fairness: work
queue, clock, commit and a thread inside its operation go on.

### 2.4 Scene

State. `scene[o]` is an overlay's runtime and, for a composition, its selector's slot,
its live child, its children's pending resets and its own requested reset. A participant
(`part`) is the engine's `initialized`, `active`, `animating` and the callbacks' side: what it
was last told (`known`), whether a reset is owed to it (`owed`), whether its last frame asked
for another (`running`) and which promises of `include/zmk/rgb_matrix.h` were broken towards
it (`breaches`). The invariants are that none ever is. `strips` is what each child of the composite
strip holds: what was seen when it was last written, or unspecified after it failed. A frame writes
them with `Composite`'s `CompositeUpdate`, any of them failing.

Atomicity. The pass holds the mutex, and each of its loops (reset, activate, input,
render) is one simultaneous update of all overlays, which do not touch one another.
Operations of other threads fall between passes. `late` says whether time has passed
since the last frame, once for a pass, as all participants get the same `now`. Input is
only taken while output is allowed, as the ring is purged otherwise (`Coordinator`).

| Run | Question | Instance |
| --- | --- | --- |
| `scene` | are participants reset, activated, fed and drawn in the promised order, through any selections and resets, also while hidden; does each strip show its part of what should be seen though others fail, and are exactly the visible overlays active and their animations kept? | 3 overlays, two covering, one of these a selector of 2 effects; strips of 1 and 2 LEDs |

Bounds. Overlays interact through the topmost covering one: three let one be hidden, one
cover and one lie on top. Two slots tell live from selected. Two strips of different lengths show an
offset that is not moved on past a strip that failed, and one taken from the wrong length.

### 2.5 Conditions

State. The configuration (dependencies, kinds, defective providers, central-only sources,
roots) is chosen in `Init`, so a run covers every configuration of its size. `live`,
`fault` and `value` are the registrations'; `source` what a provider would return now,
`owing` the changes whose owner has not yet invalidated; `gate`, `word`, `sent` the overlays'
words; `disabled`, `previous` the triggers', and `ran` (history) the list that ran last.

Atomicity. Initialisation, each condition's sample, the refresh, the dispatch and each
trigger are separate steps; sources change and invalidate between any two, and a
trigger's behaviors may do so themselves. Epochs are in `Coordinator`: here a
CONTROL request simply leads to another run, and a stale one is not told apart.
`Truth` and `Healthy` are the reference definitions: a recursive function of the sources,
and the closure under dependencies.

| Run | Question | Instance |
| --- | --- | --- |
| `conditions` | is exactly what depends on something unsound excluded, do faulty conditions do nothing, and do gates, the dispatched word and triggers follow the sources? | 3 conditions in every graph, at most one defective, a central-only source; 2 overlays, one of them local; 1 trigger; either half |

Bounds. Three conditions contain a chain, a fork and a join, the shapes that the two
marking passes could get wrong; the middle one may be the defective one, as a source or as a
combinator. A peripheral evaluates the local overlay only and has no triggers.

### 2.6 Preference

ZMK raises no event when the preferred transport changes. Keys that change it raise key
events, after which the provider looks again, 10 ms later, on the RGB work queue.
`ChangePreference` is the unannounced change and `unheard` remembers that no event
followed it yet: `PreferenceFollowed` is about states without such a change (what
`tests/fixture-coverage.md` calls "the documented idle-staleness" limit).
Conditions are sampled one after the other while the preference may go on changing.
The look is scheduled only when not scheduled already, so keys cannot put it off.
Fairness: the delay passes and evaluation proceeds (WF); the look gets its turn on the
FIFO work queue although other work comes in between (SF). `preference` has three
transports (one observed, one sampled, one present) and two conditions.

### 2.7 Commands

State. `half[h]` is a half's user intent, brightness, selected slot and its effects'
colours and periods; `call[c]` a thread's invocation with its converted binding. History:
`aim` is the press and the slot selected when it was converted, `lone` the calls nothing
has overlapped, `asked` what the last step asked of the engine. `Absolute` is the
conversion of the two behaviors, `Pressed` their execution, `Dispatched` the selector's, which
converts a second time on every half. Arguments keep their ranges; the bit fields of
the two parameters are record fields.

Halves run the same configuration and have started (`kp_rgb_selector_overlay_state_locked()`
refuses before; `Settings` shows the slot is then valid). A release converts and finishes
like a press and executes nothing; it is not told apart. The transport's own commands
(gate words, clock) are in `SplitSync`. What "replicate" in `asked` means to a replay,
and the repair of overlapping calls, is `SplitSync`'s matter too: it takes for granted
that every change bumps the generation, which `ChangesAnnounced` checks.

`AcceptedEverywhere` and `LoneCommandAgrees` except two commands whose argument the
conversion does not look at (`Unchecked`): a brightness beyond the maximum and a global
reset with an argument are forwarded, and refused by every half.

| Run | Question | Instance |
| --- | --- | --- |
| `commands` | does a press, converted once, change the same addressed thing on halves that drifted apart or whose selection moved meanwhile, and is every change announced? | 2 threads, 1 peripheral, which is also toggled locally; 2 slots; presses of power, brightness, hue, saturation, selection and both resets, with arguments past their limits |

Bounds. Two overlapping calls show every order of two; steps that do not divide their ranges
reach and pass both ends. Decreases, absolute colours and periods take the same paths as what is
pressed in the run, which would grow with their values; the theorems are about all of them.

### 2.8 Latch

`Latch` is small: a caller resolves the latch's opposite, forwards it, then applies it.
`LonePressAgrees` (proved, section 3) says that a press nobody overlaps leaves all halves alike,
whatever was before. `latch_inverted` expects the violation of what the comment at
`src/behaviors/overlay_toggle.c:68` says, "Absolute, so the halves cannot end up inverted":
a press resolved to on has been forwarded on one thread (a trigger's); before it is applied
another thread presses twice, on and off, everywhere; then the first applies on to the
central. The central's latch is on and the peripheral's off, until the next press: the
latch keeps no generation and is no part of a replay. It is the only finding.

### 2.9 Frames

Four modules follow a key press from the listener to what a LED shows.

`EventRing` has the array, `head`, `tail`, the permission and the drop count, one action for each
section under `kp_rgb_pending_lock`. `EventQueue` is what it promises, a sequence of at most
`QueueLen - 1` events. `RingIsQueue` is the refinement: `Contents` reads the sequence out of the array.

`Effects` has, as operators, what one frame, one key event, one reset and one deactivation make of
the data of every effect that has any: reactive and heatmap (pending hits, replayed in a frame at
their times), ripple (triggers), rain in its modes, starlight (trials and fades), digital rain (one
column, which is independent of the others). The effects of the shared clock keep nothing and
are one kind, `cycle`. An effect is a record of its devicetree properties; what the random
generator draws is an argument, and frames take any. Levels are whole with a remainder, as in the code.

`Promises` says the same without frames: a level is a closed form of the time since the LED was
struck or lit, a trial happens at each multiple of its interval of the time shown, a head is where its
launch and its speed put it. `promise[e]` is a history variable that remembers the hits and launches.

`Frames` puts them together. `StartPass`, `Deliver` (one round of the delivery loop), `Paint` or `Skip` and
`FinishFrame` are a pass of the coordinator's handler; between any two of them time may pass, keys
may arrive and the clock may be corrected, which need no mutex. What takes the mutex (the output's switch, the
overlays' gate, a reset) happens between passes. `next` is `kp_rgb_next_frame_ms`, `run[e]` the
instance's `animating` and `last_render_ms`, `offset` the clock's. `grid` and `shown` are history.

| Run | Question | Instance |
| --- | --- | --- |
| `frames` | is the ring a bounded queue; does every stateful effect show what its presses, its trials and the passed time give, however late, early or long its frames are; is the frame grid kept; do both halves show the same phase of the clock? | ring of 3, tick of 2 ms, one fitting per kind of effect with its own end of time (4 to 8 ms), see below |

Bounds. `Fittings` gives every effect what its hazards need: a ring that fills while a pass runs;
two keys whose hits add up, with presses that come late or carry a time before the last frame
(`MaxLag`), and a reset or a switch between them; for the random effects, frames that
leave trials out (`MaxTrials` is 2, in the code 8) and periods in which fades end. `Peak` is 3, so that a
fade has remainders in every slice. A clock that counts modulo 16 with the central 11 ahead wraps during the
run on either half. The times of presses are those of the run. `VIEW Observed` leaves out what nothing reads:
ring entries that were taken out, and the last frame's time of an effect that does not animate.

`HitsExact` speaks of LEDs, not of the delivery order only: it fails if a slice drops its
remainder, a press is counted twice or at a time outside its frame, or `pending` is too short
for what a pass delivers. A press at a time before the effect's last frame counts from that frame on,
which is what the code's clamp does; the promise states it as `HitPromise`.

## 3. Proofs

`CoordinatorProofs` proves, for any number of threads, any set of levels and any ring
length, from the named assumptions on the constants in `Coordinator`:

- `TypeCorrect`.
- `EvaluationSound` and `GatesFresh`. `FreshGates` is not inductive: whether a
  published evaluation is current depends on what was sampled under which snapshot.
  `EvaluationInv` adds that a CONTROL request makes the published evaluation stale at
  once, that it stays so while an evaluation is under way, and that sample and gate
  are current as long as the snapshot is.
- `NoWakeupLost`, `EvaluationNotForgotten`, `PermissionFollows`, `AnimationNeverStalls`:
  inductive with the type invariant (and the mutex's exclusion).
- `SleepStaysDark` by `SleepInv`: a strip without LEDs never shows a scene, so that the SLEEP
  listener, which then finds nothing to blacken, leaves none behind either.
- `PictureStaysCurrent` by `PaintInv`, which drops the hypothesis that control is fresh (whatever
  makes the strip stale owes a repaint from then on) and adds that no blackout is owed while output
  is allowed.
- `DarkOnceBlocked` by `BlackoutInv`, which adds that the strip is not driven before
  initialisation.
- `NoInputStranded` by `BacklogInv`: what the handler leaves in the ring when about to
  finish was counted or is being requested.

`SplitSyncProofs` proves, for any number of threads, sources and items and any values:

- `SyncTypeCorrect`, `SyncWorkAlive`.
- `ReplaysCurrent` and `ReplaysComplete` (`CompletionSound`), under the hypothesis that
  no reconnection goes unobserved. `CompletionSound` is about one step; the invariant
  `ReplayInv` carries it there: while the captured generation is current and no call
  is under way, everything the replay has sent, and the command being sent, equals the
  central's state.
- `PeripheralsAgree` (`ReplicasAgree`), under the hypotheses that forwarding reaches every connected
  source, peripherals change by commands only, and no reconnection goes unobserved. In
  `AgreeInv` only a lone call is unexceptional, and it brings the sources to its value one by one; an
  exceptional one owes a repair when it ends; and until a repair has marked its peripherals pending,
  it is owed.
- `WalkImplementsSync` (`WalkSpec => Spec`): with the nested cursor the handler takes only `SplitSync`'s
  steps, fairness included, so that what is proved of `SplitSync` holds of it.
- `WalksInOrder` (`WalkInStep`), for any layout with a gate word and an effect in every selector (the
  build assertion of `overlays/overlay.c` and the assertion of `kp_rgb_sync_binding_locked()`).
  `FlattenSeq` is a recursive function: `FlattenPlaces` shows, by induction, that it puts every element
  of every sequence in its place, and `LayoutPlaces` which command of `Order` is at which index. `WalkInv`
  then says more than the property: a cursor of a replay under way lies in its layout (`InLayout`), with
  as many commands before it as `SplitSync` has counted (`Place`); one that is over is pending no more.

`SettingsProofs` proves, for any threads, configuration and records of other layouts:

- `SettingsTypeCorrect`, `SavesArmed`. The first includes the bytes: an encoded snapshot is made of bytes
  (`EncodedIsBytes`, from `BytesOfWord` and `WordOfBytes`), and whatever the flash holds, a record that the decoder
  accepts is read within the bytes that are there and restores words (`DecodedReadable`).
- `SavesOwed`, by `SaveInv`: while a request is unserved, the present state is one of those
  a write may store (`current \in since`), so a capture taken now serves it.
- `SelectionsValid` (`RetainedValid`): resolution yields a slot that exists, and nothing but
  resolution or a checked selection sets one after startup.
- `ResetsStand`, about one step, from `ResetInv`: what is staged for a part that was reset is
  what the reset gave.
- `StoredIsRead`: a record encoded and stored whole is accepted and decoded as it was, for any number of
  selectors. `WordRead` takes one word back from its bytes, `Joined` finds it among the fields.
- `RecordsReadExactly` (`RecordsRead`): of all bytes, exactly the encodings are accepted. What the flash
  holds, of whatever origin, is read as the record that it is an encoding of, also of a firmware with more or
  fewer selectors, or not at all.

`ConditionsProofs` proves, for any number of conditions in any graph without cycles, any defects,
overlays and triggers, on either half:

- `ConditionsTypeCorrect`.
- `OnlyHealthyAct` (`FaultsExcluded`). `Healthy` is about everything below a condition, the code's two passes
  about its direct dependencies: `HealthyByParts` brings them together. `MarkInv` says what the downward pass
  has settled above its place, `FaultInv` what the upward pass has settled below, and `OutcomeInv` that
  an overlay or a trigger which listens to a fault is left alone ever after.
- `ControlSettlesRight` (`ControlSettled`), by `CoherentInv`: unless an invalidation is owed or made, the
  sources are those the run began with, so that its samples, gates, dispatched word and triggers agree with
  them as far as it has come (`SampledUpTo`, `TriggeredUpTo`). `Truth` is a recursive function; that
  it has the meaning it is written with (`TruthDefined`) follows by induction, as dependencies come first.

`ProviderProofs` proves, for any transports and conditions, `PreferenceTypeCorrect` and `PreferenceIsFollowed`, by
`ObservedInv` (while the observation stands, every condition not still to be sampled by an owed evaluation was
sampled with it) and `HeardInv` (the same for the present preference, when no look is to come). Of the
latch (instance `L`) it proves `LatchTypeCorrect` and `LonePressesAgree`, by `Reached`: a press that nobody has
overlapped is the only one under way, and the peripherals it was forwarded to hold its value.

`CommandsProofs` proves, for any ranges, steps, slots, halves, threads and bindings:

- Lemmas about one execution: relative values stay in range (`InRange`), a conversion yields an
  absolute binding for what was meant (`ConversionSettles`), which every half reads alike
  (`SettledIsFixed`), changes nothing else (`PressedOthers`) and gives the same value from any
  state (`PressedAgrees`). `After` restates an execution's result without its announcements.
- `CommandsTypeCorrect`, `ConvertedAccepted` and `CommandsLand`, by `CallInv`: a call under way
  carries a settled binding for what its press addressed.
- `LoneCommandsAgree`, by `LoneInv`: a lone call is the only one under way, and each peripheral
  it has reached holds what the command gives from any state. Once the central executes it
  too, all agree.
- `CommandsAnnounce` (`ChangesAnnounced`): whatever item an execution changes, it asks for all that the
  change calls for (`PressedAnnounces`, with the resets in `ResetAnnounces`).

`FramesProofs` proves, for any length of the ring, any effects, tick and times:

- `RingTypeCorrect` and `RingImplementsQueue`: every step of the ring is a step of `EventQueue` or leaves
  it alone. Lemmas say what a push and a pop do to the sequence that the array stands for
  (`WriteAppends`, `AdvanceTakesFirst`), around the array's end.
- `FramesKeepQueue`: passes, listeners and switches use the ring as its steps allow.
- `FramesStayPaced` (`FramesPaced`). The deadline's part, `OnGrid`, is inductive with types
  (`AdvancedAhead`: the deadline moves by whole periods, to at most one past the end of the frame). That something
  which evolves always has a frame planned needs `Armed`: within a pass the overlays are active only
  behind open gates and an allowed output, and an effect whose data make it evolve is either known to
  animate or has just asked for a frame, which the pass then cannot skip.
- `ClocksAgree` (`HalvesInStep`), for any wrap of the clock, any uptimes and any delay: a clock command leaves
  as offset what the central was ahead when it was made, modulo the wrap (`OffsetHolds`), and sums and differences
  may wrap in their parts (`RemainderOfSum`).

- `HitsStayExact` (`HitsExact`), for any LEDs and coordinates, effect properties, presses and times. What a LED
  shows says too little of what it will show: `Keeps` compares data and promise in parts of a level, the
  carried remainder included, at the same time. It is kept by a fade, as slices of time add up
  (`DecayExact`, `SlicesAdd`), by a hit, and so, side by side, by every event of the replay and of the promise's account
  (`EventKeepsAbreast`, by induction along both folds in `FrameKeeps`). `HitState` adds that the pending events are the
  presses of the present pass, for which `pending` has room, and that they have asked for a frame; `Awake`
  that this frame reaches them. For ripple, `Rippling` has a bijection between triggers in use and presses. A
  heatmap with no step takes no presses; its promise has them add nothing (`SilentFrame`).

- `TrialsStayExact` (`TrialsExact`), for any LEDs, draws, times and effect properties within `TrialEffect`. `TrialsKept`
  strengthens it twice. Such an effect animates exactly while it is shown, so its promise's age, the time it was
  shown, is also the time its frames were told. And data and promise agree in more than levels, by kind: for rain
  every LED has faded, in parts of a level, since it was last lit (`RainState`); for starlight it has gone towards
  its target since it last changed (`StarState`); a head is at its launch's start and speed times the frames
  since (`DigitalState`), and is found again on the ring when it is moved around (`RingPlace`); drops and fractal
  keep their phase (`DropsState`, `FractalState`). One frame keeps each (`RainFrame`, `StarFrame`, `DigitalFrame`,
  ...): `TrialTimes` and `TrialNext` give the time of the k-th trial in a frame, and `StepFold` takes an
  agreement along the fold over the draws and the promise's fold side by side, from trial to trial, for a
  late frame's first `MaxTrials` ones and the one slice that is left. `TrialEffect` is what the code enforces: periods are at least
  one (`kp_rgb_effect_period`, `include/zmk/rgb_matrix.h`), the build asserts that intervals are not zero (`starlight.c`,
  `rain.c`), a hue is taken modulo its range, columns restart before they are recycled, and a speed is at least one
  (`digital_rain.c`).

`SceneProofs` proves, for any overlays, any of them covering or choosing among any number of slots,
`SceneSound`, from which follow `CallbacksKept`, `ResetsArrive`, `ClocksKept`, `SelectionServed` and
`VisibleServed`. That no promise is ever broken says nothing of why, so `SceneInv` has

- `Living`: of every participant, the engine's `active`, `initialized` and `animating` are what it was
  last told (`Sound`); a selector's live child is its only active one and it has one exactly while its owner
  is active; and a reset that a child is owed is pending on the child, its selector or its owner (`Coherent`).
- `PassInv`: what each loop of a pass leaves to the next, up to the input loop, before which
  exactly the wanted overlays are active.
- `SettledInv`: while no repaint is asked for, activity and planned frame are those of what is visible. An overlay
  is wanted exactly if it is visible, as a last covering overlay exists if there is any
  (`WantedIsVisible`, by the well-foundedness of the order on the numbers).

It also proves `SceneTypeCorrect` and `PicturesCurrent` (`PictureCurrent`), for any number of strips of any
lengths. `Composite`'s offsets and its loop over the strips are recursive functions, and what they compute
is proved by induction (`LengthWithin`, `EveryoneGetsHis`): every strip is given its own part of the pixels,
whichever others fail. `PictureInv` says when the picture is the present one: from a frame on, until a repaint is
asked for.

Induction. The library's induction theorems take a predicate, which the provers cannot instantiate.
`AllNumbers` (in the proof modules that need it) is the same about a set: a set of numbers which has every
number whose predecessors it has, has them all. A recursive function is a choice of some solution of its equation, so each
such proof first shows that there is one, then goes along the numbers.

Assumptions on constants are named in the modules and evaluated by TLC in every run.

Only model-checked: liveness (`BlackoutDelivered`, `Settles`, `Converges`,
`PeersServed`, `SavesSettle`, `LookServed`), which needs ENABLED and fairness and is out of the
prover's reach. Every invariant and every action property of the runs is a theorem. `NeverInverted` is the violated
claim of the finding. The other way round, the type invariants and strengthenings with a theorem, `SaveArmed`,
`PermissionMatches` and `LonePressAgrees` are proved and not among the runs' properties.

## 4. Plan

Done, in this order: `Coordinator`, `SplitSync`, `Settings`, `Scene`, `Conditions`, `Preference`,
`Latch`, `Commands`, then `EventQueue` and `EventRing`, `Effects` and `Promises`, `Frames`, `SyncWalk`,
`Persist`, `Composite`, each with its runs, and the proofs above. What could follow is composition: gate words between `Conditions`
of two halves, and `Scene`'s overlays with `Effects`' data.

## 5. Not modelled

Pixels: the loops by which effects and overlays turn levels, phases, the charge and colours into pixels,
and colour arithmetic, which are functions without state. (`kp_band_spatial()` of `effects/band.c` is
commented as being in [0, 65536); with the spiral it is the sum of two such terms and may be nearly
twice that, and the one wrap that follows may leave LEDs dark that a front passes. It is outside what the modules cover.) The battery bar's order of LEDs, computed once from constants.
The composite strip's readiness test at initialisation. The devicetree macros and build assertions,
which fix the constants. Log messages. How providers read layers, indicators and the charge from ZMK: they
are sources that change and then invalidate. Zephyr and ZMK themselves, except as the environment their use
implies (work queue, timers, mutex, settings, forwarding), which PROJECT.json's `map` marks external.
