----------------------------- MODULE SplitSync -----------------------------
(***************************************************************************)
(* Split replication (src/rgb_replication.c, src/rgb_split_sync.c), on the *)
(* central half.  A GLOBAL behavior invocation is converted to an absolute *)
(* command, forwarded to every peripheral and applied locally; overlapping *)
(* or failed invocations ask for a repair.  A work item watches the        *)
(* peripherals and replays the current state to those that need it, one    *)
(* command per run.                                                        *)
(*                                                                         *)
(* The replicated state is a function on Items, the order of the replay    *)
(* (the phases of kp_rgb_sync_advance()).  replica[p] is what p holds once *)
(* it has applied the commands accepted for it; a source is a peripheral's *)
(* slot.  Generations and repair epochs only grow and are compared for     *)
(* equality, so the comparisons are kept: captured[p] says whether the     *)
(* generation p's replay started from is the current one, and repairOwed   *)
(* is consumed_repair_epoch # repair_epoch.  kp_rgb_outstanding is the     *)
(* number of calls under way.  A deadline is ahead or passed.              *)
(***************************************************************************)
EXTENDS Naturals, FiniteSets

CONSTANTS
    Clients,     \* threads that invoke RGB behaviors
    NumSources,  \* ZMK_SPLIT_CENTRAL_PERIPHERAL_COUNT
    NumItems,    \* brightness, power, gate words, colours, periods, selections
    Values,
    ResetItems,  \* the items RGB_RESET_CMD restores ...
    Default,     \* ... to this value
    Broken,      \* sources whose transport refuses every command
    Irregular    \* which irregularities of the environment occur

Items == 1..NumItems
Sources == 0..(NumSources - 1)
Slots == 0..(2 * NumSources - 1)

(* local: state changes without an invocation (settings restored, gates    *)
(*   refreshed, an API call);  reject: the local callback of an invocation *)
(*   fails;  drop: forwarding to a connected source fails unnoticed;       *)
(* refuse: so does replaying, noticed;  query: the source query fails;     *)
(* switch: another transport takes over;  blip: a source reconnects before *)
(*   the loss of its connection was observed.                              *)
Irregularities == {"local", "reject", "drop", "refuse", "query", "switch", "blip"}

ASSUME SourcesAssumption == NumSources \in Nat /\ NumSources > 0
ASSUME ItemsAssumption == NumItems \in Nat /\ NumItems > 0
ASSUME ValuesAssumption == Default \in Values /\ ResetItems \subseteq Items
ASSUME IrregularAssumption == Broken \subseteq Sources /\ Irregular \subseteq Irregularities

VARIABLES
    \* the central's state, guarded by the matrix mutex
    started, central,
    \* guarded by the replication spinlock
    call, exceptional, repairOwed, captured,
    \* the peripherals and their transport
    connected, replica, switched,
    \* the sync work item: kp_rgb_sync_sources[], deadlines passed, cursor
    seen, pending, pos, ready, clockDue, pollDue, paceOver, cursor,
    \* its submission, control point and locals
    work, wpc, target, latched

stateVars  == <<started, central>>
callVars   == <<call, exceptional, repairOwed>>
linkVars   == <<connected, replica, switched>>
sourceVars == <<seen, pending, pos>>
timeVars   == <<ready, clockDue, pollDue, paceOver>>
localVars  == <<wpc, target, latched, cursor>>
vars == <<stateVars, callVars, captured, linkVars, sourceVars, timeVars, work, localVars>>

(* What an absolute command sets: one item, all that a reset restores, or  *)
(* nothing (the release of a key).                                         *)
Changes == (UNION {[{i} -> Values] : i \in Items})
           \cup {[i \in ResetItems |-> Default], [i \in {} |-> Default]}
Set(state, change) == [i \in Items |-> IF i \in DOMAIN change THEN change[i] ELSE state[i]]

Idle == [stage |-> "idle"]
Calls == {Idle}
    \cup [stage : {"forward"}, change : Changes, next : 0..NumSources]
    \cup [stage : {"finish"}, failed : BOOLEAN]

TypeOK ==
    /\ started \in BOOLEAN /\ central \in [Items -> Values]
    /\ call \in [Clients -> Calls]
    /\ exceptional \in BOOLEAN /\ repairOwed \in BOOLEAN
    /\ captured \in [Sources -> {"no", "current", "stale"}]
    /\ connected \in [Sources -> BOOLEAN]
    /\ replica \in [Sources -> [Items -> Values]] /\ switched \in BOOLEAN
    /\ seen \in [Sources -> BOOLEAN] /\ pending \in [Sources -> BOOLEAN]
    /\ pos \in [Sources -> 1..(NumItems + 1)]
    /\ \A p \in Sources : pos[p] > NumItems => wpc = "check" /\ target = p
    /\ ready \in [Sources -> BOOLEAN] /\ clockDue \in [Sources -> BOOLEAN]
    /\ pollDue \in BOOLEAN /\ paceOver \in BOOLEAN /\ cursor \in Slots
    /\ work \in {"none", "delayed", "queued"}
    /\ wpc \in {"idle", "repair", "pick", "send", "check", "rearm"}
    /\ target \in Sources /\ latched \in Values

(* Calls between kp_rgb_invocation_begin() and kp_rgb_invocation_finish(). *)
Outstanding == {c \in Clients : call[c] # Idle}

(* Definitions named ...Bug are plausible mistakes in the definition that  *)
(* follows them; the project substitutes them to see a property fail.      *)

(* kp_rgb_generation++ *)
Bump == captured' = [p \in Sources |-> IF captured[p] = "current" THEN "stale" ELSE captured[p]]

-----------------------------------------------------------------------------
Init ==
    /\ started = FALSE /\ central \in [Items -> Values]
    /\ call = [c \in Clients |-> Idle] /\ exceptional = FALSE /\ repairOwed = FALSE
    /\ captured = [p \in Sources |-> "no"]
    /\ connected \in [Sources -> BOOLEAN]
    /\ replica \in [Sources -> [Items -> Values]] /\ switched = FALSE
    /\ seen = [p \in Sources |-> FALSE] /\ pending = [p \in Sources |-> FALSE]
    /\ pos = [p \in Sources |-> 1]
    /\ ready = [p \in Sources |-> TRUE] /\ clockDue = [p \in Sources |-> FALSE]
    /\ pollDue = FALSE /\ paceOver = TRUE /\ cursor = 0
    /\ work = "delayed" /\ wpc = "idle" /\ target = 0 /\ latched = Default

-----------------------------------------------------------------------------
(* Invocations: zmk_behavior_invoke_binding() on some thread. *)

(* Conversion: relative commands become absolute under the mutex, and the  *)
(* binding is marked (kp_rgb_invocation_begin).                            *)
BeginBug(c, change) ==
    /\ call[c] = Idle
    /\ call' = [call EXCEPT ![c] = [stage |-> "forward", change |-> change, next |-> 0]]
    /\ UNCHANGED <<stateVars, exceptional, repairOwed, captured, linkVars, sourceVars,
                   timeVars, work, localVars>>

Begin(c, change) ==
    /\ call[c] = Idle
    /\ exceptional' = (exceptional \/ Outstanding # {})
    /\ call' = [call EXCEPT ![c] = [stage |-> "forward", change |-> change, next |-> 0]]
    /\ UNCHANGED <<stateVars, repairOwed, captured, linkVars, sourceVars, timeVars,
                   work, localVars>>

(* ZMK sends the command to the next source, connected or not. *)
Forward(c) ==
    /\ call[c].stage = "forward" /\ call[c].next < NumSources
    /\ LET p == call[c].next
           sent == [replica EXCEPT ![p] = Set(@, call[c].change)]
       IN IF connected[p]
          THEN replica' \in {sent} \cup (IF "drop" \in Irregular THEN {replica} ELSE {})
          ELSE UNCHANGED replica
    /\ call' = [call EXCEPT ![c].next = @ + 1]
    /\ UNCHANGED <<stateVars, exceptional, repairOwed, captured, connected, switched,
                   sourceVars, timeVars, work, localVars>>

(* The local callback; a changed value is a new generation. *)
Apply(c) ==
    /\ call[c].stage = "forward" /\ call[c].next = NumSources
    /\ \E failed \in BOOLEAN :
          /\ failed => "reject" \in Irregular
          /\ central' = IF failed THEN central ELSE Set(central, call[c].change)
          /\ call' = [call EXCEPT ![c] = [stage |-> "finish", failed |-> failed]]
    /\ IF central' # central THEN Bump ELSE UNCHANGED captured
    /\ UNCHANGED <<started, exceptional, repairOwed, linkVars, sourceVars, timeVars,
                   work, localVars>>

(* kp_rgb_invocation_finish(): the last of an exceptional group owes a     *)
(* repair and wakes the sync work.                                         *)
Finish(c) ==
    /\ call[c].stage = "finish"
    /\ call' = [call EXCEPT ![c] = Idle]
    /\ Bump
    /\ LET group == exceptional \/ call[c].failed
           repair == group /\ Outstanding = {c}
       IN /\ exceptional' = (group /\ ~repair)
          /\ repairOwed' = (repairOwed \/ repair)
          /\ work' = IF repair THEN "queued" ELSE work
    /\ UNCHANGED <<stateVars, linkVars, sourceVars, timeVars, localVars>>

(* Replicated state changed without an invocation. *)
LocalChange(change) ==
    /\ "local" \in Irregular
    /\ central' = Set(central, change)
    /\ central' # central
    /\ Bump
    /\ UNCHANGED <<started, callVars, linkVars, sourceVars, timeVars, work, localVars>>

(* kp_rgb_control_commit() *)
Start ==
    /\ ~started
    /\ started' = TRUE
    /\ UNCHANGED <<central, callVars, captured, linkVars, sourceVars, timeVars, work, localVars>>

-----------------------------------------------------------------------------
(* The peripherals.  A reconnected one may have been restarted. *)
Disconnect(p) ==
    /\ connected[p]
    /\ connected' = [connected EXCEPT ![p] = FALSE]
    /\ UNCHANGED <<stateVars, callVars, captured, replica, switched, sourceVars,
                   timeVars, work, localVars>>

Connect(p, state) ==
    /\ ~connected[p]
    /\ seen[p] /\ ~switched => "blip" \in Irregular
    /\ connected' = [connected EXCEPT ![p] = TRUE]
    /\ replica' = [replica EXCEPT ![p] = state]
    /\ UNCHANGED <<stateVars, callVars, captured, switched, sourceVars, timeVars,
                   work, localVars>>

SwitchTransport ==
    /\ "switch" \in Irregular /\ ~switched
    /\ switched' = TRUE
    /\ connected' \in [Sources -> BOOLEAN]
    /\ replica' \in [Sources -> [Items -> Values]]
    /\ UNCHANGED <<stateVars, callVars, captured, sourceVars, timeVars, work, localVars>>

-----------------------------------------------------------------------------
(* kp_rgb_sync_handler() on the RGB work queue. *)

(* kp_rgb_sync_poll(): new sources, and all of a new transport's, get a    *)
(* replay after the settling time; lost ones are forgotten.                *)
ObservedBug == {p \in Sources : connected[p] /\ ~seen[p]}
Observed == {p \in Sources : connected[p] /\ (switched \/ ~seen[p])}

Poll ==
    \E present \in {{p \in Sources : connected[p]}} \cup
                   (IF "query" \in Irregular THEN {{}} ELSE {}) :
      LET new == Observed \cap present
          reset == new \cup (Sources \ present)
      IN /\ seen' = [p \in Sources |-> p \in present]
         /\ pending' = [p \in Sources |-> p \in new \/ (p \in present /\ pending[p])]
         /\ pos' = [p \in Sources |-> IF p \in reset THEN 1 ELSE pos[p]]
         /\ captured' = [p \in Sources |-> IF p \in reset THEN "no" ELSE captured[p]]
         /\ ready' = [p \in Sources |-> IF p \in new THEN FALSE ELSE ready[p]]
         /\ clockDue' = [p \in Sources |-> IF p \in reset THEN FALSE ELSE clockDue[p]]
         /\ switched' = FALSE
         /\ pollDue' = FALSE

StartHandler ==
    /\ wpc = "idle" /\ work = "queued"
    /\ work' = "none"
    /\ wpc' = "repair"
    /\ IF pollDue
       THEN Poll
       ELSE UNCHANGED <<sourceVars, captured, ready, clockDue, pollDue, switched>>
    /\ UNCHANGED <<stateVars, callVars, connected, replica, paceOver, target, latched, cursor>>

(* kp_rgb_sync_consume_repair(): sources being replayed need no reset, for *)
(* their generation is stale.                                              *)
ConsumeRepair ==
    /\ wpc = "repair"
    /\ LET due == {p \in Sources : started /\ repairOwed /\ seen[p] /\ ~pending[p]}
       IN /\ pending' = [p \in Sources |-> pending[p] \/ p \in due]
          /\ pos' = [p \in Sources |-> IF p \in due THEN 1 ELSE pos[p]]
          /\ captured' = [p \in Sources |-> IF p \in due THEN "no" ELSE captured[p]]
    /\ repairOwed' = (repairOwed /\ ~started)
    /\ wpc' = "pick"
    /\ UNCHANGED <<stateVars, call, exceptional, linkVars, seen, timeVars, work, target,
                   latched, cursor>>

(* Slot 2p is source p's replay and slot 2p+1 its clock correction; the    *)
(* first due slot from the cursor on is served, one per run.               *)
Due(slot) ==
    LET p == slot \div 2
    IN seen[p] /\ IF slot % 2 = 1 THEN clockDue[p]
                  ELSE pending[p] /\ ready[p] /\ paceOver
DistanceBug(slot) == slot
Distance(slot) == (slot + 2 * NumSources - cursor) % (2 * NumSources)
Chosen(slot) == Due(slot) /\ \A s \in Slots : Due(s) => Distance(slot) <= Distance(s)

NothingDue ==
    /\ wpc = "pick"
    /\ started => \A slot \in Slots : ~Due(slot)
    /\ wpc' = "rearm"
    /\ UNCHANGED <<stateVars, callVars, captured, linkVars, sourceVars, timeVars, work,
                   target, latched, cursor>>

SendClock(slot) ==
    /\ wpc = "pick" /\ started /\ slot % 2 = 1 /\ Chosen(slot)
    /\ cursor' = (slot + 1) % (2 * NumSources)
    /\ clockDue' = [clockDue EXCEPT ![slot \div 2] = FALSE]
    /\ wpc' = "rearm"
    /\ UNCHANGED <<stateVars, callVars, captured, linkVars, sourceVars, ready, pollDue,
                   paceOver, work, target, latched>>

(* kp_rgb_sync_binding_locked(): every attempt samples the current value;  *)
(* the first one of a replay captures the generation.                      *)
ReadState(slot) ==
    /\ wpc = "pick" /\ started /\ slot % 2 = 0 /\ Chosen(slot)
    /\ cursor' = (slot + 1) % (2 * NumSources)
    /\ LET p == slot \div 2
       IN /\ target' = p
          /\ latched' = central[pos[p]]
          /\ captured' = IF captured[p] = "no" THEN [captured EXCEPT ![p] = "current"]
                         ELSE captured
    /\ wpc' = "send"
    /\ UNCHANGED <<stateVars, callVars, linkVars, sourceVars, timeVars, work>>

(* The transport accepts the command, which reaches a connected source.    *)
(* (latched is a local of the attempt: it is cleared when that is over.)   *)
Advance == pos[target] + 1

SendAccepted ==
    /\ wpc = "send" /\ target \notin Broken
    /\ replica' = IF connected[target]
                  THEN [replica EXCEPT ![target][pos[target]] = latched] ELSE replica
    /\ pos' = [pos EXCEPT ![target] = Advance]
    /\ wpc' = IF pos[target] = NumItems THEN "check" ELSE "rearm"
    /\ paceOver' = FALSE
    /\ latched' = Default
    /\ UNCHANGED <<stateVars, callVars, captured, connected, switched, seen, pending,
                   ready, clockDue, pollDue, work, target, cursor>>

SendRefused ==
    /\ wpc = "send"
    /\ target \in Broken \/ "refuse" \in Irregular \/ ~connected[target]
    /\ ready' = [ready EXCEPT ![target] = FALSE]
    /\ latched' = Default
    /\ wpc' = "rearm"
    /\ UNCHANGED <<stateVars, callVars, captured, linkVars, sourceVars, clockDue, pollDue,
                   paceOver, work, target, cursor>>

(* A replay is complete if nothing it may have missed happened since it    *)
(* began; otherwise it starts over.  (The code clears generation_captured  *)
(* one step earlier; nothing reads it in between.)                         *)
Complete == captured[target] = "current" /\ Outstanding = {} /\ ~repairOwed

CheckComplete ==
    /\ wpc = "check"
    /\ pending' = [pending EXCEPT ![target] = ~Complete]
    /\ pos' = [pos EXCEPT ![target] = 1]
    /\ captured' = [captured EXCEPT ![target] = "no"]
    /\ wpc' = "rearm"
    /\ UNCHANGED <<stateVars, callVars, linkVars, seen, timeVars, work, target, latched, cursor>>

(* The handler schedules itself for the next deadline, the poll's at the   *)
(* latest, unless it has been woken meanwhile.                             *)
RearmBug ==
    /\ wpc = "rearm"
    /\ work' = IF \E p \in Sources : pending[p] THEN "delayed" ELSE work
    /\ wpc' = "idle"
    /\ UNCHANGED <<stateVars, callVars, captured, linkVars, sourceVars, timeVars, target,
                   latched, cursor>>

Rearm ==
    /\ wpc = "rearm"
    /\ work' = IF work = "queued" THEN "queued" ELSE "delayed"
    /\ wpc' = "idle"
    /\ UNCHANGED <<stateVars, callVars, captured, linkVars, sourceVars, timeVars, target,
                   latched, cursor>>

-----------------------------------------------------------------------------
(* Time: the work item's delay, the settling or retry time of a source,    *)
(* the clock period, the pace of replays and the poll period run out.      *)
DelayExpires ==
    /\ work = "delayed" /\ work' = "queued"
    /\ UNCHANGED <<stateVars, callVars, captured, linkVars, sourceVars, timeVars, localVars>>

SourceReady(p) ==
    /\ ~ready[p] /\ ready' = [ready EXCEPT ![p] = TRUE]
    /\ UNCHANGED <<stateVars, callVars, captured, linkVars, sourceVars, clockDue, pollDue,
                   paceOver, work, localVars>>

ClockComesDue(p) ==
    /\ seen[p] /\ ~clockDue[p] /\ clockDue' = [clockDue EXCEPT ![p] = TRUE]
    /\ UNCHANGED <<stateVars, callVars, captured, linkVars, sourceVars, ready, pollDue,
                   paceOver, work, localVars>>

PaceOver ==
    /\ ~paceOver /\ paceOver' = TRUE
    /\ UNCHANGED <<stateVars, callVars, captured, linkVars, sourceVars, ready, clockDue,
                   pollDue, work, localVars>>

PollComesDue ==
    /\ ~pollDue /\ pollDue' = TRUE
    /\ UNCHANGED <<stateVars, callVars, captured, linkVars, sourceVars, ready, clockDue,
                   paceOver, work, localVars>>

Invocation(c) == Forward(c) \/ Apply(c) \/ Finish(c)
Handler == \/ StartHandler \/ ConsumeRepair \/ NothingDue
           \/ \E slot \in Slots : SendClock(slot) \/ ReadState(slot)
           \/ SendAccepted \/ SendRefused \/ CheckComplete \/ Rearm
Time == \/ DelayExpires \/ PaceOver \/ PollComesDue
        \/ \E p \in Sources : SourceReady(p) \/ ClockComesDue(p)

Environment ==
    \/ \E c \in Clients, change \in Changes : Begin(c, change)
    \/ \E change \in Changes : LocalChange(change)
    \/ \E p \in Sources : Disconnect(p) \/ \E state \in [Items -> Values] : Connect(p, state)
    \/ SwitchTransport

Next == Environment \/ Start \/ Handler \/ Time \/ \E c \in Clients : Invocation(c)

(* Startup happens; calls, the work queue and the clock go on.  Nobody has *)
(* to invoke a behavior or to connect.                                     *)
Fairness ==
    /\ WF_vars(Start) /\ WF_vars(Handler)
    /\ \A c \in Clients : WF_vars(Invocation(c))
    /\ WF_vars(DelayExpires) /\ WF_vars(PaceOver) /\ WF_vars(PollComesDue)
    /\ \A p \in Sources : WF_vars(SourceReady(p)) /\ WF_vars(ClockComesDue(p))

Spec == Init /\ [][Next]_vars
FairSpec == Spec /\ Fairness

-----------------------------------------------------------------------------
(* Properties *)

(* The sync work is never lost: between two runs it is always submitted or *)
(* delayed, whatever wakes it while it runs (wake versus self-scheduling). *)
SyncAlive == wpc = "idle" => work # "none"

(* A replay that is declared complete was complete: the source then holds  *)
(* the central's state, although calls, local changes and repairs may have *)
(* raced the replay (the completion test of kp_rgb_sync_attempt_state).    *)
CompletionSound ==
    [][\A p \in Sources :
         pending[p] /\ ~pending'[p] /\ seen'[p] /\ connected[p] /\ ~switched
            => replica[p] = central]_vars

(* Why: a replay starts from the first item with the generation it         *)
(* captures, and what it has sent so far, and the command it is sending,   *)
(* is current as long as that generation is and no call is under way.      *)
ReplayCurrent(p) == /\ seen[p] /\ connected[p] /\ ~switched
                    /\ captured[p] = "current" /\ Outstanding = {}
ReplayInv ==
    /\ \A p \in Sources : captured[p] = "no" => pos[p] = 1
    /\ wpc = "send" => captured[target] # "no"
    /\ wpc = "check" => pos[target] = NumItems + 1
    /\ \A p \in Sources : ReplayCurrent(p) =>
          \A i \in Items : i < pos[p] => replica[p][i] = central[i]
    /\ wpc = "send" /\ ReplayCurrent(target) => latched = central[pos[target]]

(* Peripherals agree with the central whenever nothing is under way: an    *)
(* undisturbed call reaches them all and any other is followed by a repair *)
(* ("isolated successful calls ... do not start idle repair").             *)
ReplicasAgree ==
    (Outstanding = {} /\ ~repairOwed /\ ~switched) =>
        \A p \in Sources : connected[p] /\ seen[p] /\ ~pending[p] => replica[p] = central

(* Its inductive form, without local changes, unnoticed drops and blips:   *)
(* only a lone call is not exceptional, and while no repair is owed it has *)
(* brought the sources up to its next one to what it will bring the        *)
(* central to; a source that is being replayed is still to be served.      *)
Agreement(p) ==
    /\ Outstanding = {} => replica[p] = central
    /\ \A c \in Clients : call[c].stage = "forward" =>
          replica[p] = IF p < call[c].next THEN Set(central, call[c].change) ELSE central
    /\ \A c \in Clients : call[c].stage = "finish" /\ ~call[c].failed =>
          replica[p] = central
AgreeInv ==
    /\ \A c, d \in Outstanding : c = d \/ exceptional
    /\ Outstanding = {} => ~exceptional
    /\ wpc \in {"send", "check"} => pending[target]
    /\ ~exceptional /\ ~repairOwed /\ ~switched =>
          \A p \in Sources : connected[p] /\ seen[p] /\ ~pending[p] => Agreement(p)

(* Every healthy peripheral is eventually brought to the central's state   *)
(* and stays there once the environment is quiet, even though another one  *)
(* refuses everything ("failed peers retry independently").                *)
Converged == \A p \in Sources \ Broken :
                connected[p] => seen[p] /\ ~pending[p] /\ replica[p] = central
Converges == <>[][~Environment]_vars => <>[]Converged

(* Clock correction has its own cadence: neither replays nor the other     *)
(* sources' clocks keep a source's correction from being served.           *)
ClockServed == \A p \in Sources : (started /\ clockDue[p]) ~> ~clockDue[p]

=============================================================================
