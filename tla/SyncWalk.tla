------------------------------ MODULE SyncWalk ------------------------------
(***************************************************************************)
(* The replay's cursor (struct kp_rgb_sync_source).  SplitSync counts the  *)
(* commands of a replay; the code walks a phase, a gate word, a selector   *)
(* and a member of that selector, resets them at some of the places where  *)
(* a replay begins or is given up, and leaves them as they are when it is  *)
(* over.  Here both go along with the same steps.                          *)
(*                                                                         *)
(* A layout is what a firmware has to replay: the number of gate words and *)
(* each selector's number of effects.                                      *)
(***************************************************************************)
EXTENDS SplitSync, Sequences, SequencesExt

CONSTANT Layouts    \* layouts with NumItems commands each

VARIABLES layout, walk
walkVars == <<vars, layout, walk>>

Start0 == [phase |-> "brightness", word |-> 0, selector |-> 0, member |-> 0,
           pending |-> FALSE, captured |-> FALSE]

(* kp_rgb_sync_reset_cursor() *)
ResetBug(w) == [w EXCEPT !.phase = "brightness", !.word = 0, !.selector = 0,
                         !.captured = FALSE]
Reset(w) == [Start0 EXCEPT !.pending = w.pending]

(* kp_rgb_sync_advance(), after an accepted command. *)
Over(w) == [w EXCEPT !.pending = FALSE, !.captured = FALSE]

AfterWord(w) ==
    LET next == [w EXCEPT !.word = @ + 1]
    IN IF next.word < layout.words THEN next
       ELSE IF layout.members = <<>> THEN Over([next EXCEPT !.phase = "color"])
       ELSE [next EXCEPT !.phase = "color"]

AfterPeriod(w) ==
    LET next == [w EXCEPT !.member = @ + 1]
    IN [next EXCEPT !.phase = IF next.member = layout.members[w.selector + 1]
                              THEN "selection" ELSE "color"]

AfterSelection(w) ==
    LET next == [w EXCEPT !.selector = @ + 1, !.member = 0]
    IN IF next.selector = Len(layout.members) THEN Over(next)
       ELSE [next EXCEPT !.phase = "color"]

Advanced(w) ==
    CASE w.phase = "brightness" -> [w EXCEPT !.phase = "power"]
      [] w.phase = "power" -> [w EXCEPT !.phase = "gates"]
      [] w.phase = "gates" -> AfterWord(w)
      [] w.phase = "color" -> [w EXCEPT !.phase = "period"]
      [] w.phase = "period" -> AfterPeriod(w)
      [] w.phase = "selection" -> AfterSelection(w)

(* kp_rgb_sync_binding_locked(): what the command is about. *)
Item(kind, selector, index) == [kind |-> kind, selector |-> selector, index |-> index]
Bound(w) ==
    CASE w.phase \in {"brightness", "power"} -> Item(w.phase, 0, 0)
      [] w.phase = "gates" -> Item("gates", 0, w.word)
      [] w.phase \in {"color", "period"} -> Item(w.phase, w.selector, w.member)
      [] w.phase = "selection" -> Item("selection", w.selector, 0)

(* All commands of a replay, in their order. *)
MemberItems(s, m) == <<Item("color", s - 1, m - 1), Item("period", s - 1, m - 1)>>
SelectorItems(l, s) ==
    FlattenSeq([m \in 1..l.members[s] |-> MemberItems(s, m)])
      \o <<Item("selection", s - 1, 0)>>
Order(l) ==
    <<Item("brightness", 0, 0), Item("power", 0, 0)>>
      \o [w \in 1..l.words |-> Item("gates", 0, w - 1)]
      \o FlattenSeq([s \in 1..Len(l.members) |-> SelectorItems(l, s)])

(* There is a gate word, and a selector has an effect. *)
ASSUME LayoutsAssumption ==
    /\ Layouts \subseteq [words : Nat \ {0}, members : Seq(Nat \ {0})]
    /\ \A l \in Layouts : Len(Order(l)) = NumItems

-----------------------------------------------------------------------------
WalkInit == Init /\ layout \in Layouts /\ walk = [p \in Sources |-> Start0]

(* The steps of SplitSync, with what they do to the cursors. *)
WalkStart ==
    /\ StartHandler
    /\ walk' = [p \in Sources |->
                  LET found == seen'[p] /\ (switched \/ ~seen[p])
                      lost == seen[p] /\ (switched \/ ~seen'[p])
                      kept == [walk[p] EXCEPT !.pending = (@ /\ ~lost) \/ found]
                  IN IF pollDue /\ (found \/ lost) THEN Reset(kept) ELSE walk[p]]

WalkRepair ==
    /\ ConsumeRepair
    /\ walk' = [p \in Sources |->
                  IF started /\ repairOwed /\ seen[p] /\ ~walk[p].pending
                  THEN Reset([walk[p] EXCEPT !.pending = TRUE]) ELSE walk[p]]

WalkRead(slot) ==
    /\ ReadState(slot)
    /\ walk' = [walk EXCEPT ![slot \div 2].captured = TRUE]

WalkAccepted ==
    /\ SendAccepted
    /\ walk' = [walk EXCEPT ![target] = Advanced(@)]

WalkChecked ==
    /\ CheckComplete
    /\ walk' = IF Complete THEN walk
               ELSE [walk EXCEPT ![target] = Reset([@ EXCEPT !.pending = TRUE])]

Elsewhere ==
    \/ Environment \/ Start \/ Time \/ \E c \in Clients : Invocation(c)
    \/ NothingDue \/ SendRefused \/ Rearm \/ \E slot \in Slots : SendClock(slot)

WalkNext ==
    /\ UNCHANGED layout
    /\ \/ WalkStart \/ WalkRepair \/ WalkAccepted \/ WalkChecked
       \/ \E slot \in Slots : WalkRead(slot)
       \/ Elsewhere /\ UNCHANGED walk

WalkSpec == WalkInit /\ [][WalkNext]_walkVars /\ Fairness

-----------------------------------------------------------------------------
(* A replay's commands are the ones of Order, each once and in that order, *)
(* whatever ended or restarted the replays before it and wherever in the   *)
(* nesting that was: the cursor stands for SplitSync's count, is over when *)
(* that is, and never points outside the layout (the assertions of         *)
(* kp_rgb_sync_binding_locked, rgb_split_sync.c:264-274).                  *)
Tested(p) == wpc = "check" /\ target = p
WalkInStep ==
    \A p \in Sources :
        /\ walk[p].pending = (pending[p] /\ ~Tested(p))
        /\ walk[p].pending => /\ Bound(walk[p]) = Order(layout)[pos[p]]
                             /\ walk[p].captured = (captured[p] # "no")

(* Why: a cursor in use points into the layout, at the place in the order  *)
(* that is SplitSync's count, Ahead(layout) commands being ahead of those  *)
(* of a selector.  Only a source that is seen is replayed or sent to.      *)
Cursors == [phase : {"brightness", "power", "gates", "color", "period", "selection"},
            word : Nat, selector : Nat, member : Nat, pending : BOOLEAN, captured : BOOLEAN]

InLayout(w) ==
    /\ w.phase \in {"brightness", "power"} => w.word = 0
    /\ w.phase \in {"brightness", "power", "gates"} => w.selector = 0 /\ w.member = 0
    /\ w.phase = "gates" => w.word < layout.words
    /\ w.phase \in {"color", "period", "selection"} => w.selector < Len(layout.members)
    /\ w.phase \in {"color", "period"} => w.member < layout.members[w.selector + 1]
    /\ w.phase = "selection" => w.member = layout.members[w.selector + 1]

Ahead(l) ==
    LET f[s \in 0..Len(l.members)] ==
            IF s = 0 THEN 2 + l.words ELSE f[s - 1] + 2 * l.members[s] + 1
    IN f

Place(w) ==
    CASE w.phase = "brightness" -> 1
      [] w.phase = "power" -> 2
      [] w.phase = "gates" -> 3 + w.word
      [] w.phase \in {"color", "selection"} -> Ahead(layout)[w.selector] + 2 * w.member + 1
      [] w.phase = "period" -> Ahead(layout)[w.selector] + 2 * w.member + 2

Follows(p) ==
    /\ walk[p].pending = (pending[p] /\ ~Tested(p))
    /\ walk[p].pending => /\ InLayout(walk[p]) /\ pos[p] = Place(walk[p])
                         /\ walk[p].captured = (captured[p] # "no")

WalkInv ==
    /\ layout \in Layouts /\ walk \in [Sources -> Cursors]
    /\ \A p \in Sources : pending[p] => seen[p]
    /\ wpc \in {"send", "check"} => pending[target]
    /\ \A p \in Sources : Follows(p)

(* Served in turn: a peripheral that refuses every command, and is due     *)
(* again and again, delays neither the replay of another one nor anybody's *)
(* clock correction for ever ("failed peers retry independently").         *)
PeersServed ==
    /\ ClockServed
    /\ \A p \in Sources \ Broken :
          (started /\ pending[p]) ~> (~pending[p] \/ ~connected[p])
=============================================================================
