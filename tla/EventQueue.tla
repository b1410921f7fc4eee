----------------------------- MODULE EventQueue -----------------------------
(***************************************************************************)
(* What the key-event ring promises: a bounded queue between the           *)
(* position-event listener, which may never wait, and the low-priority     *)
(* coordinator.  An event is taken in the order it was accepted, exactly   *)
(* once, unless the output is switched in between, which throws away every *)
(* event and every count of refused events of the time before.             *)
(***************************************************************************)
EXTENDS Naturals, Sequences

CONSTANTS Capacity,   \* how many events may wait
          Events      \* the events that are offered

VARIABLES queue,      \* the events that wait, oldest first
          open,       \* is input admitted at all
          lost        \* events refused for want of room, not yet reported

vars == <<queue, open, lost>>

Init == queue = <<>> /\ open = FALSE /\ lost = 0

Accept(e) == /\ open
             /\ Len(queue) < Capacity
             /\ queue' = Append(queue, e)
             /\ UNCHANGED <<open, lost>>

Refuse == /\ open
          /\ Len(queue) = Capacity
          /\ lost' = lost + 1
          /\ UNCHANGED <<queue, open>>

Deliver == /\ queue # <<>>
           /\ queue' = Tail(queue)
           /\ UNCHANGED <<open, lost>>

Switch == /\ open' = ~open
          /\ queue' = <<>>
          /\ lost' = 0

TakeLost == /\ lost' = 0
            /\ UNCHANGED <<queue, open>>

Next == \/ \E e \in Events : Accept(e)
        \/ Refuse
        \/ Deliver
        \/ Switch
        \/ TakeLost

Spec == Init /\ [][Next]_vars
=============================================================================
