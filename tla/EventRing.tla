------------------------------ MODULE EventRing ------------------------------
(***************************************************************************)
(* The ring of rgb_matrix.c between the key-event listener and the         *)
(* coordinator: an array of QueueLen entries, a head where the listener    *)
(* writes and a tail where the coordinator reads.  One entry stays empty,  *)
(* so that head = tail means an empty ring only.  Every operation is one   *)
(* step, because each holds kp_rgb_pending_lock from its first read to its *)
(* last write.                                                             *)
(***************************************************************************)
EXTENDS Integers, Sequences

CONSTANTS QueueLen,   \* KP_RGB_EVENT_QUEUE_LEN
          Events,     \* the key events
          NoEvent     \* what an entry holds that was never written

ASSUME QueueLenAssumption == QueueLen \in Nat \ {0}

VARIABLES slots, head, tail,   \* kp_rgb_pending, _head, _tail
          allowed,             \* kp_rgb_output_allowed
          dropped              \* kp_rgb_pending_dropped

ring == <<slots, head, tail, allowed, dropped>>

Indices == 0 .. QueueLen - 1

TypeOK == /\ slots \in [Indices -> Events \cup {NoEvent}]
          /\ head \in Indices
          /\ tail \in Indices
          /\ allowed \in BOOLEAN
          /\ dropped \in Nat

RingInit == /\ slots = [i \in Indices |-> NoEvent]
            /\ head = 0
            /\ tail = 0
            /\ allowed = FALSE
            /\ dropped = 0

Successor(i) == (i + 1) % QueueLen

HasRoomBug == TRUE
HasRoom == Successor(head) # tail

Available == tail # head

(***************************************************************************)
(* kp_rgb_pending_push: refused without a count while the output is off,   *)
(* refused with a count when the ring is full.                             *)
(***************************************************************************)
Push(e) ==
  /\ allowed
  /\ \/ /\ HasRoom
        /\ slots' = [slots EXCEPT ![head] = e]
        /\ head' = Successor(head)
        /\ UNCHANGED dropped
     \/ /\ ~HasRoom
        /\ dropped' = dropped + 1
        /\ UNCHANGED <<slots, head>>
  /\ UNCHANGED <<tail, allowed>>

\* kp_rgb_pending_pop: the oldest event is slots[tail].
Pop == /\ Available
       /\ tail' = Successor(tail)
       /\ UNCHANGED <<slots, head, allowed, dropped>>

\* kp_rgb_pending_take_dropped, after a pass, for the log.
TakeDropped == /\ dropped' = 0
               /\ UNCHANGED <<slots, head, tail, allowed>>

(***************************************************************************)
(* The part of kp_rgb_reconcile_power_locked under the ring's lock: the    *)
(* waiting events and the count are thrown away and admission changes in   *)
(* the same step, so that no event of the old state survives and none of   *)
(* the new one is lost.                                                    *)
(***************************************************************************)
PurgeAndSwitch == /\ tail' = head
                  /\ dropped' = 0
                  /\ allowed' = ~allowed
                  /\ UNCHANGED <<slots, head>>

RingNext == \/ \E e \in Events : Push(e)
            \/ Pop
            \/ TakeDropped
            \/ PurgeAndSwitch

RingSpec == RingInit /\ [][RingNext]_ring

-----------------------------------------------------------------------------

\* From a tail to a head, around the end of the array: how many events wait,
\* the place of the k-th of them, counting from 0, and the events.
CountOf(h, t) == IF t <= h THEN h - t ELSE h - t + QueueLen
Place(t, k) == IF t + k < QueueLen THEN t + k ELSE t + k - QueueLen
ContentsOf(s, h, t) == [i \in 1 .. CountOf(h, t) |-> s[Place(t, i - 1)]]

Contents == ContentsOf(slots, head, tail)

Queue == INSTANCE EventQueue WITH Capacity <- QueueLen - 1,
                                  queue <- Contents,
                                  open <- allowed,
                                  lost <- dropped

(***************************************************************************)
(* The ring is a bounded queue of QueueLen - 1 events: nothing is taken    *)
(* twice, out of order or after it was purged, and the count of refused    *)
(* events never outlives the switch of the output (rgb_matrix.c:517-565).  *)
(***************************************************************************)
RingIsQueue == Queue!Spec
=============================================================================
