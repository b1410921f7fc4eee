------------------------------ MODULE Composite ------------------------------
(***************************************************************************)
(* The composite strip (src/drivers/led_strip_composite.c): one strip that *)
(* is several in a row.  An update gives every child its own pixels; those *)
(* of a child that fails are left unspecified.                             *)
(***************************************************************************)
EXTENDS Naturals, Sequences

CONSTANT ChildLengths \* chain-length of each child, all of them positive

ASSUME ChildrenAssumption ==
    /\ ChildLengths \in Seq(Nat) /\ Len(ChildLengths) > 0
    /\ \A i \in DOMAIN ChildLengths : ChildLengths[i] > 0

Children == DOMAIN ChildLengths
Unspecified == <<>>

(* composite_length(): the sum of the lengths, checked when it is built. *)
LengthUpTo[i \in 0..Len(ChildLengths)] ==
    IF i = 0 THEN 0 ELSE LengthUpTo[i - 1] + ChildLengths[i]
CompositeLength == LengthUpTo[Len(ChildLengths)]

(* composite_update_rgb(): the loop after i children, where slices are the *)
(* pixels each of them has got.                                            *)
NextOffsetBug(offset, count, fails) == IF fails THEN offset ELSE offset + count
NextOffset(offset, count, fails) == offset + count

CompositeUpdate(pixels, failing) ==
    LET after[i \in 0..Len(ChildLengths)] ==
            IF i = 0 THEN [offset |-> 0, slices |-> [c \in Children |-> Unspecified]]
            ELSE LET loop == after[i - 1]
                     left == Len(pixels) - loop.offset
                     count == IF ChildLengths[i] < left THEN ChildLengths[i] ELSE left
                     slice == SubSeq(pixels, loop.offset + 1, loop.offset + count)
                 IN IF left = 0 THEN loop
                    ELSE [offset |-> NextOffset(loop.offset, count, i \in failing),
                          slices |-> [loop.slices EXCEPT
                              ![i] = IF i \in failing THEN Unspecified ELSE slice]]
    IN after[Len(ChildLengths)].slices

=============================================================================
