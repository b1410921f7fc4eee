------------------------------ MODULE MCLatch -------------------------------
(* Instance of Latch: the keymap and a trigger press it, on a split.       *)
EXTENDS Latch

=============================================================================
