---------------------------- MODULE MCSplitSync ----------------------------
(* The runs of SplitSync. *)
EXTENDS SplitSync

=============================================================================
