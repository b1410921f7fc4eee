----------------------------- MODULE MCSyncWalk -----------------------------
(* An instance of SyncWalk: layouts of nine commands. *)
EXTENDS SyncWalk

MCLayouts == {[words |-> 1, members |-> <<1, 1>>], [words |-> 7, members |-> <<>>],
              [words |-> 2, members |-> <<2>>]}

=============================================================================
