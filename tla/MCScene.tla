------------------------------ MODULE MCScene -------------------------------
(* Instances of Scene. *)
EXTENDS Scene

Upper == {2}
Both == {1, 2}
OneAndTwo == <<1, 2>>

=============================================================================
