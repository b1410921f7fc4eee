---------------------------- MODULE MCPreference ----------------------------
(* An instance of Preference. *)
EXTENDS Preference

=============================================================================
