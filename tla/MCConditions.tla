---------------------------- MODULE MCConditions ----------------------------
(* Instances of Conditions: every graph, one defect, one scoped source.    *)
EXTENDS Conditions

EitherSide == BOOLEAN
SomeDefect == {{}, {2}}
SomeScope == {{}, {1}}
LocalOne == {1}

=============================================================================
