----------------------------- MODULE MCCommands -----------------------------
(* Instances of Commands on small ranges that no step divides.             *)
EXTENDS Commands, TLC

Plain == [on |-> TRUE, brt |-> 0, slot |-> 0,
          color |-> [i \in Slots |-> [h |-> HueMax, s |-> 0, b |-> 0]],
          period |-> [i \in Slots |-> MinPeriod]]

Press(op) == Binding(op, 0, 0, Black)

(* Relative and absolute commands on every item but the period, and        *)
(* arguments past their limits or where none belongs.                      *)
SomePresses ==
    {Press(op) : op \in {"TOG", "BRI", "HUI", "SAD", "EFF", "RESET", "RESET_ALL"}}
        \cup {Binding("SPD", 0, 1, Black), Binding("BRT_SET", 0, BrtMax + 1, Black),
              Binding("COLOR_HSB", 0, 0, [h |-> HueMax, s |-> SatMax + 1, b |-> 0])}

CallerSymmetry == Permutations(Callers)

=============================================================================
