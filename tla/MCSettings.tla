----------------------------- MODULE MCSettings -----------------------------
(* Instances of Settings: one selector, configured with an initial slot    *)
(* that does not exist.                                                    *)
EXTENDS Settings

On == [on |-> TRUE, brightness |-> 1]
Off == [on |-> FALSE, brightness |-> 1]
OnOrOff == {On, Off}
NoSuchSlot == <<2>>

(* The records of a layout without selectors, of one with more slots, and  *)
(* of one with more selectors; a record damaged in each of its bytes, cut  *)
(* off, and run over.                                                      *)
Whole == Encoded([global |-> On, slots |-> <<5>>])
Layouts == {Encoded([global |-> On, slots |-> <<>>]), Whole,
            Encoded([global |-> Off, slots |-> <<1, 4>>])}
Damaged == {[Whole EXCEPT ![i] = 2] : i \in 1..6}
Cut == {SubSeq(Whole, 1, n) : n \in 5..7}
Overrun == {Whole \o <<0>>, Whole \o <<0, 1>>}
OtherFirmware == Layouts \cup Damaged \cup Cut \cup Overrun

=============================================================================
