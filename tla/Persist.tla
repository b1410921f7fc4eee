------------------------------- MODULE Persist -------------------------------
(***************************************************************************)
(* The stored snapshot (src/rgb_persist.c): a header of six bytes, which   *)
(* are its version, the user's intent, the brightness, a zero and the      *)
(* number of selections, and the selections, each a little-endian word.    *)
(***************************************************************************)
EXTENDS Naturals, Sequences

CONSTANTS
    Base,         \* the values of a byte: 256
    MaxBrightness \* 100

ASSUME BaseAssumption == Base \in Nat /\ Base > 1
ASSUME BrightnessAssumption == MaxBrightness \in Nat /\ MaxBrightness < Base

Bytes == 0..(Base - 1)
Words == 0..(Base * Base - 1)
Globals == [on : BOOLEAN, brightness : 0..MaxBrightness]
Records == [global : Globals, slots : Seq(Words)]

Version == 1
HeaderSize == 6
Size(count) == HeaderSize + 2 * count

(* kp_write_u16(), kp_read_u16() *)
Low(word) == word % Base
High(word) == word \div Base
WordAt(bytes, i) == bytes[i] + Base * bytes[i + 1]

(* kp_rgb_persist_encode() *)
Header(global, count) ==
    <<Version, IF global.on THEN 1 ELSE 0, global.brightness, 0, Low(count), High(count)>>

Encoded(record) ==
    Header(record.global, Len(record.slots))
        \o [i \in 1..(2 * Len(record.slots)) |->
               IF i % 2 = 1 THEN Low(record.slots[(i + 1) \div 2])
               ELSE High(record.slots[i \div 2])]

(* kp_rgb_persist_decode(): a prefix of the record is in memory, with room *)
(* for as many slots as there are selectors.                               *)
Count(prefix) == WordAt(prefix, 5)
Copied(prefix, capacity) == IF Count(prefix) < capacity THEN Count(prefix) ELSE capacity

AcceptsBug(prefix, length, capacity) ==
    /\ HeaderSize <= Len(prefix) /\ Len(prefix) <= length
    /\ prefix[1] = Version /\ prefix[2] <= 1 /\ prefix[3] <= MaxBrightness /\ prefix[4] = 0
    /\ Size(Copied(prefix, capacity)) <= Len(prefix)
Accepts(prefix, length, capacity) ==
    /\ HeaderSize <= Len(prefix) /\ Len(prefix) <= length
    /\ prefix[1] = Version /\ prefix[2] <= 1 /\ prefix[3] <= MaxBrightness /\ prefix[4] = 0
    /\ length = Size(Count(prefix))
    /\ Size(Copied(prefix, capacity)) <= Len(prefix)

GlobalIn(prefix) == [on |-> prefix[2] # 0, brightness |-> prefix[3]]
SlotIn(prefix, s) == WordAt(prefix, HeaderSize + 2 * s - 1)

=============================================================================
