--------------------------- MODULE SettingsProofs ---------------------------
(* Theorems about Settings, for any number of threads, selectors and slots *)
(* and any records left in the flash.                                      *)
EXTENDS Settings, TLAPS

-----------------------------------------------------------------------------
(* What the operators return *)

LEMMA SlotTypes ==
    /\ Base * Base \in Nat /\ Base * Base > 0
    /\ NumSelectors \in Nat
    /\ NumSlots \in Nat /\ NumSlots > 0
<1>1. Base * Base \in Nat /\ Base * Base > 0
  BY BaseAssumption
<1>. QED BY <1>1, SlotsAssumption DEF Words

LEMMA InitialSlotValid ==
    ASSUME NEW s \in Selectors
    PROVE  InitialSlot(s) \in Words /\ InitialSlot(s) < NumSlots
BY SlotTypes, SlotsAssumption, InitialAssumption DEF InitialSlot, Words

(* A word is two bytes. *)
LEMMA WordOfBytes ==
    ASSUME NEW low \in Bytes, NEW high \in Bytes
    PROVE  low + Base * high \in Words
<1>1. Base * high \in Nat /\ Base * high <= Base * (Base - 1)
  BY BaseAssumption DEF Bytes
<1>2. Base * (Base - 1) = Base * Base - Base /\ Base * Base \in Nat
  BY BaseAssumption
<1>. QED BY <1>1, <1>2, BaseAssumption DEF Bytes, Words

LEMMA WordSplits ==
    ASSUME NEW word \in Nat
    PROVE  /\ word = Base * High(word) + Low(word)
           /\ Low(word) \in Bytes /\ High(word) \in Nat
<1>1. ASSUME NEW b \in Nat, b > 1
      PROVE  /\ word = b * (word \div b) + (word % b)
             /\ word % b \in 0..(b - 1) /\ word \div b \in Nat
  BY ONLY <1>1, word \in Nat
<1>. QED BY <1>1, BaseAssumption DEF Low, High, Bytes

LEMMA BytesOfWord ==
    ASSUME NEW word \in Words
    PROVE  Low(word) \in Bytes /\ High(word) \in Bytes
<1>1. word \in Nat /\ word < Base * Base /\ Base * Base \in Nat
  BY BaseAssumption DEF Words
<1>2. /\ word = Base * High(word) + Low(word)
      /\ Low(word) \in Bytes /\ High(word) \in Nat
  BY <1>1, WordSplits
<1>3. ASSUME High(word) >= Base PROVE FALSE
  <2>1. Base * High(word) >= Base * Base
    BY <1>2, <1>3, BaseAssumption
  <2>. QED BY <1>1, <1>2, <2>1, BaseAssumption DEF Bytes
<1>. QED BY <1>2, <1>3, BaseAssumption DEF Bytes

(* What is stored is bytes, *)
LEMMA EncodedIsBytes ==
    ASSUME NEW record \in Snapshots
    PROVE  Encoded(record) \in Seq(Bytes)
<1>. DEFINE count == Len(record.slots)
            header == Header(record.global, count)
            slots == [i \in 1..(2 * count) |->
                        IF i % 2 = 1 THEN Low(record.slots[(i + 1) \div 2])
                        ELSE High(record.slots[i \div 2])]
<1>1. record.slots \in Seq(Words) /\ count = NumSelectors
  BY SlotTypes DEF Snapshots, Selectors
<1>2. count \in Words
  BY <1>1, SlotsAssumption
<1>3. header \in Seq(Bytes)
  BY <1>2, BytesOfWord, BaseAssumption, BrightnessAssumption
     DEF Header, Snapshots, Globals, Bytes, Version
<1>4. slots \in Seq(Bytes)
  <2>1. ASSUME NEW i \in 1..(2 * count) PROVE slots[i] \in Bytes
    <3>1. CASE i % 2 = 1
      <4>1. (i + 1) \div 2 \in 1..count
        BY <3>1, <1>1, SlotTypes
      <4>. QED BY <3>1, <4>1, <1>1, BytesOfWord
    <3>2. CASE i % 2 # 1
      <4>1. i \div 2 \in 1..count
        BY <3>2, <1>1, SlotTypes
      <4>. QED BY <3>2, <4>1, <1>1, BytesOfWord
    <3>. QED BY <3>1, <3>2
  <2>2. 2 * count \in Nat
    BY <1>1, SlotTypes
  <2>. HIDE DEF count
  <2>. QED BY <2>1, <2>2
<1>. HIDE DEF header, slots
<1>5. header \o slots \in Seq(Bytes)
  BY <1>3, <1>4
<1>. QED BY <1>5 DEF header, slots, Encoded

(* and a record that is accepted is read within its bounds. *)
LEMMA DecodedReadable ==
    ASSUME flash \in Seq(Bytes), Readable
    PROVE  Decoded \in Snapshots
<1>. DEFINE p == Prefix
<1>1. /\ p \in Seq(Bytes)
      /\ Len(p) >= HeaderSize
      /\ p[2] <= 1 /\ p[3] <= MaxBrightness
      /\ Size(Copied(p, NumSelectors)) <= Len(p)
  BY SlotTypes DEF Prefix, Readable, Accepts, LengthValid, Size, HeaderSize
<1>. HIDE DEF p
<1>2. \A i \in 1..Len(p) : p[i] \in Bytes
  BY <1>1
<1>3. Count(p) \in Words
  BY <1>1, <1>2, WordOfBytes DEF Count, WordAt, HeaderSize
<1>4. GlobalIn(p) \in Globals
  <2>1. p[3] \in 0..MaxBrightness
    BY <1>1, <1>2, BrightnessAssumption, BaseAssumption DEF HeaderSize, Bytes
  <2>. QED BY <2>1 DEF GlobalIn, Globals
<1>5. ASSUME NEW s \in Selectors, s <= Count(p)
      PROVE  SlotIn(p, s) \in Words
  <2>1. Count(p) \in Nat
    BY <1>3, BaseAssumption DEF Words
  <2>2. s <= Copied(p, NumSelectors) /\ Copied(p, NumSelectors) \in Nat
    BY <1>5, <2>1, SlotTypes DEF Copied, Selectors
  <2>3. HeaderSize + 2 * s <= Len(p) /\ s \in Nat /\ s >= 1
    BY <1>1, <2>2, SlotTypes DEF Size, HeaderSize, Selectors
  <2>4. /\ HeaderSize + 2 * s - 1 \in 1..Len(p)
        /\ HeaderSize + 2 * s - 1 + 1 \in 1..Len(p)
    BY <1>1, <2>3 DEF HeaderSize
  <2>. QED BY <1>2, <2>4, WordOfBytes DEF SlotIn, WordAt
<1>6. \A s \in Selectors :
         (IF s <= Count(p) THEN SlotIn(p, s) ELSE InitialSlot(s)) \in Words
  BY <1>5, InitialSlotValid
<1>. QED BY <1>4, <1>6 DEF Decoded, Snapshots, p

(* A word is what its two bytes say. *)
LEMMA WordRead ==
    ASSUME NEW word \in Words
    PROVE  Low(word) + Base * High(word) = word
<1>1. word \in Nat /\ Base \in Nat /\ Base > 0
  BY BaseAssumption DEF Words
<1>. QED BY <1>1 DEF Low, High

LEMMA Joined ==
    ASSUME NEW a \in Seq(Nat), NEW b \in Seq(Nat)
    PROVE  /\ a \o b \in Seq(Nat) /\ Len(a \o b) = Len(a) + Len(b)
           /\ \A i \in 1..Len(a) : (a \o b)[i] = a[i]
           /\ \A i \in 1..Len(b) : (a \o b)[Len(a) + i] = b[i]
OBVIOUS

(* The layout of a record: where its parts are among the bytes. *)
LEMMA Layout ==
    ASSUME NEW n \in Nat, NEW record,
           record.global \in Globals, record.slots \in [1..n -> Words]
    PROVE  LET e == Encoded(record) IN
           /\ Len(record.slots) = n
           /\ e \in Seq(Nat) /\ Len(e) = HeaderSize + 2 * n
           /\ \A i \in 1..HeaderSize : e[i] = Header(record.global, n)[i]
           /\ \A s \in 1..n :
                 /\ e[HeaderSize + 2 * s - 1] = Low(record.slots[s])
                 /\ e[HeaderSize + 2 * s] = High(record.slots[s])
<1>. DEFINE header == Header(record.global, n)
            slots == [i \in 1..(2 * n) |->
                        IF i % 2 = 1 THEN Low(record.slots[(i + 1) \div 2])
                        ELSE High(record.slots[i \div 2])]
            e == header \o slots
<1>1. record.slots \in Seq(Words) /\ Len(record.slots) = n
  OBVIOUS
<1>2. Encoded(record) = e
  BY <1>1 DEF Encoded
<1>3. header \in Seq(Nat) /\ Len(header) = HeaderSize
  <2>1. Low(n) \in Nat /\ High(n) \in Nat
    BY BaseAssumption DEF Low, High
  <2>2. record.global.brightness \in Nat
    BY BrightnessAssumption DEF Globals
  <2>. QED BY <2>1, <2>2 DEF Header, Version, HeaderSize
<1>4. ASSUME NEW s \in 1..n
      PROVE  /\ 2 * s - 1 \in 1..(2 * n) /\ 2 * s \in 1..(2 * n)
             /\ (2 * s - 1) % 2 = 1 /\ (2 * s - 1 + 1) \div 2 = s
             /\ (2 * s) % 2 = 0 /\ (2 * s) \div 2 = s
  OBVIOUS
<1>5. \A s \in 1..n : /\ slots[2 * s - 1] = Low(record.slots[s])
                           /\ slots[2 * s] = High(record.slots[s])
  <2>1. \A i \in 1..(2 * n) :
           slots[i] = IF i % 2 = 1 THEN Low(record.slots[(i + 1) \div 2])
                      ELSE High(record.slots[i \div 2])
    OBVIOUS
  <2>. HIDE DEF slots
  <2>2. ASSUME NEW s \in 1..n PROVE slots[2 * s - 1] = Low(record.slots[s])
    <3>. DEFINE i == 2 * s - 1
    <3>1. i \in 1..(2 * n) /\ i % 2 = 1 /\ (i + 1) \div 2 = s
      BY <1>4
    <3>. HIDE DEF i
    <3>2. slots[i] = Low(record.slots[s])
      BY <2>1, <3>1
    <3>. QED BY <3>2 DEF i
  <2>3. ASSUME NEW s \in 1..n PROVE slots[2 * s] = High(record.slots[s])
    <3>. DEFINE i == 2 * s
    <3>1. i \in 1..(2 * n) /\ i % 2 = 0 /\ i \div 2 = s
      BY <1>4
    <3>. HIDE DEF i
    <3>2. i % 2 # 1
      BY <3>1
    <3>3. slots[i] = High(record.slots[s])
      BY <2>1, <3>1, <3>2
    <3>. QED BY <3>3 DEF i
  <2>. QED BY <2>2, <2>3
<1>6. slots \in Seq(Bytes) /\ Len(slots) = 2 * n
  <2>1. ASSUME NEW i \in 1..(2 * n) PROVE slots[i] \in Bytes
    <3>1. CASE i % 2 = 1
      <4>1. (i + 1) \div 2 \in 1..n
        BY <3>1
      <4>. QED BY <3>1, <4>1, <1>1, BytesOfWord
    <3>2. CASE i % 2 # 1
      <4>1. i \div 2 \in 1..n
        BY <3>2, SlotTypes
      <4>. QED BY <3>2, <4>1, <1>1, BytesOfWord
    <3>. QED BY <3>1, <3>2
  <2>2. 2 * n \in Nat
    OBVIOUS
  <2>. QED BY <2>1, <2>2
<1>. HIDE DEF header, slots
<1>7. /\ e \in Seq(Nat) /\ Len(e) = HeaderSize + 2 * n
      /\ \A i \in 1..HeaderSize : e[i] = header[i]
      /\ \A i \in 1..(2 * n) : e[HeaderSize + i] = slots[i]
  <2>1. slots \in Seq(Nat)
    BY <1>6, BaseAssumption DEF Bytes
  <2>2. HeaderSize \in Nat
    BY DEF HeaderSize
  <2>. HIDE DEF HeaderSize
  <2>3. /\ e \in Seq(Nat) /\ Len(e) = Len(header) + Len(slots)
        /\ \A i \in 1..Len(header) : e[i] = header[i]
        /\ \A i \in 1..Len(slots) : e[Len(header) + i] = slots[i]
    BY <1>3, <2>1, Joined
  <2>. HIDE DEF e
  <2>. QED BY <1>3, <1>6, <2>2, <2>3
<1>8. ASSUME NEW s \in 1..n
      PROVE  /\ e[HeaderSize + 2 * s - 1] = Low(record.slots[s])
             /\ e[HeaderSize + 2 * s] = High(record.slots[s])
  <2>1. HeaderSize + 2 * s - 1 = HeaderSize + (2 * s - 1)
    BY DEF HeaderSize
  <2>. QED BY <1>4, <1>5, <1>7, <2>1
<1>. HIDE DEF e
<1>. QED BY <1>1, <1>2, <1>7, <1>8 DEF header

LEMMA BytesRead ==
    ASSUME NEW low \in Bytes, NEW high \in Bytes
    PROVE  Low(low + Base * high) = low /\ High(low + Base * high) = high
<1>. DEFINE word == low + Base * high
<1>1. word \in Words /\ word \in Nat
  BY WordOfBytes, BaseAssumption DEF Words
<1>2. word = Base * High(word) + Low(word) /\ Low(word) \in Bytes /\ High(word) \in Bytes
  BY <1>1, BytesOfWord, WordRead, BaseAssumption DEF Bytes
<1>. HIDE DEF word
<1>3. word = low + Base * high
  BY DEF word
<1>4. ASSUME NEW q \in Bytes, NEW r \in Bytes, NEW t \in Bytes, NEW u \in Bytes, q < t
      PROVE  Base * q + r < Base * t + u
  <2>1. Base * t >= Base * (q + 1) /\ Base * (q + 1) = Base * q + Base
    BY <1>4, BaseAssumption DEF Bytes
  <2>. QED BY <2>1, BaseAssumption DEF Bytes
<1>5. High(word) = high
  <2>1. ~(High(word) < high) /\ ~(high < High(word))
    BY <1>2, <1>3, <1>4, BaseAssumption DEF Bytes
  <2>. QED BY <1>2, <2>1, BaseAssumption DEF Bytes
<1>6. Low(word) = low
  <2>. DEFINE whole == Base * high
  <2>1. whole \in Nat /\ low \in Nat /\ Low(word) \in Nat
    BY <1>2, BaseAssumption DEF Bytes
  <2>2. word = whole + Low(word) /\ word = low + whole
    BY <1>2, <1>3, <1>5, <2>1
  <2>. HIDE DEF whole
  <2>. QED BY <2>1, <2>2
<1>. QED BY <1>5, <1>6 DEF word

(* A record's parts are read from its bytes, *)
LEMMA PartsRead ==
    ASSUME NEW n \in Words, NEW record,
           record.global \in Globals, record.slots \in [1..n -> Words]
    PROVE  LET e == Encoded(record) IN
           /\ e[1] = Version /\ e[2] <= 1 /\ e[3] <= MaxBrightness /\ e[4] = 0
           /\ Count(e) = n /\ GlobalIn(e) = record.global
           /\ \A s \in 1..n : SlotIn(e, s) = record.slots[s]
<1>. DEFINE e == Encoded(record)
<1>0. n \in Nat
  BY BaseAssumption DEF Words
<1>1. /\ e[1] = Version /\ e[2] = (IF record.global.on THEN 1 ELSE 0)
      /\ e[3] = record.global.brightness /\ e[4] = 0 /\ e[5] = Low(n) /\ e[6] = High(n)
  <2>1. \A i \in 1..6 : e[i] = Header(record.global, n)[i]
    BY <1>0, Layout DEF HeaderSize
  <2>. QED BY <2>1 DEF Header
<1>2. \A s \in 1..n : /\ e[HeaderSize + 2 * s - 1] = Low(record.slots[s])
                      /\ e[HeaderSize + 2 * s] = High(record.slots[s])
  BY <1>0, Layout
<1>. HIDE DEF e
<1>3. e[2] <= 1 /\ e[3] <= MaxBrightness /\ GlobalIn(e) = record.global
  BY <1>1, BrightnessAssumption DEF GlobalIn, Globals
<1>4. Count(e) = n
  BY <1>1, WordRead DEF Count, WordAt
<1>5. ASSUME NEW s \in 1..n PROVE SlotIn(e, s) = record.slots[s]
  <2>1. HeaderSize + 2 * s - 1 + 1 = HeaderSize + 2 * s
    BY <1>0 DEF HeaderSize
  <2>. QED BY <1>2, <2>1, WordRead DEF SlotIn, WordAt
<1>. QED BY <1>1, <1>3, <1>4, <1>5 DEF e

(* and from the part of it in memory, if that has them. *)
LEMMA PrefixRead ==
    ASSUME flash \in Seq(Nat), HeaderSize <= Len(flash)
    PROVE  /\ HeaderSize <= Len(Prefix) /\ Len(Prefix) <= Len(flash)
           /\ Size(NumSelectors) <= Len(Prefix) \/ Len(Prefix) = Len(flash)
           /\ \A i \in 1..4 : Prefix[i] = flash[i]
           /\ Count(Prefix) = Count(flash) /\ GlobalIn(Prefix) = GlobalIn(flash)
           /\ \A s \in Selectors :
                 Size(s) <= Len(flash) => SlotIn(Prefix, s) = SlotIn(flash, s)
<1>. DEFINE m == IF Len(flash) < Size(NumSelectors) THEN Len(flash) ELSE Size(NumSelectors)
<1>1. Size(NumSelectors) \in Nat /\ HeaderSize <= Size(NumSelectors)
  BY SlotTypes DEF Size, HeaderSize
<1>2. /\ m \in Nat /\ HeaderSize <= m /\ m <= Len(flash)
      /\ Size(NumSelectors) <= m \/ m = Len(flash)
  BY <1>1
<1>. HIDE DEF m
<1>3. Len(Prefix) = m /\ \A i \in 1..m : Prefix[i] = flash[i]
  BY <1>2 DEF Prefix, m
<1>4. \A i \in 1..6 : Prefix[i] = flash[i]
  BY <1>2, <1>3 DEF HeaderSize
<1>5. ASSUME NEW s \in Selectors, Size(s) <= Len(flash)
      PROVE  SlotIn(Prefix, s) = SlotIn(flash, s)
  <2>1. s \in Nat /\ s >= 1 /\ Size(s) <= Size(NumSelectors) /\ Size(s) \in Nat
    BY SlotTypes DEF Size, HeaderSize, Selectors
  <2>2. HeaderSize + 2 * s <= m
    BY <1>1, <1>2, <1>5, <2>1 DEF Size
  <2>3. HeaderSize + 2 * s - 1 \in 1..m /\ HeaderSize + 2 * s - 1 + 1 \in 1..m
    BY <1>2, <2>1, <2>2 DEF HeaderSize
  <2>. DEFINE i == HeaderSize + 2 * s - 1
  <2>4. i \in 1..m /\ i + 1 \in 1..m
    BY <2>3
  <2>. HIDE DEF i
  <2>5. WordAt(Prefix, i) = WordAt(flash, i)
    BY <1>3, <2>4 DEF WordAt
  <2>. QED BY <2>5 DEF SlotIn, i
<1>6. Count(Prefix) = Count(flash) /\ GlobalIn(Prefix) = GlobalIn(flash)
  BY <1>4 DEF Count, WordAt, GlobalIn
<1>7. \A i \in 1..4 : Prefix[i] = flash[i]
  BY <1>4
<1>. QED BY <1>2, <1>3, <1>5, <1>6, <1>7

(* Whatever an encoder wrote is accepted, and taken as what was encoded,   *)
LEMMA EncodedIsRead ==
    ASSUME NEW n \in Words, NEW record,
           record.global \in Globals, record.slots \in [1..n -> Words],
           flash = Encoded(record)
    PROVE  Readable /\ Decoded = Completed(record)
<1>0. n \in Nat /\ n < Base * Base
  BY SlotTypes DEF Words
<1>1. flash \in Seq(Nat) /\ Len(flash) = Size(n) /\ Len(record.slots) = n
  BY <1>0, Layout DEF Size
<1>2. /\ flash[1] = Version /\ flash[2] <= 1 /\ flash[3] <= MaxBrightness /\ flash[4] = 0
      /\ Count(flash) = n /\ GlobalIn(flash) = record.global
      /\ \A s \in 1..n : SlotIn(flash, s) = record.slots[s]
  BY PartsRead
<1>3. HeaderSize <= Len(flash) /\ Len(flash) - HeaderSize = 2 * n
  BY <1>0, <1>1 DEF Size, HeaderSize
<1>4. LengthValid
  <2>1. (2 * n) % 2 = 0 /\ (2 * n) \div 2 = n
    BY <1>0
  <2>. QED BY <1>0, <1>3, <2>1 DEF LengthValid
<1>5. Size(Copied(Prefix, NumSelectors)) <= Len(Prefix)
  <2>1. Count(Prefix) = n
    BY <1>1, <1>2, <1>3, PrefixRead
  <2>2. /\ Size(Copied(Prefix, NumSelectors)) <= Size(n)
        /\ Size(Copied(Prefix, NumSelectors)) <= Size(NumSelectors)
        /\ Size(Copied(Prefix, NumSelectors)) \in Nat /\ Size(NumSelectors) \in Nat
    BY <1>0, <2>1, SlotTypes DEF Copied, Size, HeaderSize
  <2>3. Size(NumSelectors) <= Len(Prefix) \/ Len(Prefix) = Len(flash)
    BY <1>1, <1>3, PrefixRead
  <2>4. Len(Prefix) \in Nat
    BY <1>1, SlotTypes DEF Prefix, Size, HeaderSize
  <2>. QED BY <1>1, <2>2, <2>3, <2>4
<1>6. Accepts(Prefix, Len(flash), NumSelectors)
  BY <1>1, <1>2, <1>3, <1>5, PrefixRead DEF Accepts
<1>7. ASSUME NEW s \in Selectors
      PROVE  (IF s <= Count(Prefix) THEN SlotIn(Prefix, s) ELSE InitialSlot(s))
                = (IF s <= Len(record.slots) THEN record.slots[s] ELSE InitialSlot(s))
  <2>1. Count(Prefix) = n
    BY <1>1, <1>2, <1>3, PrefixRead
  <2>2. ASSUME s <= n PROVE SlotIn(Prefix, s) = record.slots[s]
    <3>1. s \in 1..n /\ Size(s) <= Size(n)
      BY <1>0, <2>2, SlotTypes DEF Selectors, Size, HeaderSize
    <3>. QED BY <1>1, <1>2, <1>3, <3>1, PrefixRead
  <2>. QED BY <1>1, <2>1, <2>2
<1>8. GlobalIn(Prefix) = record.global
  BY <1>1, <1>2, <1>3, PrefixRead
<1>9. Decoded = Completed(record)
  BY <1>7, <1>8 DEF Decoded, Completed
<1>. QED BY <1>4, <1>6, <1>9 DEF Readable

(* and whatever is accepted an encoder wrote. *)
LEMMA ReadIsEncoded ==
    ASSUME flash \in Seq(Bytes), Readable
    PROVE  \E n \in Words : \E record \in [global : Globals, slots : [1..n -> Words]] :
              Size(n) = Len(flash) /\ flash = Encoded(record)
<1>. DEFINE n == Count(flash)
            record == [global |-> GlobalIn(flash), slots |-> [s \in 1..n |-> SlotIn(flash, s)]]
            e == Encoded(record)
<1>1. flash \in Seq(Nat) /\ HeaderSize <= Len(flash)
  BY BaseAssumption DEF Bytes, Readable, LengthValid
<1>2. /\ flash[1] = Version /\ flash[2] <= 1 /\ flash[3] <= MaxBrightness /\ flash[4] = 0
      /\ Len(flash) = Size(n)
  BY <1>1, PrefixRead DEF Readable, Accepts
<1>3. \A i \in 1..Len(flash) : flash[i] \in Bytes
  OBVIOUS
<1>4. \A i \in 1..6 : flash[i] \in Bytes
  BY <1>1, <1>3 DEF HeaderSize
<1>5. n \in Words /\ n \in Nat /\ Low(n) = flash[5] /\ High(n) = flash[6]
  <2>1. n = flash[5] + Base * flash[6]
    BY DEF Count, WordAt
  <2>2. flash[5] \in Bytes /\ flash[6] \in Bytes
    BY <1>4
  <2>. HIDE DEF n
  <2>3. n \in Words /\ Low(n) = flash[5] /\ High(n) = flash[6]
    BY <2>1, <2>2, WordOfBytes, BytesRead
  <2>. QED BY <2>3, BaseAssumption DEF Words
<1>. HIDE DEF n
<1>6. ASSUME NEW s \in 1..n
      PROVE  /\ HeaderSize + 2 * s - 1 \in 1..Len(flash) /\ HeaderSize + 2 * s \in 1..Len(flash)
             /\ SlotIn(flash, s) \in Words
             /\ Low(SlotIn(flash, s)) = flash[HeaderSize + 2 * s - 1]
             /\ High(SlotIn(flash, s)) = flash[HeaderSize + 2 * s]
  <2>1. /\ HeaderSize + 2 * s - 1 \in 1..Len(flash) /\ HeaderSize + 2 * s \in 1..Len(flash)
        /\ HeaderSize + 2 * s - 1 + 1 = HeaderSize + 2 * s
    BY <1>2, <1>5 DEF Size, HeaderSize
  <2>. QED BY <1>3, <2>1, WordOfBytes, BytesRead DEF SlotIn, WordAt
<1>7. GlobalIn(flash) \in Globals /\ flash[2] \in {0, 1}
  <2>. DEFINE on == flash[2]
              bright == flash[3]
  <2>1. on \in Bytes /\ bright \in Bytes /\ on <= 1 /\ bright <= MaxBrightness
    BY <1>2, <1>4
  <2>. HIDE DEF on, bright
  <2>2. on \in {0, 1} /\ bright \in 0..MaxBrightness
    BY <2>1, BrightnessAssumption, BaseAssumption DEF Bytes
  <2>. QED BY <2>2 DEF GlobalIn, Globals, on, bright
<1>8. /\ record.global = GlobalIn(flash) /\ record.slots \in [1..n -> Words]
      /\ \A s \in 1..n : record.slots[s] = SlotIn(flash, s)
      /\ record \in [global : Globals, slots : [1..n -> Words]]
  BY <1>6, <1>7
<1>. HIDE DEF record
<1>9. /\ e \in Seq(Nat) /\ Len(e) = Len(flash)
      /\ \A i \in 1..HeaderSize : e[i] = Header(record.global, n)[i]
      /\ \A s \in 1..n : /\ e[HeaderSize + 2 * s - 1] = Low(record.slots[s])
                         /\ e[HeaderSize + 2 * s] = High(record.slots[s])
  <2>1. record.global \in Globals /\ record.slots \in [1..n -> Words] /\ n \in Nat
    BY <1>5, <1>7, <1>8
  <2>2. /\ e \in Seq(Nat) /\ Len(e) = HeaderSize + 2 * n
        /\ \A i \in 1..HeaderSize : e[i] = Header(record.global, n)[i]
        /\ \A s \in 1..n : /\ e[HeaderSize + 2 * s - 1] = Low(record.slots[s])
                           /\ e[HeaderSize + 2 * s] = High(record.slots[s])
    BY <2>1, Layout
  <2>3. Len(flash) = HeaderSize + 2 * n
    BY <1>2 DEF Size
  <2>. HIDE DEF e
  <2>. QED BY <2>2, <2>3
<1>. HIDE DEF e
<1>10. ASSUME NEW i \in 1..Len(flash) PROVE e[i] = flash[i]
  <2>1. CASE i \in 1..6
    <3>1. Header(record.global, n)
             = <<Version, IF flash[2] # 0 THEN 1 ELSE 0, flash[3], 0, flash[5], flash[6]>>
      <4>1. record.global.on = (flash[2] # 0) /\ record.global.brightness = flash[3]
        BY <1>8 DEF GlobalIn
      <4>2. Low(n) = flash[5] /\ High(n) = flash[6]
        BY <1>5
      <4>. QED BY <4>1, <4>2, Zenon DEF Header
    <3>2. Header(record.global, n)
             = <<flash[1], flash[2], flash[3], flash[4], flash[5], flash[6]>>
      BY <1>2, <1>7, <3>1
    <3>3. e[i] = <<flash[1], flash[2], flash[3], flash[4], flash[5], flash[6]>>[i]
      BY <1>9, <2>1, <3>2 DEF HeaderSize
    <3>. QED BY <2>1, <3>3
  <2>2. CASE i \notin 1..6
    <3>1. i \in Nat /\ i > 6 /\ i <= 6 + 2 * n
      BY <1>2, <1>5, <2>2 DEF Size, HeaderSize
    <3>2. PICK s \in 1..n : i = 6 + 2 * s - 1 \/ i = 6 + 2 * s
      <4>1. (i - 5) \div 2 \in 1..n
        BY <1>5, <3>1
      <4>2. i = 6 + 2 * ((i - 5) \div 2) - 1 \/ i = 6 + 2 * ((i - 5) \div 2)
        BY <3>1
      <4>. QED BY <4>1, <4>2
    <3>. QED BY <1>6, <1>8, <1>9, <3>2 DEF HeaderSize
  <2>. QED BY <2>1, <2>2
<1>11. flash = e
  <2>1. flash = [i \in 1..Len(flash) |-> flash[i]] /\ e = [i \in 1..Len(e) |-> e[i]]
    BY <1>1, <1>9
  <2>. QED BY <1>9, <1>10, <2>1
<1>. QED BY <1>2, <1>5, <1>8, <1>11 DEF e

(* What the firmware stores it reads back: the record is accepted, and it  *)
(* decodes to the state that was encoded (rgb_persist.c).                  *)
THEOREM StoredIsRead ==
    ASSUME NEW record \in Snapshots, flash = Encoded(record)
    PROVE  Readable /\ Decoded = record
<1>1. /\ record.global \in Globals /\ record.slots \in [1..NumSelectors -> Words]
      /\ NumSelectors \in Words /\ NumSelectors \in Nat
  BY SlotsAssumption, SlotTypes DEF Snapshots, Selectors
<1>2. Readable /\ Decoded = Completed(record)
  BY <1>1, EncodedIsRead
<1>3. Len(record.slots) = NumSelectors /\ \A s \in Selectors : s <= NumSelectors
  BY <1>1 DEF Selectors
<1>4. Completed(record) = record
  BY <1>1, <1>3 DEF Completed, Snapshots, Selectors
<1>. QED BY <1>2, <1>4

LEMMA ReadExactly == flash \in Seq(Bytes) => RecordsRead
<1>. SUFFICES ASSUME flash \in Seq(Bytes) PROVE RecordsRead
  OBVIOUS
<1>1. ASSUME Readable PROVE <<flash, Decoded>> \in Readings
  <2>0. PICK n \in Words :
           \E record \in [global : Globals, slots : [1..n -> Words]] :
              Size(n) = Len(flash) /\ flash = Encoded(record)
    BY <1>1, ReadIsEncoded
  <2>1. PICK record \in [global : Globals, slots : [1..n -> Words]] :
           Size(n) = Len(flash) /\ flash = Encoded(record)
    BY <2>0
  <2>2. record.global \in Globals /\ record.slots \in [1..n -> Words]
    OBVIOUS
  <2>3. Decoded = Completed(record)
    BY <2>1, <2>2, EncodedIsRead
  <2>4. n \in 0..Len(flash)
    BY <2>1, BaseAssumption DEF Words, Size, HeaderSize
  <2>5. record \in Stored
    BY <2>1, <2>4 DEF Stored
  <2>. QED BY <2>1, <2>3, <2>5 DEF Readings
<1>2. ASSUME NEW record \in Stored, flash = Encoded(record) PROVE Readable
  <2>1. PICK n \in 0..Len(flash) : record \in [global : Globals, slots : [1..n -> Words]]
    BY DEF Stored
  <2>2. record.global \in Globals /\ record.slots \in [1..n -> Words] /\ n \in Nat
    BY <2>1
  <2>3. flash[6] = Header(record.global, n)[6] /\ Len(flash) = HeaderSize + 2 * n
    <3>. DEFINE e == Encoded(record)
    <3>1. Len(e) = HeaderSize + 2 * n /\ \A i \in 1..HeaderSize : e[i] = Header(record.global, n)[i]
      BY <2>2, Layout
    <3>2. flash = e /\ 6 \in 1..HeaderSize
      BY <1>2 DEF HeaderSize
    <3>. HIDE DEF e
    <3>. QED BY <3>1, <3>2
  <2>4. High(n) \in Bytes
    BY <2>2, <2>3 DEF Header, HeaderSize
  <2>5. n \in Words
    <3>1. n = Base * High(n) + Low(n) /\ Low(n) \in Bytes
      BY <2>2, WordSplits
    <3>2. Low(n) + Base * High(n) \in Words
      BY <2>4, <3>1, WordOfBytes
    <3>. QED BY <2>4, <3>1, <3>2, BaseAssumption DEF Bytes
  <2>. QED BY <1>2, <2>2, <2>5, EncodedIsRead
<1>. QED BY <1>1, <1>2 DEF RecordsRead, Encodings

LEMMA RestoredReadable ==
    ASSUME current \in Snapshots, staged \in Snapshots \cup {Nothing}
    PROVE  /\ Restored \in Snapshots
           /\ staged # Nothing =>
                 \A s \in Selectors : Restored.slots[s] < NumSlots
<1>1. CASE staged = Nothing
  BY <1>1 DEF Restored
<1>2. CASE staged # Nothing
  <2>1. staged.global \in Globals /\ \A s \in Selectors : staged.slots[s] \in Words
    BY <1>2 DEF Snapshots
  <2>2. \A s \in Selectors : RestoredSlot(s) \in Words /\ RestoredSlot(s) < NumSlots
    BY <2>1, InitialSlotValid DEF RestoredSlot, Words
  <2>. QED
    BY <1>2, <2>1, <2>2 DEF Restored, Snapshots
<1>. QED BY <1>1, <1>2

LEMMA ResolvedValid ==
    ASSUME NEW slot \in Words
    PROVE  Resolved(slot) \in Words /\ Resolved(slot) < NumSlots
BY SlotTypes DEF Resolved, Words

LEMMA DefaultsReadable == Defaults \in Snapshots
BY InitialAssumption DEF Defaults, Snapshots

-----------------------------------------------------------------------------
(* Type correctness *)

(* The state the operations leave behind, and what a reset stages. *)
LEMMA OperationTypes ==
    ASSUME TypeOK, Operation
    PROVE  TypeOK'
<1>. USE DEF TypeOK, saveVars, workVars, liveVars
<1>1. ASSUME NEW c \in Clients, NEW g \in Choices, NEW save \in BOOLEAN,
             SetGlobal(c, g, save)
      PROVE  TypeOK'
  <2>1. current' \in Snapshots
    BY <1>1, InitialAssumption DEF SetGlobal, Snapshots
  <2>. QED BY <1>1, <2>1 DEF SetGlobal, Remembered
<1>2. ASSUME NEW s \in Selectors, ResetSelector(s) PROVE TypeOK'
  <2>1. current' \in Snapshots
    BY <1>2, InitialSlotValid DEF ResetSelector, Snapshots
  <2>2. staged' \in Snapshots \cup {Nothing}
    BY <1>2, InitialSlotValid DEF ResetSelector, StagedAfterReset, Snapshots
  <2>3. resets' \subseteq Parts
    BY <1>2, SlotsAssumption DEF ResetSelector, Parts, Selectors
  <2>. QED BY <1>2, <2>1, <2>2, <2>3 DEF ResetSelector, RequestSave, Requested
<1>3. ASSUME NEW s \in Selectors, NEW slot \in 0..(NumSlots - 1), SelectSlot(s, slot)
      PROVE  TypeOK'
  <2>1. slot \in Words
    BY SlotsAssumption, SlotTypes DEF Words
  <2>2. current' \in Snapshots
    BY <1>3, <2>1 DEF SelectSlot, Snapshots
  <2>. QED BY <1>3, <2>2 DEF SelectSlot, RequestSave, Requested
<1>4. CASE ResetState
  <2>1. current' \in Snapshots
    BY <1>4, DefaultsReadable, InitialSlotValid DEF ResetState, Defaults, Snapshots
  <2>. QED BY <1>4, <2>1 DEF ResetState, RequestSave, Requested, Parts
<1>5. CASE Load
  <2>1. Readable => Decoded \in Snapshots
    BY DecodedReadable
  <2>. QED BY <1>5, <2>1 DEF Load
<1>. QED BY <1>1, <1>2, <1>3, <1>4, <1>5 DEF Operation

LEMMA CommitTypes ==
    ASSUME TypeOK, Commit
    PROVE  TypeOK'
<1>. USE DEF TypeOK
<1>1. Restored \in Snapshots
  BY RestoredReadable
<1>2. \A s \in Selectors : Resolved(Restored.slots[s]) \in Words
  BY <1>1, ResolvedValid DEF Snapshots
<1>3. current' \in Snapshots
  BY <1>1, <1>2 DEF Commit, Snapshots
<1>. QED BY <1>3 DEF Commit, Remembered, saveVars, workVars

LEMMA StepTypes == TypeOK /\ [Next]_vars => TypeOK'
<1>. SUFFICES ASSUME TypeOK, [Next]_vars PROVE TypeOK'
  OBVIOUS
<1>1. CASE Operation
  BY <1>1, OperationTypes
<1>2. CASE Commit
  BY <1>2, CommitTypes
<1>. USE DEF TypeOK, saveVars, workVars, liveVars
<1>3. ASSUME NEW c \in Clients, SaveState(c) PROVE TypeOK'
  BY <1>3 DEF SaveState, RequestSave, Requested
<1>4. CASE TakeWork
  BY <1>4 DEF TakeWork
<1>5. CASE NothingToSave
  BY <1>5 DEF NothingToSave
<1>6. CASE TooEarly
  BY <1>6 DEF TooEarly, TimerTooEarly
<1>7. CASE Capture
  BY <1>7 DEF Capture
<1>8. CASE Write
  <2>1. wpc = "write"
    BY <1>8 DEF Write
  <2>. QED BY <1>8, <2>1, EncodedIsBytes DEF Write, PendingAfterWrite
<1>9. CASE DeadlinePasses
  BY <1>9 DEF DeadlinePasses
<1>10. CASE TimerExpires
  BY <1>10 DEF TimerExpires
<1>11. CASE Restart
  <2>1. wpc = "write" => Encoded(saving) \in Seq(Bytes)
    BY EncodedIsBytes
  <2>. QED BY <1>11, <2>1, DefaultsReadable DEF Restart
<1>12. CASE UNCHANGED vars
  BY <1>12 DEF vars
<1>. QED
  BY <1>1, <1>2, <1>3, <1>4, <1>5, <1>6, <1>7, <1>8, <1>9, <1>10, <1>11, <1>12
     DEF Next, Handler

LEMMA InitTypes == Init => TypeOK
<1>. SUFFICES ASSUME Init PROVE TypeOK
  OBVIOUS
<1>1. flash \in Seq(Bytes)
  <2>1. <<>> \in Seq(Bytes)
    OBVIOUS
  <2>. QED BY <2>1, ForeignAssumption DEF Init, NoRecord
<1>. QED
  BY <1>1, DefaultsReadable DEF Init, TypeOK

(* Type correctness: snapshots restored from records of other layouts are  *)
(* complete, whatever they held.                                           *)
THEOREM SettingsTypeCorrect == Spec => []TypeOK
BY InitTypes, StepTypes, PTL DEF Spec

(* Loading takes exactly what an encoder can have written, of this or any  *)
(* other number of selectors, and takes it as what was encoded.            *)
THEOREM RecordsReadExactly == Spec => []RecordsRead
<1>1. TypeOK => RecordsRead
  BY ReadExactly DEF TypeOK
<1>. QED BY <1>1, SettingsTypeCorrect, PTL

-----------------------------------------------------------------------------
(* Saves *)

LEMMA SaveArmedStep == TypeOK /\ SaveArmed /\ [Next]_vars => SaveArmed'
<1>. SUFFICES ASSUME TypeOK, SaveArmed, [Next]_vars PROVE SaveArmed'
  OBVIOUS
<1>. USE DEF SaveArmed, saveVars, workVars, RequestSave
<1>1. CASE Operation
  BY <1>1 DEF Operation, SetGlobal, ResetSelector, SelectSlot, ResetState, Load
<1>2. CASE Handler
  BY <1>2 DEF Handler, TakeWork, NothingToSave, TooEarly, TimerTooEarly, Capture, Write,
              PendingAfterWrite, TypeOK
<1>3. CASE Commit \/ DeadlinePasses \/ TimerExpires \/ Restart \/ UNCHANGED vars
  BY <1>3 DEF Commit, DeadlinePasses, TimerExpires, Restart, vars
<1>4. ASSUME NEW c \in Clients, SaveState(c) PROVE SaveArmed'
  BY <1>4 DEF SaveState
<1>. QED BY <1>1, <1>2, <1>3, <1>4 DEF Next

(* A pending save has its work item submitted, delayed or running, whatever *)
(* reschedules it (kp_request_save_locked, the early handler).              *)
THEOREM SavesArmed == Spec => []SaveArmed
<1>1. Init => SaveArmed
  BY DEF Init, SaveArmed
<1>. QED BY <1>1, InitTypes, StepTypes, SaveArmedStep, PTL DEF Spec

(* SaveOwed is not inductive: a captured snapshot serves the last request   *)
(* because the state has been remembered ever since.                        *)
SaveInv == SaveOwed /\ (since # {} => current \in since)

LEMMA SaveInvStep == TypeOK /\ SaveInv /\ [Next]_vars => SaveInv'
<1>. SUFFICES ASSUME TypeOK, SaveInv, [Next]_vars PROVE SaveInv'
  OBVIOUS
<1>. USE DEF SaveInv, SaveOwed, saveVars, workVars, liveVars, RequestSave, Requested,
             Remembered
<1>1. CASE Operation
  BY <1>1 DEF Operation, SetGlobal, ResetSelector, SelectSlot, ResetState, Load
<1>2. CASE Write
  BY <1>2 DEF Write, PendingAfterWrite
<1>3. CASE Capture
  BY <1>3 DEF Capture
<1>4. CASE TakeWork \/ NothingToSave \/ TooEarly
  BY <1>4 DEF TakeWork, NothingToSave, TooEarly
<1>5. CASE Commit
  BY <1>5 DEF Commit
<1>6. CASE DeadlinePasses \/ TimerExpires \/ Restart \/ UNCHANGED vars
  BY <1>6 DEF DeadlinePasses, TimerExpires, Restart, vars
<1>7. ASSUME NEW c \in Clients, SaveState(c) PROVE SaveInv'
  BY <1>7 DEF SaveState
<1>. QED BY <1>1, <1>2, <1>3, <1>4, <1>5, <1>6, <1>7 DEF Next, Handler

(* No requested save is forgotten: a write that will serve the last request *)
(* is pending or under way until one has succeeded or failed.               *)
THEOREM SavesOwed == Spec => []SaveOwed
<1>1. Init => SaveInv
  BY DEF Init, SaveInv, SaveOwed
<1>2. SaveInv => SaveOwed
  BY DEF SaveInv
<1>. QED BY <1>1, <1>2, InitTypes, StepTypes, SaveInvStep, PTL DEF Spec

-----------------------------------------------------------------------------
(* Restoring *)

LEMMA RetainedValidStep == TypeOK /\ RetainedValid /\ [Next]_vars => RetainedValid'
<1>. SUFFICES ASSUME TypeOK, RetainedValid, [Next]_vars PROVE RetainedValid'
  OBVIOUS
<1>. USE DEF RetainedValid, liveVars
<1>1. ASSUME NEW c \in Clients, NEW g \in Choices, NEW save \in BOOLEAN,
             SetGlobal(c, g, save)
      PROVE  RetainedValid'
  BY <1>1 DEF SetGlobal, TypeOK, Snapshots
<1>2. ASSUME NEW s \in Selectors, ResetSelector(s) PROVE RetainedValid'
  BY <1>2, InitialSlotValid DEF ResetSelector, TypeOK, Snapshots
<1>3. ASSUME NEW s \in Selectors, NEW slot \in 0..(NumSlots - 1), SelectSlot(s, slot)
      PROVE  RetainedValid'
  <2>1. slot < NumSlots
    BY SlotsAssumption
  <2>. QED BY <1>3, <2>1 DEF SelectSlot, TypeOK, Snapshots
<1>4. CASE ResetState
  BY <1>4, InitialSlotValid DEF ResetState, Defaults
<1>5. CASE Load
  BY <1>5 DEF Load
<1>6. CASE Commit
  <2>1. Restored \in Snapshots
    BY RestoredReadable DEF TypeOK
  <2>2. \A s \in Selectors : Resolved(Restored.slots[s]) < NumSlots
    BY <2>1, ResolvedValid DEF Snapshots
  <2>3. CASE started
    <3>1. \A s \in Selectors : Restored.slots[s] < NumSlots
      BY <2>3, RestoredReadable DEF TypeOK, Restored
    <3>. QED BY <1>6, <2>3, <3>1 DEF Commit
  <2>4. CASE ~started
    BY <1>6, <2>1, <2>2, <2>4 DEF Commit, Snapshots
  <2>. QED BY <2>3, <2>4 DEF TypeOK
<1>7. CASE Handler
  BY <1>7 DEF Handler, TakeWork, NothingToSave, TooEarly, Capture, Write
<1>8. CASE DeadlinePasses \/ TimerExpires \/ Restart \/ UNCHANGED vars
  BY <1>8 DEF DeadlinePasses, TimerExpires, Restart, vars
<1>9. ASSUME NEW c \in Clients, SaveState(c) PROVE RetainedValid'
  BY <1>9 DEF SaveState
<1>. QED
  BY <1>1, <1>2, <1>3, <1>4, <1>5, <1>6, <1>7, <1>8, <1>9 DEF Next, Operation

(* After startup every selector's slot exists, whatever is configured,      *)
(* stored, staged or reset.                                                 *)
THEOREM SelectionsValid == Spec => []RetainedValid
<1>1. Init => RetainedValid
  BY DEF Init, RetainedValid
<1>. QED BY <1>1, InitTypes, StepTypes, RetainedValidStep, PTL DEF Spec

(* A staged record that survives a reset agrees with it.                    *)
ResetInv == staged # Nothing =>
              0 \notin resets /\ \A s \in resets : staged.slots[s] = InitialSlot(s)

LEMMA ResetInvStep == TypeOK /\ ResetInv /\ [Next]_vars => ResetInv'
<1>. SUFFICES ASSUME TypeOK, ResetInv, [Next]_vars PROVE ResetInv'
  OBVIOUS
<1>. USE DEF ResetInv, liveVars
<1>1. ASSUME NEW s \in Selectors, ResetSelector(s) PROVE ResetInv'
  <2>1. CASE staged = Nothing
    BY <1>1, <2>1 DEF ResetSelector, StagedAfterReset
  <2>2. CASE staged # Nothing
    <3>1. staged \in Snapshots /\ s # 0
      BY <2>2, SlotTypes DEF TypeOK, Selectors
    <3>2. /\ staged'.slots[s] = InitialSlot(s)
          /\ \A t \in Selectors \ {s} : staged'.slots[t] = staged.slots[t]
      BY <1>1, <2>2, <3>1 DEF ResetSelector, StagedAfterReset, Snapshots
    <3>3. \A t \in resets : t \in Selectors
      BY <2>2, SlotTypes DEF TypeOK, Parts, Selectors
    <3>. QED BY <1>1, <2>2, <3>1, <3>2, <3>3 DEF ResetSelector, InitialSlot
  <2>. QED BY <2>1, <2>2
<1>2. CASE ResetState \/ Commit \/ Load
  BY <1>2 DEF ResetState, Commit, Load, InitialSlot
<1>3. ASSUME NEW c \in Clients, NEW g \in Choices, NEW save \in BOOLEAN,
             SetGlobal(c, g, save)
      PROVE  ResetInv'
  BY <1>3 DEF SetGlobal, InitialSlot
<1>4. ASSUME NEW s \in Selectors, NEW slot \in 0..(NumSlots - 1), SelectSlot(s, slot)
      PROVE  ResetInv'
  BY <1>4 DEF SelectSlot, InitialSlot
<1>5. CASE Handler
  BY <1>5 DEF Handler, TakeWork, NothingToSave, TooEarly, Capture, Write, InitialSlot
<1>6. CASE DeadlinePasses \/ TimerExpires \/ Restart \/ UNCHANGED vars
  BY <1>6 DEF DeadlinePasses, TimerExpires, Restart, vars, InitialSlot
<1>7. ASSUME NEW c \in Clients, SaveState(c) PROVE ResetInv'
  BY <1>7 DEF SaveState, InitialSlot
<1>. QED BY <1>1, <1>2, <1>3, <1>4, <1>5, <1>6, <1>7 DEF Next, Operation

(* A reset is not undone by a record loaded before it.                      *)
THEOREM ResetsStand == Spec => ResetStands
<1>1. Init => ResetInv
  BY DEF Init, ResetInv
<1>2. TypeOK /\ ResetInv /\ RetainedValid /\ [Next]_vars =>
        [Commit =>
           /\ 0 \in resets => current'.global = current.global
           /\ \A s \in resets \cap Selectors :
                 current'.slots[s] \in {Resolved(current.slots[s]), InitialSlot(s)}]_vars
  <2>. SUFFICES ASSUME TypeOK, ResetInv, RetainedValid, Commit
                PROVE  /\ 0 \in resets => current'.global = current.global
                       /\ \A s \in resets \cap Selectors :
                             current'.slots[s] \in
                                {Resolved(current.slots[s]), InitialSlot(s)}
    OBVIOUS
  <2>1. current \in Snapshots /\ Restored \in Snapshots
    BY RestoredReadable DEF TypeOK
  <2>2. 0 \in resets => Restored = current
    BY DEF Restored, ResetInv
  <2>3. ASSUME NEW s \in resets \cap Selectors
        PROVE  Restored.slots[s] \in {current.slots[s], InitialSlot(s)}
    BY InitialSlotValid DEF Restored, RestoredSlot, ResetInv
  <2>4. current'.global = Restored.global
    BY <2>1 DEF Commit, Snapshots
  <2>5. \A s \in Selectors : started => Resolved(current.slots[s]) = current.slots[s]
    BY DEF RetainedValid, Resolved
  <2>6. ASSUME NEW s \in resets \cap Selectors
        PROVE  current'.slots[s] \in {Resolved(current.slots[s]), InitialSlot(s)}
    <3>1. CASE started
      BY <2>1, <2>3, <2>5, <2>6, <3>1 DEF Commit
    <3>2. CASE ~started
      <4>1. current'.slots[s] = Resolved(Restored.slots[s])
        BY <2>1, <2>6, <3>2 DEF Commit, Snapshots
      <4>. QED BY <2>3, <4>1, InitialSlotValid DEF Resolved
    <3>. QED BY <3>1, <3>2 DEF TypeOK
  <2>. QED
    BY <2>2, <2>4, <2>6
<1>. QED
  BY <1>1, <1>2, InitTypes, StepTypes, ResetInvStep, SelectionsValid, PTL
     DEF Spec, ResetStands

=============================================================================
