-------------------------- MODULE BitStreamProofs --------------------------
(***************************************************************************)
(* Proofs about BitStream, for any values and any number of calls.          *)
(*                                                                         *)
(* Sound says which bits of those a writer was given each of its bytes      *)
(* holds, Follows that a reader has come exactly to where a writer was.     *)
(* Each call of the writer is shown to add bits to the message, and the     *)
(* same call of a reader that follows the writer before it to return what   *)
(* was written and to follow the writer after it; loops over bytes, chunks  *)
(* and elements do by induction on their rounds.  The inductive invariant,  *)
(* Follower, keeps the writers between the calls, which the reader comes    *)
(* past one by one.                                                         *)
(***************************************************************************)
EXTENDS BitStream, SequenceTheorems, WellFoundedInduction, TLAPS

(* The byte from position p on, of a message whose bits at ones are set     *)
ByteAt(ones, p) == {i \in Bits : p + i \in ones}

(* The bits that are set after those of a byte were added at the end        *)
Added(ones, total, byte) == ones \cup {total + i : i \in byte}

(* A bit of the message is set if it was, or if it is one of those added.   *)
LEMMA AddedMember ==
  ASSUME NEW total \in Nat, NEW ones \in SUBSET Nat, NEW byte \in Byte,
         NEW k \in Nat
  PROVE  k \in Added(ones, total, byte) <=> k \in ones \/ k - total \in byte
<1>1. \A i \in byte : i \in 0..7
  BY DEF Byte, Bits
<1>2. k \in Added(ones, total, byte) => k \in ones \/ k - total \in byte
  BY <1>1 DEF Added
<1>3. ASSUME k - total \in byte
      PROVE  k \in Added(ones, total, byte)
  <2>1. total + (k - total) = k
    OBVIOUS
  <2> QED  BY <1>3, <2>1 DEF Added
<1> QED  BY <1>2, <1>3 DEF Added

(* All bits that are set come before the end, also when n more were added.  *)
LEMMA AddedBound ==
  ASSUME NEW total \in Nat, NEW ones \in SUBSET Nat, NEW byte \in Byte,
         NEW n \in Nat, \A i \in byte : i < n, \A k \in ones : k < total
  PROVE  /\ Added(ones, total, byte) \in SUBSET Nat
         /\ \A k \in Added(ones, total, byte) : k < total + n
<1>1. \A i \in byte : i \in 0..7
  BY DEF Byte, Bits
<1>2. \A k \in ones : k \in Nat /\ k < total + n
  OBVIOUS
<1>3. \A i \in byte : total + i \in Nat /\ total + i < total + n
  BY <1>1
<1> QED  BY <1>2, <1>3 DEF Added

(* Adding bits at the end leaves the bytes before the end as they are.      *)
LEMMA BytesBeforeStay ==
  ASSUME NEW total \in Nat, NEW ones \in SUBSET Nat, NEW byte \in Byte,
         NEW p \in Nat, p + 8 <= total
  PROVE  ByteAt(Added(ones, total, byte), p) = ByteAt(ones, p)
<1>1. \A i \in byte : i \in 0..7
  BY DEF Byte, Bits
<1>2. ASSUME NEW i \in 0..7
      PROVE  p + i \in Added(ones, total, byte) <=> p + i \in ones
  <2>1. p + i \in Nat /\ ~(p + i - total \in 0..7)
    OBVIOUS
  <2>2. p + i - total \notin byte
    BY <2>1, <1>1
  <2> QED  BY <2>1, <2>2, AddedMember
<1> QED  BY <1>2 DEF ByteAt, Bits

(* The lowest bits that are added fill up the unfinished byte, of d bits    *)
(* (write_bits: last_byte | in_byte << bit_offset).                         *)
LEMMA ByteFilled ==
  ASSUME NEW total \in Nat, NEW ones \in SUBSET Nat, NEW byte \in Byte,
         NEW p \in Nat, NEW d \in 0..7, p + d = total
  PROVE  ByteAt(Added(ones, total, byte), p) = ByteAt(ones, p) \cup ShiftLeft(byte, d)
<1>1. ASSUME NEW i \in 0..7
      PROVE  p + i \in Added(ones, total, byte) <=> p + i \in ones \/ i - d \in byte
  <2>1. p + i \in Nat /\ p + i - total = i - d
    OBVIOUS
  <2> QED  BY <2>1, AddedMember
<1> QED  BY <1>1 DEF ByteAt, ShiftLeft, Bits

(* The highest are the first of the next byte (in_byte >> 8 - bit_offset).  *)
LEMMA ByteBegun ==
  ASSUME NEW total \in Nat, NEW ones \in SUBSET Nat, NEW byte \in Byte,
         NEW p \in Nat, NEW d \in 0..8, p + d = total + 8, \A k \in ones : k < total
  PROVE  ByteAt(Added(ones, total, byte), p) = ShiftRight(byte, 8 - d)
<1>1. ASSUME NEW i \in 0..7
      PROVE  p + i \in Added(ones, total, byte) <=> i + (8 - d) \in byte
  <2>1. p + i \in Nat /\ p + i - total = i + (8 - d) /\ ~(p + i < total)
    OBVIOUS
  <2>2. p + i \notin ones
    BY <2>1
  <2> QED  BY <2>1, <2>2, AddedMember
<1> QED  BY <1>1 DEF ByteAt, ShiftRight, Bits

-----------------------------------------------------------------------------
(* The bytes written are those of the bits that are set                     *)
Written(out, ones) == \A j \in 1..Len(out) : out[j] = ByteAt(ones, 8 * (j - 1))

(* What the fields of a sound writer say of each other: the bytes written,  *)
(* and the one held back, are those of the bits that are set                *)
Kept(out, offset, last, ones, total) ==
  /\ Written(out, ones)
  /\ offset < 8 => last = ByteAt(ones, 8 * Len(out))
  /\ total = 8 * Len(out) + (IF offset = 8 THEN 0 ELSE offset)
  /\ \A k \in ones : k < total

(* The bytes that were written stay what they should be.                    *)
LEMMA OutStays ==
  ASSUME NEW out \in Seq(Byte), NEW ones \in SUBSET Nat, NEW total \in Nat,
         8 * Len(out) <= total, Written(out, ones), NEW byte \in Byte
  PROVE  Written(out, Added(ones, total, byte))
<1> SUFFICES ASSUME NEW j \in 1..Len(out)
             PROVE  ByteAt(Added(ones, total, byte), 8 * (j - 1))
                      = ByteAt(ones, 8 * (j - 1))
  BY DEF Written
<1> DEFINE n == Len(out)
<1>1. n \in Nat
  OBVIOUS
<1> HIDE DEF n
<1>2. j \in 1..n /\ 8 * n <= total
  BY DEF n
<1>3. 8 * (j - 1) \in Nat /\ 8 * (j - 1) + 8 <= total
  BY <1>1, <1>2
<1> QED  BY <1>3, BytesBeforeStay

(* A byte that is full is written behind them.                              *)
LEMMA OutGrows ==
  ASSUME NEW out \in Seq(Byte), NEW ones, Written(out, ones),
         NEW full \in Byte, full = ByteAt(ones, 8 * Len(out))
  PROVE  /\ Append(out, full) \in Seq(Byte)
         /\ Len(Append(out, full)) = Len(out) + 1
         /\ Written(Append(out, full), ones)
<1> DEFINE new == Append(out, full)
<1>1. /\ new \in Seq(Byte) /\ Len(out) \in Nat
      /\ Len(new) = Len(out) + 1
      /\ new[Len(out) + 1] = full
      /\ \A j \in 1..Len(out) : new[j] = out[j]
  OBVIOUS
<1> HIDE DEF new
<1>2. ASSUME NEW j \in 1..Len(out) + 1
      PROVE  new[j] = ByteAt(ones, 8 * (j - 1))
  <2>1. CASE j \in 1..Len(out)
    BY <1>1, <2>1 DEF Written
  <2>2. CASE j = Len(out) + 1
    <3>1. j - 1 = Len(out)
      BY <1>1, <2>2
    <3> QED  BY <1>1, <2>2, <3>1
  <2> QED  BY <1>1, <2>1, <2>2
<1>3. Written(new, ones)
  BY <1>1, <1>2 DEF Written
<1> QED  BY <1>1, <1>3 DEF new

(* A chunk leaves the byte that is held back unfinished, ends it, or ends   *)
(* it and begins the next.                                                  *)
LEMMA ChunkFits ==
  ASSUME NEW out \in Seq(Byte), NEW offset \in 1..7, NEW last \in Byte,
         NEW ones \in SUBSET Nat, NEW total \in Nat,
         Kept(out, offset, last, ones, total),
         NEW n \in 1..8, NEW byte \in Byte, \A i \in byte : i < n
  PROVE  LET filled == last \cup ShiftLeft(byte, offset)
             added == Added(ones, total, byte)
         IN  /\ filled \in Byte
             /\ offset + n < 8 => Kept(out, offset + n, filled, added, total + n)
             /\ offset + n = 8 =>
                  /\ Append(out, filled) \in Seq(Byte)
                  /\ Kept(Append(out, filled), 8, {}, added, total + n)
             /\ offset + n > 8 =>
                  /\ Append(out, filled) \in Seq(Byte)
                  /\ ShiftRight(byte, 8 - offset) \in Byte
                  /\ Kept(Append(out, filled), (offset + n) - 8,
                          ShiftRight(byte, 8 - offset), added, total + n)
<1> DEFINE filled == last \cup ShiftLeft(byte, offset)
           added == Added(ones, total, byte)
           len == Len(out)
<1>1. len \in Nat
  OBVIOUS
<1>2. /\ Written(out, ones)
      /\ last = ByteAt(ones, 8 * len)
      /\ total = 8 * len + offset
      /\ \A k \in ones : k < total
  BY DEF Kept
<1>end. total = 8 * len + offset
  BY <1>2
<1>3. \A k \in added : k < total + n
  <2>1. n \in Nat /\ \A k \in ones : k < total
    BY <1>2
  <2> QED  BY <2>1, AddedBound
<1>4. Written(out, added)
  <2>1. 8 * Len(out) <= total
    <3> HIDE DEF len
    <3>1. 8 * len <= total
      BY <1>1, <1>end
    <3> QED  BY <3>1 DEF len
  <2> QED  BY <1>2, <2>1, OutStays
<1>5. filled \in Byte
  BY DEF ShiftLeft, Byte, Bits
<1> HIDE DEF len
<1>6. filled = ByteAt(added, 8 * len)
  <2>1. 8 * len \in Nat /\ offset \in 0..7 /\ 8 * len + offset = total
    BY <1>1, <1>end
  <2> QED  BY <1>2, <2>1, ByteFilled
<1>7. ShiftRight(byte, 8 - offset) = ByteAt(added, 8 * (len + 1))
  <2>1. 8 * (len + 1) \in Nat /\ offset \in 0..8 /\ 8 * (len + 1) + offset = total + 8
    BY <1>1, <1>end
  <2> QED  BY <1>2, <2>1, ByteBegun
<1>8. ShiftRight(byte, 8 - offset) \in Byte
  BY DEF ShiftRight, Byte, Bits
<1> HIDE DEF filled, added
<1>9. /\ Append(out, filled) \in Seq(Byte)
      /\ Len(Append(out, filled)) = len + 1
      /\ Written(Append(out, filled), added)
  <2>1. filled = ByteAt(added, 8 * Len(out))
    BY <1>6 DEF len
  <2>2. /\ Append(out, filled) \in Seq(Byte)
        /\ Len(Append(out, filled)) = Len(out) + 1
        /\ Written(Append(out, filled), added)
    BY <1>4, <1>5, <2>1, OutGrows
  <2> QED  BY <2>2 DEF len
<1>10. ASSUME offset + n < 8
       PROVE  Kept(out, offset + n, filled, added, total + n)
  <2>1. total + n = 8 * len + (offset + n) /\ offset + n # 8
    BY <1>1, <1>end, <1>10
  <2>2. total + n = 8 * len + (IF offset + n = 8 THEN 0 ELSE offset + n)
    BY <2>1
  <2> QED  BY <2>2, <1>3, <1>4, <1>6 DEF Kept, len
<1>11. ASSUME offset + n = 8
       PROVE  Kept(Append(out, filled), 8, {}, added, total + n)
  <2>1. total + n = 8 * (len + 1) + 0
    BY <1>1, <1>end, <1>11
  <2>2. total + n = 8 * (len + 1) + (IF 8 = 8 THEN 0 ELSE 8)
    BY <2>1
  <2> QED  BY <2>2, <1>3, <1>9 DEF Kept
<1>12. ASSUME offset + n > 8
       PROVE  Kept(Append(out, filled), (offset + n) - 8,
                   ShiftRight(byte, 8 - offset), added, total + n)
  <2>1. total + n = 8 * (len + 1) + ((offset + n) - 8) /\ (offset + n) - 8 # 8
    BY <1>1, <1>end, <1>12
  <2>2. total + n = 8 * (len + 1)
                      + (IF (offset + n) - 8 = 8 THEN 0 ELSE (offset + n) - 8)
    BY <2>1
  <2> QED  BY <2>2, <1>3, <1>7, <1>9 DEF Kept
<1> QED  BY <1>5, <1>8, <1>9, <1>10, <1>11, <1>12 DEF filled, added

(* With no byte held back, a chunk begins one, or is one.                   *)
LEMMA ChunkStarts ==
  ASSUME NEW out \in Seq(Byte), NEW last \in Byte,
         NEW ones \in SUBSET Nat, NEW total \in Nat,
         Kept(out, 8, last, ones, total),
         NEW n \in 1..8, NEW byte \in Byte, \A i \in byte : i < n
  PROVE  LET added == Added(ones, total, byte)
         IN  /\ n < 8 => Kept(out, n, byte, added, total + n)
             /\ n = 8 => /\ Append(out, byte) \in Seq(Byte)
                         /\ Kept(Append(out, byte), 8, last, added, total + n)
<1> DEFINE added == Added(ones, total, byte)
           len == Len(out)
<1>1. len \in Nat
  OBVIOUS
<1>2. /\ Written(out, ones)
      /\ total = 8 * len
      /\ \A k \in ones : k < total
  <2>1. total = 8 * len + 0
    BY DEF Kept
  <2> HIDE DEF len
  <2>2. total = 8 * len
    BY <1>1, <2>1
  <2> QED  BY <2>2 DEF Kept, len
<1>end. total = 8 * len
  BY <1>2
<1>3. \A k \in added : k < total + n
  <2>1. n \in Nat /\ \A k \in ones : k < total
    BY <1>2
  <2> QED  BY <2>1, AddedBound
<1>4. Written(out, added)
  <2>1. 8 * Len(out) <= total
    BY <1>1, <1>2
  <2> QED  BY <1>2, <2>1, OutStays
<1> HIDE DEF len
<1>5. byte = ByteAt(added, 8 * len)
  <2>1. 8 * len \in Nat /\ 8 \in 0..8 /\ 8 * len + 8 = total + 8
    BY <1>1, <1>end
  <2>2. ByteAt(added, 8 * len) = ShiftRight(byte, 8 - 8)
    BY <1>2, <2>1, ByteBegun
  <2>3. ShiftRight(byte, 8 - 8) = byte
    <3>1. \A i \in 0..7 : i + (8 - 8) = i
      OBVIOUS
    <3> QED  BY <3>1 DEF ShiftRight, Byte, Bits
  <2> QED  BY <2>2, <2>3
<1> HIDE DEF added
<1>6. /\ Append(out, byte) \in Seq(Byte)
      /\ Len(Append(out, byte)) = len + 1
      /\ Written(Append(out, byte), added)
  <2>1. byte = ByteAt(added, 8 * Len(out))
    BY <1>5 DEF len
  <2>2. /\ Append(out, byte) \in Seq(Byte)
        /\ Len(Append(out, byte)) = Len(out) + 1
        /\ Written(Append(out, byte), added)
    BY <1>4, <2>1, OutGrows
  <2> QED  BY <2>2 DEF len
<1>7. ASSUME n < 8
      PROVE  Kept(out, n, byte, added, total + n)
  <2>1. total + n = 8 * len + (IF n = 8 THEN 0 ELSE n)
    BY <1>1, <1>end, <1>7
  <2> QED  BY <2>1, <1>3, <1>4, <1>5 DEF Kept, len
<1>8. ASSUME n = 8
      PROVE  Kept(Append(out, byte), 8, last, added, total + n)
  <2>1. total + n = 8 * (len + 1) + (IF 8 = 8 THEN 0 ELSE 8)
    BY <1>1, <1>end, <1>8
  <2> QED  BY <2>1, <1>3, <1>6 DEF Kept
<1> QED  BY <1>6, <1>7, <1>8 DEF added

-----------------------------------------------------------------------------
(* One chunk, one byte                                                      *)

Writer == [out : Seq(Byte), bit_offset : 1..8, last_byte : Byte,
           mode : {"bytes", "bits"}, checked : BOOLEAN, ones : SUBSET Nat,
           total : Nat]

Sound(w) ==
  /\ w \in Writer
  /\ Kept(w.out, w.bit_offset, w.last_byte, w.ones, w.total)
  /\ w.mode = "bytes" => w.bit_offset = 8

(* The fields of a sound writer have their types.                           *)
LEMMA Fields ==
  ASSUME NEW w, Sound(w)
  PROVE  /\ w \in Writer
         /\ w.out \in Seq(Byte) /\ w.bit_offset \in 1..8 /\ w.last_byte \in Byte
         /\ w.mode \in {"bytes", "bits"} /\ w.checked \in BOOLEAN
         /\ w.ones \in SUBSET Nat /\ w.total \in Nat
BY DEF Sound, Writer

(* What Given changes of a writer: its history.                             *)
LEMMA GivenFields ==
  ASSUME NEW w, Sound(w), NEW byte \in Byte, NEW n \in Nat,
         \A i \in byte : i < n
  PROVE  LET g == Given(w, byte, n)
         IN  /\ g \in Writer
             /\ g.out = w.out /\ g.bit_offset = w.bit_offset
             /\ g.last_byte = w.last_byte /\ g.mode = w.mode
             /\ g.ones = Added(w.ones, w.total, byte) /\ g.total = w.total + n
<1> DEFINE added == Added(w.ones, w.total, byte)
<1>1. Given(w, byte, n) = [w EXCEPT !.ones = added, !.total = w.total + n]
  BY Fields DEF Given, Added, Writer
<1>2. added \in SUBSET Nat
  BY Fields, AddedBound DEF Sound, Kept
<1>3. w.total + n \in Nat
  BY Fields
<1> HIDE DEF added
<1> QED  BY <1>1, <1>2, <1>3, Fields DEF added, Writer

(* A byte written in byte mode, where none is held back, goes out as it is. *)
LEMMA ByteKeeps ==
  ASSUME NEW w, Sound(w), w.mode = "bytes", NEW byte \in Byte
  PROVE  Sound(PutByte(w, byte)) /\ PutByte(w, byte).mode = "bytes"
<1> DEFINE g == Given(w, byte, 8)
           v == PutByte(w, byte)
<1>1. \A i \in byte : i < 8
  BY DEF Byte, Bits
<1>2. /\ g \in Writer
      /\ g.out = w.out /\ g.bit_offset = w.bit_offset
      /\ g.last_byte = w.last_byte /\ g.mode = w.mode
      /\ g.ones = Added(w.ones, w.total, byte) /\ g.total = w.total + 8
  BY <1>1, GivenFields
<1>3. v = [g EXCEPT !.out = Append(@, byte)]
  BY DEF PutByte
<1>4. /\ w.out \in Seq(Byte) /\ w.last_byte \in Byte /\ w.bit_offset = 8
      /\ w.ones \in SUBSET Nat /\ w.total \in Nat
      /\ Kept(w.out, 8, w.last_byte, w.ones, w.total)
  BY Fields DEF Sound
<1>5. /\ Append(w.out, byte) \in Seq(Byte)
      /\ Kept(Append(w.out, byte), 8, w.last_byte,
              Added(w.ones, w.total, byte), w.total + 8)
  BY <1>1, <1>4, ChunkStarts
<1> HIDE DEF g, v
<1>6. /\ v \in Writer /\ v.out = Append(w.out, byte) /\ v.bit_offset = 8
      /\ v.last_byte = w.last_byte /\ v.mode = "bytes"
      /\ v.ones = Added(w.ones, w.total, byte) /\ v.total = w.total + 8
  BY <1>2, <1>3, <1>4, <1>5 DEF Writer
<1> QED  BY <1>5, <1>6 DEF Sound, v

(* One iteration of write_bits keeps a writer sound, in each of its cases.  *)
LEMMA ChunkKeeps ==
  ASSUME NEW w, Sound(w), w.mode = "bits", NEW byte, NEW n \in 1..8
  PROVE  Sound(PutChunk(w, byte, n)) /\ PutChunk(w, byte, n).mode = "bits"
<1> DEFINE v == PutChunk(w, byte, n)
           in_byte == byte \cap Low(n)
           g == Given(w, in_byte, n)
           added == Added(w.ones, w.total, in_byte)
           filled == w.last_byte \cup ShiftLeft(in_byte, w.bit_offset)
           rest == ShiftRight(in_byte, 8 - w.bit_offset)
<1>1. in_byte \in Byte /\ \A i \in in_byte : i < n
  BY DEF Low, Byte, Bits
<1> HIDE DEF in_byte, v
<1>3. /\ g \in Writer
      /\ g.out = w.out /\ g.bit_offset = w.bit_offset
      /\ g.last_byte = w.last_byte /\ g.mode = "bits"
      /\ g.ones = added /\ g.total = w.total + n
  BY <1>1, GivenFields
<1>4. /\ w.out \in Seq(Byte) /\ w.last_byte \in Byte /\ w.bit_offset \in 1..8
      /\ w.ones \in SUBSET Nat /\ w.total \in Nat
      /\ Kept(w.out, w.bit_offset, w.last_byte, w.ones, w.total)
  BY Fields DEF Sound
<1>5. CASE w.bit_offset \in 1..7
  <2>1. /\ filled \in Byte
        /\ w.bit_offset + n < 8 =>
             Kept(w.out, w.bit_offset + n, filled, added, w.total + n)
        /\ w.bit_offset + n = 8 =>
             /\ Append(w.out, filled) \in Seq(Byte)
             /\ Kept(Append(w.out, filled), 8, {}, added, w.total + n)
        /\ w.bit_offset + n > 8 =>
             /\ Append(w.out, filled) \in Seq(Byte)
             /\ rest \in Byte
             /\ Kept(Append(w.out, filled), (w.bit_offset + n) - 8, rest, added,
                     w.total + n)
    BY <1>1, <1>4, <1>5, ChunkFits
  <2> HIDE DEF g, filled, rest, added
  <2>2. CASE w.bit_offset + n < 8
    <3>1. v = [g EXCEPT !.last_byte = filled, !.bit_offset = w.bit_offset + n]
      BY <1>5, <2>2 DEF PutChunk, in_byte, g, filled, v
    <3>2. w.bit_offset + n \in 1..8
      BY <1>5, <2>2
    <3>3. /\ v \in Writer /\ v.out = w.out /\ v.bit_offset = w.bit_offset + n
          /\ v.last_byte = filled /\ v.mode = "bits"
          /\ v.ones = added /\ v.total = w.total + n
      BY <1>3, <2>1, <3>1, <3>2 DEF Writer
    <3> QED  BY <2>1, <2>2, <3>3 DEF Sound, v
  <2>3. CASE w.bit_offset + n = 8
    <3>1. v = [g EXCEPT !.out = Append(@, filled), !.last_byte = {}, !.bit_offset = 8]
      BY <1>5, <2>3 DEF PutChunk, in_byte, g, filled, v
    <3> DEFINE none == {}
    <3>2. none \in Byte
      BY DEF Byte
    <3>3. v = [g EXCEPT !.out = Append(@, filled), !.last_byte = none,
                        !.bit_offset = w.bit_offset + n]
      BY <2>3, <3>1
    <3> HIDE DEF none
    <3>5. w.bit_offset + n \in 1..8
      BY <2>3
    <3>4. /\ v \in Writer /\ v.out = Append(w.out, filled)
          /\ v.bit_offset = w.bit_offset + n
          /\ v.last_byte = none /\ v.mode = "bits"
          /\ v.ones = added /\ v.total = w.total + n
      BY <1>3, <2>1, <2>3, <3>2, <3>3, <3>5 DEF Writer
    <3> QED  BY <2>1, <2>3, <3>4 DEF Sound, v, none
  <2>4. CASE w.bit_offset + n > 8
    <3> DEFINE end == w.bit_offset + n
    <3>2. w.bit_offset < 8 /\ ~(end < 8) /\ end # 8 /\ end - 8 \in 1..8
      BY <1>5, <2>4
    <3>3. Kept(Append(w.out, filled), end - 8, rest, added, w.total + n)
      BY <2>1, <2>4
    <3>4. v = [g EXCEPT !.out = Append(@, filled), !.bit_offset = end - 8,
                        !.last_byte = rest]
      BY <3>2 DEF PutChunk, in_byte, g, filled, v, rest
    <3> HIDE DEF end
    <3>5. /\ v \in Writer /\ v.out = Append(w.out, filled)
          /\ v.bit_offset = end - 8
          /\ v.last_byte = rest /\ v.mode = "bits"
          /\ v.ones = added /\ v.total = w.total + n
      BY <1>3, <2>1, <2>4, <3>2, <3>4 DEF Writer
    <3> QED  BY <3>3, <3>5 DEF Sound, v
  <2> QED  BY <1>5, <2>2, <2>3, <2>4
<1>6. CASE w.bit_offset = 8
  <2>1. /\ n < 8 => Kept(w.out, n, in_byte, added, w.total + n)
        /\ n = 8 => /\ Append(w.out, in_byte) \in Seq(Byte)
                    /\ Kept(Append(w.out, in_byte), 8, w.last_byte, added, w.total + n)
    BY <1>1, <1>4, <1>6, ChunkStarts
  <2> HIDE DEF g, added
  <2>2. CASE n = 8
    <3>1. v = [g EXCEPT !.out = Append(@, in_byte)]
      BY <1>6, <2>2 DEF PutChunk, in_byte, g, filled, v
    <3>2. /\ v \in Writer /\ v.out = Append(w.out, in_byte) /\ v.bit_offset = 8
          /\ v.last_byte = w.last_byte /\ v.mode = "bits"
          /\ v.ones = added /\ v.total = w.total + n
      BY <1>3, <1>6, <2>1, <2>2, <3>1 DEF Writer
    <3> QED  BY <2>1, <2>2, <3>2 DEF Sound, v
  <2>3. CASE n # 8
    <3>1. v = [g EXCEPT !.last_byte = in_byte, !.bit_offset = n]
      BY <1>6, <2>3 DEF PutChunk, in_byte, g, filled, v
    <3>2. /\ v \in Writer /\ v.out = w.out /\ v.bit_offset = n
          /\ v.last_byte = in_byte /\ v.mode = "bits"
          /\ v.ones = added /\ v.total = w.total + n
      BY <1>1, <1>3, <3>1 DEF Writer
    <3>3. n < 8
      BY <2>3
    <3> QED  BY <2>1, <3>2, <3>3 DEF Sound, v
  <2> QED  BY <2>2, <2>3
<1> QED  BY <1>4, <1>5, <1>6

-----------------------------------------------------------------------------
(* Loops of any number of rounds                                            *)

(* A set of natural numbers has a least one.                                *)
LEMMA Least ==
  ASSUME NEW T \in SUBSET Nat, T # {}
  PROVE  \E m \in T : \A k \in T : m <= k
<1> DEFINE Less == OpToRel(<, Nat)
<1>1. IsWellFoundedOn(Less, Nat)
  BY NatLessThanWellFounded
<1> HIDE DEF Less
<1>2. PICK m \in T : \A k \in T : ~(<<k, m>> \in Less)
  BY <1>1, WFMin
<1>3. \A k \in Nat : k < m => <<k, m>> \in Less
  BY DEF Less, OpToRel
<1>4. \A k \in T : ~(k < m)
  BY <1>2, <1>3
<1> HIDE <1>2
<1> QED BY <1>4

(* A set with 0 and with the successor of each of its numbers has all       *)
(* numbers.                                                                 *)
LEMMA SetInduction ==
  ASSUME NEW S, 0 \in S, \A n \in Nat : n \in S => n + 1 \in S
  PROVE  Nat \subseteq S
<1> SUFFICES ASSUME Nat \ S # {} PROVE FALSE
  OBVIOUS
<1>1. PICK m \in Nat \ S : \A k \in Nat \ S : m <= k
  BY Least
<1>2. m # 0 /\ m - 1 \in Nat /\ ~(m <= m-1)
  BY <1>1
<1>3. m - 1 \in S
  BY <1>1, <1>2
<1> QED BY <1>1, <1>2, <1>3

(* A loop of n rounds, of which the i-th takes a state v to F[i][v]         *)
Rounds(F, n, S) == F \in [1..n -> [S -> S]]

IsRun(g, n, S, init, F) == /\ g \in [0..n -> S]
                           /\ g[0] = init
                           /\ \A i \in 1..n : g[i] = F[i][g[i - 1]]

(* A loop that goes from states of S to states of S has a run.              *)
LEMMA LoopRuns ==
  ASSUME NEW S, NEW n \in Nat, NEW init \in S, NEW F, Rounds(F, n, S)
  PROVE  \E g : IsRun(g, n, S, init, F)
<1> USE DEF Rounds, IsRun
<1> DEFINE Runs(m, g) == /\ g \in [0..m -> S] /\ g[0] = init
                         /\ \A i \in 1..m : g[i] = F[i][g[i - 1]]
           T == {m \in Nat : m <= n => \E g : Runs(m, g)}
<1>1. 0 \in T
  <2>1. Runs(0, [i \in 0..0 |-> init])
    OBVIOUS
  <2> HIDE DEF Runs
  <2> QED  BY <2>1
<1>2. ASSUME NEW m \in Nat, m \in T
      PROVE  m + 1 \in T
  <2> SUFFICES ASSUME m + 1 <= n
               PROVE  \E g : Runs(m + 1, g)
    OBVIOUS
  <2>1. PICK f : Runs(m, f)
    BY <1>2
  <2>2. f[m] \in S /\ m + 1 \in 1..n
    BY <2>1
  <2> DEFINE next == F[m + 1][f[m]]
             g == [i \in 0..m + 1 |-> IF i <= m THEN f[i] ELSE next]
  <2>3. next \in S
    BY <2>2
  <2> HIDE DEF next
  <2>4. g \in [0..m + 1 -> S] /\ g[0] = init
    BY <2>1, <2>3
  <2>5. ASSUME NEW i \in 1..m + 1
        PROVE  g[i] = F[i][g[i - 1]]
    <3>1. g[i - 1] = f[i - 1]
      OBVIOUS
    <3>2. CASE i <= m
      <4>1. g[i] = f[i] /\ i \in 1..m
        BY <3>2
      <4> HIDE DEF g
      <4> QED  BY <2>1, <3>1, <4>1
    <3>3. CASE i = m + 1
      <4>1. g[i] = next /\ i - 1 = m
        BY <3>3
      <4> HIDE DEF g
      <4> QED  BY <3>1, <3>3, <4>1 DEF next
    <3> QED  BY <3>2, <3>3
  <2> HIDE DEF g
  <2>6. Runs(m + 1, g)
    BY <2>4, <2>5
  <2> QED  BY <2>6
<1> HIDE DEF T
<1>3. n \in T
  BY <1>1, <1>2, SetInduction
<1> QED  BY <1>3 DEF T

(* And its result is in S.                                                  *)
LEMMA LoopStays ==
  ASSUME NEW S, NEW n \in Nat, NEW step, step[0] \in S,
         \A i \in 1..n : step[i - 1] \in S => step[i] \in S
  PROVE  step[n] \in S
<1> DEFINE T == {m \in Nat : m <= n => step[m] \in S}
<1>1. ASSUME NEW m \in Nat, m \in T
      PROVE  m + 1 \in T
  <2> SUFFICES ASSUME m + 1 <= n
               PROVE  step[m + 1] \in S
    OBVIOUS
  <2>1. m + 1 \in 1..n /\ (m + 1) - 1 = m /\ step[m] \in S
    BY <1>1
  <2> QED  BY <2>1
<1>2. 0 \in T
  OBVIOUS
<1> HIDE DEF T
<1>3. n \in T
  BY <1>1, <1>2, SetInduction
<1> QED  BY <1>3 DEF T

SoundIn(mode) == {w \in Writer : Sound(w) /\ w.mode = mode}

-----------------------------------------------------------------------------
(* What is written                                                          *)

Modes == {"bytes", "bits"}

(* What the writer makes itself - types, lengths, the end of a string - is  *)
(* bytes.                                                                   *)
LEMMA Encoded ==
  /\ \A n : <<ByteOf(n)>> \in Seq(Byte)
  /\ \A n : LittleEndian(n) \in Seq(Byte)
  /\ <<{}>> \in Seq(Byte)
<1>1. \A n : ByteOf(n) \in Byte
  BY DEF ByteOf, Byte
<1>2. {} \in Byte
  BY DEF Byte
<1> QED  BY <1>1, <1>2 DEF LittleEndian

-----------------------------------------------------------------------------
(* The writer's calls                                                       *)

(* A new writer is sound.                                                   *)
LEMMA NewSound == Sound(NewWriter)
<1>1. NewWriter \in Writer
  BY DEF NewWriter, Writer, Byte
<1>2. Kept(<<>>, 8, {}, {}, 0)
  BY DEF Kept, Written
<1> QED  BY <1>1, <1>2 DEF NewWriter, Sound

(* The unfinished byte that flush writes is filled up with zeros.           *)
LEMMA FlushKeeps ==
  ASSUME NEW w, Sound(w)
  PROVE  Sound(Flush(w))
<1>1. CASE w.bit_offset = 8
  BY <1>1 DEF Flush
<1>2. CASE w.bit_offset # 8
  <2> DEFINE n == 8 - w.bit_offset
             g == Given(w, {}, n)
             v == Flush(w)
  <2>1. {} \in Byte /\ \A i \in {} : i < n
    BY DEF Byte
  <2>2. n \in 1..7 /\ n \in Nat /\ w.bit_offset \in 1..7 /\ n \in 1..8
    BY <1>2, Fields
  <2>3. v = [g EXCEPT !.out = Append(@, w.last_byte), !.bit_offset = 8]
    BY <1>2 DEF Flush
  <2>4. /\ g \in Writer
        /\ g.out = w.out /\ g.bit_offset = w.bit_offset
        /\ g.last_byte = w.last_byte /\ g.mode = w.mode
        /\ g.ones = Added(w.ones, w.total, {}) /\ g.total = w.total + n
    BY <2>1, <2>2, GivenFields
  <2>5. /\ w.out \in Seq(Byte) /\ w.last_byte \in Byte
        /\ w.ones \in SUBSET Nat /\ w.total \in Nat
        /\ Kept(w.out, w.bit_offset, w.last_byte, w.ones, w.total)
    BY Fields DEF Sound
  <2>6. Append(w.out, w.last_byte) \in Seq(Byte)
        /\ Kept(Append(w.out, w.last_byte), 8, {}, Added(w.ones, w.total, {}),
                w.total + n)
    <3>1. w.bit_offset + n = 8
      BY <2>2
    <3>2. w.last_byte \cup ShiftLeft({}, w.bit_offset) = w.last_byte
      BY DEF ShiftLeft
    <3> HIDE DEF n
    <3> QED  BY <2>1, <2>2, <2>5, <3>1, <3>2, ChunkFits
  <2>9. 8 \in 1..8
    OBVIOUS
  <2> HIDE DEF g, v, n
  <2>7. /\ v \in Writer /\ v.out = Append(w.out, w.last_byte) /\ v.bit_offset = 8
        /\ v.ones = Added(w.ones, w.total, {}) /\ v.total = w.total + n
    BY <2>3, <2>4, <2>5, <2>6, <2>9 DEF Writer
  <2>8. Kept(v.out, 8, v.last_byte, v.ones, v.total)
    BY <2>6, <2>7 DEF Kept
  <2> QED  BY <2>7, <2>8 DEF Sound, v
<1> QED  BY <1>1, <1>2

(* A sound writer has written the bits it was given and holds back the      *)
(* rest.                                                                    *)
LEMMA SoundKeepsBits == ASSUME NEW w, Sound(w) PROVE KeepsBits(w)
<1> DEFINE held == IF w.bit_offset = 8 THEN 0 ELSE w.bit_offset
           n == Len(w.out)
<1>1. /\ w.out \in Seq(Byte) /\ w.last_byte \in Byte /\ w.bit_offset \in 1..8
      /\ w.ones \in SUBSET Nat /\ w.total \in Nat
      /\ Kept(w.out, w.bit_offset, w.last_byte, w.ones, w.total)
  BY Fields DEF Sound
<1>2. w.total = 8 * n + held
  BY <1>1 DEF Kept
<1>3. \A j \in 1..n, i \in Bits : i \in w.out[j] <=> 8 * (j - 1) + i \in w.ones
  BY <1>1 DEF Kept, Written, ByteAt
<1>4. held > 0 => w.bit_offset < 8 /\ held = w.bit_offset
  BY <1>1
<1>5. held \in 0..7 /\ n \in Nat
  BY <1>1
<1>6. held > 0 => w.last_byte = ByteAt(w.ones, 8 * n)
  BY <1>1, <1>4 DEF Kept
<1>7. \A i \in Low(held) : i \in w.last_byte <=> 8 * n + i \in w.ones
  <2> SUFFICES ASSUME NEW i \in Low(held)
               PROVE  i \in w.last_byte <=> 8 * n + i \in w.ones
    OBVIOUS
  <2> HIDE DEF held
  <2>1. held > 0 /\ i \in 0..7
    BY <1>5 DEF Low
  <2> QED  BY <1>6, <2>1 DEF ByteAt, Bits
<1>8. held > 0 => w.last_byte \subseteq Low(held)
  <2> SUFFICES ASSUME held > 0, NEW i \in w.last_byte
               PROVE  i \in Low(held)
    OBVIOUS
  <2> HIDE DEF held, n
  <2>1. i \in 0..7 /\ 8 * n + i \in w.ones
    BY <1>6 DEF ByteAt, Bits
  <2>2. 8 * n + i < 8 * n + held
    BY <1>1, <1>2, <2>1 DEF Kept
  <2>3. i < held
    BY <1>5, <2>1, <2>2
  <2> QED  BY <1>5, <2>1, <2>3 DEF Low
<1> HIDE DEF held, n
<1> QED  BY <1>2, <1>3, <1>7, <1>8 DEF KeepsBits, held, n

-----------------------------------------------------------------------------
(* What the calls add to a message                                          *)

(* The n bits from position p on                                            *)
BitsAt(ones, p, n) == {i \in Low(n) : p + i \in ones}

(* A writer that went on writing                                            *)
Grown(w, v) == /\ v.mode = w.mode /\ v.checked = w.checked
               /\ w.total <= v.total
               /\ \A k \in Nat : k < w.total => (k \in v.ones <=> k \in w.ones)

(* One that wrote n bits, those of a byte                                   *)
Put(w, v, byte, n) == /\ v.mode = w.mode /\ v.checked = w.checked
                      /\ v.ones = Added(w.ones, w.total, byte)
                      /\ v.total = w.total + n

(* Bits that were put are at the end of the message, and the others stay.   *)
LEMMA PutGrows ==
  ASSUME NEW w, NEW v, Sound(w), NEW n \in 1..8, NEW byte \in Byte,
         \A i \in byte : i < n, Put(w, v, byte, n)
  PROVE  Grown(w, v) /\ BitsAt(v.ones, w.total, n) = byte
<1>1. /\ w.ones \in SUBSET Nat /\ w.total \in Nat
      /\ \A k \in w.ones : k < w.total
  BY Fields DEF Sound, Kept
<1>2. v.ones = Added(w.ones, w.total, byte) /\ v.total = w.total + n
  BY DEF Put
<1>t. w.total \in Nat
  BY <1>1
<1>3. \A i \in byte : i \in 0..7
  BY DEF Byte, Bits
<1>4. ASSUME NEW k \in Nat, k < w.total
      PROVE  k \in v.ones <=> k \in w.ones
  <2>1. k - w.total \notin byte
    BY <1>1, <1>3, <1>4
  <2> QED  BY <1>1, <1>2, <2>1, AddedMember
<1>5. ASSUME NEW i \in 0..7
      PROVE  w.total + i \in v.ones <=> i \in byte
  <2>1. w.total + i \in Nat /\ (w.total + i) - w.total = i /\ ~(w.total + i < w.total)
    BY <1>t
  <2>2. w.total + i \notin w.ones
    BY <1>1, <2>1
  <2>3. w.total + i \in Added(w.ones, w.total, byte)
          <=> w.total + i \in w.ones \/ (w.total + i) - w.total \in byte
    BY <1>1, <2>1, AddedMember
  <2> QED  BY <1>2, <2>1, <2>2, <2>3
<1>6. w.total <= v.total
  BY <1>1, <1>2
<1>7. Grown(w, v)
  BY <1>4, <1>6 DEF Grown, Put
<1>8. BitsAt(v.ones, w.total, n) = byte
  <2>1. \A i \in Low(n) : i \in 0..7
    BY DEF Low
  <2>2. \A i \in byte : i \in Low(n)
    BY <1>3 DEF Low
  <2> QED  BY <1>5, <2>1, <2>2 DEF BitsAt
<1> QED  BY <1>7, <1>8

(* A chunk puts its lowest bits.                                            *)
LEMMA ChunkPuts ==
  ASSUME NEW w, Sound(w), NEW byte, NEW n \in 1..8
  PROVE  Put(w, PutChunk(w, byte, n), byte \cap Low(n), n)
<1> DEFINE in_byte == byte \cap Low(n)
           g == Given(w, in_byte, n)
           v == PutChunk(w, byte, n)
           filled == w.last_byte \cup ShiftLeft(in_byte, w.bit_offset)
           rest == ShiftRight(in_byte, 8 - w.bit_offset)
<1>1. in_byte \in Byte /\ \A i \in in_byte : i < n
  BY DEF Low, Byte, Bits
<1> HIDE DEF in_byte
<1>2. /\ g \in Writer /\ g.mode = w.mode /\ g.checked = w.checked
      /\ g.ones = Added(w.ones, w.total, in_byte) /\ g.total = w.total + n
  <2>1. /\ g \in Writer /\ g.mode = w.mode
        /\ g.ones = Added(w.ones, w.total, in_byte) /\ g.total = w.total + n
    BY <1>1, GivenFields
  <2>2. g.checked = w.checked
    BY Fields DEF Given, Writer
  <2> QED  BY <2>1, <2>2
<1>3. \/ v = [g EXCEPT !.last_byte = filled, !.bit_offset = w.bit_offset + n]
      \/ v = [g EXCEPT !.out = Append(@, filled), !.last_byte = {}, !.bit_offset = 8]
      \/ v = [g EXCEPT !.out = Append(@, filled),
                       !.bit_offset = (w.bit_offset + n) - 8, !.last_byte = rest]
      \/ v = [g EXCEPT !.out = Append(@, in_byte)]
      \/ v = [g EXCEPT !.last_byte = in_byte, !.bit_offset = n]
  BY DEF PutChunk, in_byte
<1> HIDE DEF g, v, filled, rest
<1>4. /\ v.mode = g.mode /\ v.checked = g.checked
      /\ v.ones = g.ones /\ v.total = g.total
  BY <1>2, <1>3 DEF Writer
<1> QED  BY <1>2, <1>4 DEF Put, v, in_byte

(* A byte in byte mode puts all of them.                                    *)
LEMMA BytePuts ==
  ASSUME NEW w, Sound(w), NEW byte \in Byte
  PROVE  Put(w, PutByte(w, byte), byte, 8)
<1> DEFINE g == Given(w, byte, 8)
           v == PutByte(w, byte)
<1>1. \A i \in byte : i < 8
  BY DEF Byte, Bits
<1>2. /\ g \in Writer /\ g.mode = w.mode /\ g.checked = w.checked
      /\ g.ones = Added(w.ones, w.total, byte) /\ g.total = w.total + 8
  <2>1. /\ g \in Writer /\ g.mode = w.mode
        /\ g.ones = Added(w.ones, w.total, byte) /\ g.total = w.total + 8
    BY <1>1, GivenFields
  <2>2. g.checked = w.checked
    BY Fields DEF Given, Writer
  <2> QED  BY <2>1, <2>2
<1>3. v = [g EXCEPT !.out = Append(@, byte)]
  BY DEF PutByte
<1> HIDE DEF g, v
<1>4. /\ v.mode = g.mode /\ v.checked = g.checked
      /\ v.ones = g.ones /\ v.total = g.total
  BY <1>2, <1>3 DEF Writer
<1> QED  BY <1>2, <1>4 DEF Put, v

(* To go on twice is to go on.                                              *)
LEMMA GrownOn ==
  ASSUME NEW u, NEW v, NEW w, Grown(u, v), Grown(v, w),
         u.total \in Nat, v.total \in Nat, w.total \in Nat
  PROVE  Grown(u, w)
<1>1. \A k \in Nat : k < u.total => k < v.total
  BY DEF Grown
<1>2. u.total <= w.total
  BY DEF Grown
<1> QED  BY <1>1, <1>2 DEF Grown

(* Bits before the end stay.                                                *)
LEMMA BitsStay ==
  ASSUME NEW w, NEW v, Grown(w, v), w.total \in Nat,
         NEW p \in Nat, NEW n \in 0..8, p + n <= w.total
  PROVE  BitsAt(v.ones, p, n) = BitsAt(w.ones, p, n)
<1>1. \A i \in Low(n) : p + i \in Nat /\ p + i < w.total
  BY DEF Low
<1>2. \A i \in Low(n) : p + i \in v.ones <=> p + i \in w.ones
  BY <1>1 DEF Grown
<1> QED  BY <1>2 DEF BitsAt

-----------------------------------------------------------------------------
(* The bytes of bytes from position p on                                    *)
BytesAt(ones, p, bytes) ==
  \A j \in 1..Len(bytes) : BitsAt(ones, p + 8 * (j - 1), 8) = bytes[j]

(* What writing bytes comes to, in either mode                              *)
PutEither(w, byte) == IF w.mode = "bits" THEN PutChunk(w, byte, 8) ELSE PutByte(w, byte)

(* A whole byte is added to the bits in either mode.                        *)
LEMMA EitherPuts ==
  ASSUME NEW mode \in Modes, NEW w \in SoundIn(mode), NEW byte \in Byte
  PROVE  PutEither(w, byte) \in SoundIn(mode) /\ Put(w, PutEither(w, byte), byte, 8)
<1>1. Sound(w) /\ w.mode = mode
  BY DEF SoundIn
<1>2. byte \cap Low(8) = byte
  <2>1. Low(8) = 0..7
    BY DEF Low
  <2> QED  BY <2>1 DEF Byte, Bits
<1>3. CASE mode = "bits"
  <2>1. 8 \in 1..8
    OBVIOUS
  <2>2. Sound(PutChunk(w, byte, 8)) /\ PutChunk(w, byte, 8).mode = "bits"
    BY <1>1, <1>3, <2>1, ChunkKeeps
  <2>3. Put(w, PutChunk(w, byte, 8), byte, 8)
    BY <1>1, <1>2, <2>1, ChunkPuts
  <2> QED  BY <1>1, <1>3, <2>2, <2>3 DEF PutEither, SoundIn, Sound
<1>4. CASE mode = "bytes"
  <2>1. Sound(PutByte(w, byte)) /\ PutByte(w, byte).mode = "bytes"
    BY <1>1, <1>4, ByteKeeps
  <2> QED  BY <1>1, <1>4, <2>1, BytePuts DEF PutEither, SoundIn, Sound
<1> QED  BY <1>3, <1>4 DEF Modes

(* A few bits are one chunk.                                                *)
LEMMA WriteBitsOnce ==
  ASSUME NEW w, NEW bytes, NEW n \in 1..8
  PROVE  WriteBits(w, bytes, n) = PutChunk(w, bytes[1], n)
<1> DEFINE f == [i \in 0..1 |-> IF i = 0 THEN w ELSE PutChunk(w, bytes[1], n)]
           in_bits(i) == IF i < 1 THEN 8 ELSE n - 8 * (1 - 1)
           step == CHOOSE step : step = [i \in 0..1 |->
                     IF i = 0 THEN w ELSE PutChunk(step[i - 1], bytes[i], in_bits(i))]
<1>1. Chunks(n) = 1 /\ in_bits(1) = n
  BY DEF Chunks
<1>2. WriteBits(w, bytes, n) = step[1]
  BY <1>1 DEF WriteBits
<1>3. f = [i \in 0..1 |-> IF i = 0 THEN w ELSE PutChunk(f[i - 1], bytes[i], in_bits(i))]
  <2>1. f[1 - 1] = w
    OBVIOUS
  <2>2. \A i \in 0..1 : i = 0 \/ i = 1
    OBVIOUS
  <2>3. f[0] = w /\ f[1] = PutChunk(w, bytes[1], n) /\ f = [i \in 0..1 |-> f[i]]
    OBVIOUS
  <2> HIDE DEF f, in_bits
  <2> QED  BY <1>1, <2>1, <2>2, <2>3
<1>4. step = [i \in 0..1 |-> IF i = 0 THEN w ELSE PutChunk(step[i - 1], bytes[i], in_bits(i))]
  <2> HIDE DEF f, in_bits
  <2> QED  BY <1>3
<1> HIDE DEF step, f, in_bits
<1>5. step[0] = w /\ 1 - 1 = 0
  BY <1>4
<1>6. step[1] = PutChunk(step[1 - 1], bytes[1], in_bits(1))
  BY <1>4
<1> QED  BY <1>1, <1>2, <1>5, <1>6

(* write_bytes goes from writer to writer, byte by byte.                    *)
BytesRun(w, bytes, S, g) ==
  /\ g \in [0..Len(bytes) -> S]
  /\ g[0] = w
  /\ \A i \in 1..Len(bytes) : g[i] = PutEither(g[i - 1], bytes[i])
  /\ WriteBytes(w, bytes) = g[Len(bytes)]

(* The loops of write_bytes, by bits and by bytes, run byte by byte.        *)
LEMMA BytesLoop ==
  ASSUME NEW mode \in Modes, NEW w \in SoundIn(mode), NEW bytes \in Seq(Byte)
  PROVE  \E g : BytesRun(w, bytes, SoundIn(mode), g)
<1> DEFINE S == SoundIn(mode)
           n == Len(bytes)
           F == [i \in 1..n |-> [v \in S |-> PutEither(v, bytes[i])]]
           in_bits(i) == IF i < n THEN 8 ELSE 8 * n - 8 * (n - 1)
           chunks == CHOOSE step : step = [i \in 0..n |->
                       IF i = 0 THEN w ELSE PutChunk(step[i - 1], bytes[i], in_bits(i))]
           whole == CHOOSE step : step = [i \in 0..n |->
                      IF i = 0 THEN w ELSE PutByte(step[i - 1], bytes[i])]
           Run(f) == /\ f = [i \in 0..n |-> f[i]] /\ f[0] = w
                     /\ \A i \in 1..n : f[i - 1] \in S => f[i] = PutEither(f[i - 1], bytes[i])
<1>1. n \in Nat /\ \A i \in 1..n : bytes[i] \in Byte
  OBVIOUS
<1>2. w \in S /\ \A v \in S, i \in 1..n : PutEither(v, bytes[i]) \in S
  BY <1>1, EitherPuts
<1>3. \A v \in S : v.mode = mode
  BY DEF SoundIn
<1>4. mode = "bytes" \/ mode = "bits"
  BY DEF Modes
<1>5. WriteBytes(w, bytes) = IF mode = "bits" THEN chunks[n] ELSE whole[n]
  <2>1. Chunks(8 * n) = n
    <3> HIDE DEF n
    <3> QED  BY <1>1 DEF Chunks
  <2>2. WriteBytes(w, bytes) = IF mode = "bits" THEN WriteBits(w, bytes, 8 * n) ELSE whole[n]
    BY <1>3 DEF WriteBytes
  <2>3. WriteBits(w, bytes, 8 * n) = chunks[n]
    BY <2>1 DEF WriteBits
  <2> QED  BY <2>2, <2>3
<1>6. \A i \in 1..n : in_bits(i) = 8
  <2> HIDE DEF n
  <2> QED  BY <1>1
<1> HIDE DEF n, in_bits, S
<1>7. Rounds(F, n, S) /\ \A v \in S, i \in 1..n : F[i][v] = PutEither(v, bytes[i])
  BY <1>2 DEF Rounds
<1> HIDE DEF F
<1>8. PICK g : IsRun(g, n, S, w, F)
  BY <1>1, <1>2, <1>7, LoopRuns
<1>9. /\ g = [i \in 0..n |-> g[i]] /\ g[0] = w
      /\ \A i \in 1..n : g[i - 1] \in S /\ g[i] = PutEither(g[i - 1], bytes[i])
  <2>1. \A i \in 1..n : g[i - 1] \in S
    BY <1>1, <1>8 DEF IsRun
  <2> QED  BY <1>1, <1>7, <1>8, <2>1 DEF IsRun
<1>10. ASSUME mode = "bits"
       PROVE  \E f : Run(f) /\ WriteBytes(w, bytes) = f[n]
  <2>1. \A v \in S, i \in 1..n : PutEither(v, bytes[i]) = PutChunk(v, bytes[i], in_bits(i))
    BY <1>3, <1>6, <1>10 DEF PutEither
  <2>2. g = [i \in 0..n |-> IF i = 0 THEN w ELSE PutChunk(g[i - 1], bytes[i], in_bits(i))]
    <3>1. \A i \in 1..n : g[i] = PutChunk(g[i - 1], bytes[i], in_bits(i))
      BY <1>9, <2>1
    <3>2. ASSUME NEW i \in 0..n
          PROVE  g[i] = IF i = 0 THEN w ELSE PutChunk(g[i - 1], bytes[i], in_bits(i))
      <4>1. CASE i = 0
        BY <1>9, <4>1
      <4>2. CASE i # 0
        <5>1. i \in 1..n
          BY <1>1, <4>2
        <5> QED  BY <3>1, <4>2, <5>1
      <4> QED  BY <4>1, <4>2
    <3> QED  BY <1>9, <3>2, Zenon
  <2>3. chunks = [i \in 0..n |->
                    IF i = 0 THEN w ELSE PutChunk(chunks[i - 1], bytes[i], in_bits(i))]
    BY <2>2
  <2> HIDE DEF chunks
  <2>4. Run(chunks)
    <3>1. chunks = [i \in 0..n |-> chunks[i]] /\ chunks[0] = w
      BY <1>1, <2>3
    <3>2. \A i \in 1..n : chunks[i] = PutChunk(chunks[i - 1], bytes[i], in_bits(i))
      BY <1>1, <2>3
    <3> QED  BY <2>1, <3>1, <3>2
  <2>5. WriteBytes(w, bytes) = chunks[n]
    BY <1>5, <1>10
  <2> HIDE DEF Run
  <2> QED  BY <2>4, <2>5
<1>11. ASSUME mode = "bytes"
       PROVE  \E f : Run(f) /\ WriteBytes(w, bytes) = f[n]
  <2>1. \A v \in S, i \in 1..n : PutEither(v, bytes[i]) = PutByte(v, bytes[i])
    BY <1>3, <1>11 DEF PutEither
  <2>2. g = [i \in 0..n |-> IF i = 0 THEN w ELSE PutByte(g[i - 1], bytes[i])]
    BY <1>1, <1>9, <2>1
  <2>3. whole = [i \in 0..n |-> IF i = 0 THEN w ELSE PutByte(whole[i - 1], bytes[i])]
    BY <2>2
  <2> HIDE DEF whole
  <2>4. Run(whole)
    <3>1. whole = [i \in 0..n |-> whole[i]] /\ whole[0] = w
      BY <1>1, <2>3
    <3>2. \A i \in 1..n : whole[i] = PutByte(whole[i - 1], bytes[i])
      BY <1>1, <2>3
    <3> QED  BY <2>1, <3>1, <3>2
  <2>5. WriteBytes(w, bytes) = whole[n]
    BY <1>5, <1>11
  <2> HIDE DEF Run
  <2> QED  BY <2>4, <2>5
<1>12. PICK f : Run(f) /\ WriteBytes(w, bytes) = f[n]
  BY <1>4, <1>10, <1>11
<1>13. ASSUME NEW m \in 0..n
       PROVE  f[m] \in S
  <2>1. ASSUME NEW i \in 1..m, f[i - 1] \in S
        PROVE  f[i] \in S
    <3>1. i \in 1..n
      BY <1>1
    <3>2. f[i] = PutEither(f[i - 1], bytes[i])
      BY <1>12, <2>1, <3>1
    <3> QED  BY <1>2, <2>1, <3>1, <3>2
  <2>3. f[0] \in S
    BY <1>2, <1>12
  <2>2. m \in Nat
    BY <1>1
  <2> QED  BY <2>1, <2>2, <2>3, LoopStays
<1>14. f \in [0..n -> S]
  BY <1>12, <1>13
<1>15. ASSUME NEW i \in 1..n
       PROVE  f[i] = PutEither(f[i - 1], bytes[i])
  <2>1. i - 1 \in 0..n
    BY <1>1
  <2>2. f[i - 1] \in S
    BY <1>13, <2>1
  <2> QED  BY <1>12, <2>2
<1>16. BytesRun(w, bytes, S, f)
  BY <1>12, <1>14, <1>15 DEF BytesRun, n
<1> QED  BY <1>16 DEF S

(* Bytes that are written are found where the message ended, in either mode.*)
LEMMA BytesWritten ==
  ASSUME NEW mode \in Modes, NEW w \in SoundIn(mode), NEW bytes \in Seq(Byte)
  PROVE  LET v == WriteBytes(w, bytes)
         IN  /\ v \in SoundIn(mode) /\ Grown(w, v)
             /\ v.total = w.total + 8 * Len(bytes)
             /\ BytesAt(v.ones, w.total, bytes)
<1> DEFINE n == Len(bytes)
<1>1. n \in Nat /\ \A i \in 1..n : bytes[i] \in Byte
  OBVIOUS
<1>2. PICK g : BytesRun(w, bytes, SoundIn(mode), g)
  BY BytesLoop
<1> DEFINE Good(m) ==
             /\ Grown(w, g[m]) /\ g[m].total = w.total + 8 * m
             /\ \A j \in 1..m : BitsAt(g[m].ones, w.total + 8 * (j - 1), 8) = bytes[j]
           T == {m \in Nat : m <= n => Good(m)}
<1>3. w.total \in Nat /\ Sound(w) /\ w.mode = mode
  BY Fields DEF SoundIn
<1>4. 0 \in T
  <2>1. g[0] = w /\ Grown(w, w)
    BY <1>2, <1>3 DEF BytesRun, Grown
  <2>2. w.total = w.total + 8 * 0
    BY <1>3
  <2> QED  BY <2>1, <2>2
<1>5. ASSUME NEW m \in Nat, m \in T
      PROVE  m + 1 \in T
  <2> SUFFICES ASSUME m + 1 <= n
               PROVE  Good(m + 1)
    OBVIOUS
  <2> HIDE DEF n
  <2>1. m + 1 \in 1..n /\ (m + 1) - 1 = m /\ m <= n /\ m \in 0..n
    BY <1>1
  <2>2. Good(m)
    BY <1>5, <2>1
  <2> DEFINE u == g[m]
             v == g[m + 1]
             byte == bytes[m + 1]
  <2>3. u \in SoundIn(mode) /\ v = PutEither(u, byte)
    BY <1>2, <2>1 DEF BytesRun, n
  <2>4. byte \in Byte
    BY <1>1, <2>1
  <2> HIDE DEF T
  <2>5. Grown(w, u) /\ u.total = w.total + 8 * m
    BY <2>2
  <2>6. \A j \in 1..m : BitsAt(u.ones, w.total + 8 * (j - 1), 8) = bytes[j]
    BY <2>2
  <2> HIDE DEF Good
  <2> SUFFICES /\ Grown(w, v) /\ v.total = w.total + 8 * (m + 1)
               /\ \A j \in 1..m + 1 : BitsAt(v.ones, w.total + 8 * (j - 1), 8) = bytes[j]
    BY DEF Good
  <2> HIDE DEF u, v, byte
  <2>7. v \in SoundIn(mode) /\ Put(u, v, byte, 8)
    BY <2>3, <2>4, EitherPuts
  <2>8. Sound(u) /\ Sound(v)
    BY <2>3, <2>7 DEF SoundIn
  <2>9. Grown(u, v) /\ BitsAt(v.ones, u.total, 8) = byte
    <3>1. 8 \in 1..8 /\ \A i \in byte : i < 8
      BY <2>4 DEF Byte, Bits
    <3> QED  BY <2>4, <2>7, <2>8, <3>1, PutGrows
  <2>10. u.total \in Nat /\ v.total \in Nat
    BY <2>8, Fields
  <2>11. Grown(w, v)
    BY <1>3, <2>5, <2>9, <2>10, GrownOn
  <2>12. v.total = w.total + 8 * (m + 1)
    <3>1. v.total = u.total + 8
      BY <2>7 DEF Put
    <3> QED  BY <1>3, <2>5, <3>1
  <2>13. ASSUME NEW j \in 1..m + 1
         PROVE  BitsAt(v.ones, w.total + 8 * (j - 1), 8) = bytes[j]
    <3>1. CASE j \in 1..m
      <4>1. /\ w.total + 8 * (j - 1) \in Nat
            /\ (w.total + 8 * (j - 1)) + 8 <= u.total
        BY <1>3, <2>5, <3>1
      <4>2. BitsAt(v.ones, w.total + 8 * (j - 1), 8)
              = BitsAt(u.ones, w.total + 8 * (j - 1), 8)
        BY <2>9, <2>10, <4>1, BitsStay
      <4> QED  BY <2>6, <3>1, <4>2
    <3>2. CASE j = m + 1
      <4>1. w.total + 8 * (j - 1) = u.total
        BY <2>5, <3>2
      <4> QED  BY <2>9, <3>2, <4>1 DEF byte
    <3> QED  BY <3>1, <3>2
  <2> QED  BY <2>11, <2>12, <2>13
<1> HIDE DEF T
<1>6. n \in T
  BY <1>1, <1>4, <1>5, SetInduction
<1>7. Good(n)
  BY <1>1, <1>6 DEF T
<1>8. WriteBytes(w, bytes) = g[n] /\ g[n] \in SoundIn(mode)
  BY <1>1, <1>2 DEF BytesRun
<1> QED  BY <1>7, <1>8 DEF BytesAt

(* v is w with n bits of a byte written at its end.                         *)
BitsPut(w, v, byte, n) ==
  /\ v \in SoundIn("bits") /\ Grown(w, v) /\ v.total = w.total + n
  /\ BitsAt(v.ones, w.total, n) = byte \cap Low(n)

(* A few bits are put there in bit mode, ...                                *)
LEMMA BitsWritten ==
  ASSUME NEW w \in SoundIn("bits"), NEW bytes, NEW n \in 1..8
  PROVE  BitsPut(w, WriteBits(w, bytes, n), bytes[1], n)
<1> DEFINE v == PutChunk(w, bytes[1], n)
           in_byte == bytes[1] \cap Low(n)
<1>1. Sound(w) /\ w.mode = "bits"
  BY DEF SoundIn
<1>2. in_byte \in Byte /\ \A i \in in_byte : i < n
  BY DEF Low, Byte, Bits
<1>3. WriteBits(w, bytes, n) = v
  BY WriteBitsOnce
<1>4. Sound(v) /\ v.mode = "bits" /\ Put(w, v, in_byte, n)
  BY <1>1, ChunkKeeps, ChunkPuts
<1> HIDE DEF v, in_byte
<1>5. Grown(w, v) /\ BitsAt(v.ones, w.total, n) = in_byte
  BY <1>1, <1>2, <1>4, PutGrows
<1>6. v \in SoundIn("bits") /\ v.total = w.total + n
  BY <1>4 DEF SoundIn, Sound, Put
<1> QED  BY <1>3, <1>5, <1>6 DEF BitsPut, in_byte

(* ... and types, of 8 bits or 5.                                           *)
TagBits(mode) == IF mode = "bytes" THEN 8 ELSE 5

(* A type adds the bits of its number.                                      *)
LEMMA TagWritten ==
  ASSUME NEW mode \in Modes, NEW w \in SoundIn(mode), NEW tag
  PROVE  LET v == WriteDataType(w, tag)
         IN  /\ v \in SoundIn(mode) /\ Grown(w, v)
             /\ v.total = w.total + TagBits(mode)
             /\ BitsAt(v.ones, w.total, TagBits(mode)) = ByteOf(tag) \cap Low(TagBits(mode))
<1> DEFINE b == ByteOf(tag)
           bytes == <<b>>
           v == WriteDataType(w, tag)
<1>1. b \in Byte /\ bytes \in Seq(Byte) /\ Len(bytes) = 1 /\ bytes[1] = b
  BY DEF ByteOf, Byte
<1>2. w.mode = mode /\ w.total \in Nat
  BY Fields DEF SoundIn
<1>3. CASE mode = "bytes"
  <2>1. v = WriteBytes(w, bytes)
    BY <1>2, <1>3 DEF WriteDataType
  <2> HIDE DEF bytes, v, b
  <2>2. /\ v \in SoundIn(mode) /\ Grown(w, v)
        /\ v.total = w.total + 8 * Len(bytes)
        /\ BytesAt(v.ones, w.total, bytes)
    BY <1>1, <2>1, BytesWritten
  <2>3. BitsAt(v.ones, w.total, 8) = b
    <3>1. 1 \in 1..Len(bytes) /\ w.total + 8 * (1 - 1) = w.total
      BY <1>1, <1>2
    <3> QED  BY <1>1, <2>2, <3>1 DEF BytesAt
  <2>4. b \cap Low(8) = b
    <3>1. Low(8) = 0..7
      BY DEF Low
    <3> QED  BY <1>1, <3>1 DEF Byte, Bits
  <2>5. v.total = w.total + 8
    BY <1>1, <1>2, <2>2
  <2> QED  BY <1>3, <2>2, <2>3, <2>4, <2>5 DEF TagBits, v, b
<1>4. CASE mode = "bits"
  <2>1. v = WriteBits(w, bytes, 5)
    BY <1>2, <1>4 DEF WriteDataType
  <2> HIDE DEF bytes, v
  <2>2. w \in SoundIn("bits") /\ 5 \in 1..8
    BY <1>4
  <2>3. /\ v \in SoundIn("bits") /\ Grown(w, v) /\ v.total = w.total + 5
        /\ BitsAt(v.ones, w.total, 5) = bytes[1] \cap Low(5)
    <3>1. BitsPut(w, WriteBits(w, bytes, 5), bytes[1], 5)
      BY <2>2, BitsWritten, Zenon
    <3> QED  BY <2>1, <3>1, Zenon DEF BitsPut
  <2> QED  BY <1>1, <1>4, <2>3 DEF TagBits, v
<1> QED  BY <1>3, <1>4 DEF Modes

-----------------------------------------------------------------------------
(* The reader                                                               *)

(* How many bits it has read                                                *)
Place(r) == 8 * r.pos - (8 - r.bit_offset)

(* It did not fail, and holds the byte that it has read a part of           *)
SoundReader(r) ==
  /\ r \in Reader /\ r.ok /\ r.pos <= Len(r.buf)
  /\ r.bit_offset < 8 => r.pos > 0 /\ r.last_byte = r.buf[r.pos]
  /\ r.mode = "bytes" => r.bit_offset = 8

(* What a read of bits leaves alone                                         *)
Same(r, s) == /\ s.buf = r.buf /\ s.mode = r.mode
              /\ s.checked = r.checked /\ s.cached = r.cached

(* The fields of a sound reader have their types.                           *)
LEMMA ReaderFields ==
  ASSUME NEW r, SoundReader(r)
  PROVE  /\ r \in Reader /\ r.ok = TRUE
         /\ r.buf \in Seq(Byte) /\ r.pos \in Nat /\ Len(r.buf) \in Nat
         /\ r.pos <= Len(r.buf)
         /\ r.bit_offset \in 1..8 /\ r.last_byte \in Byte
         /\ r.mode \in Modes /\ r.checked \in BOOLEAN
         /\ r.cached \in {None} \cup Nat /\ r.got \in Seq(Byte)
<1>1. r \in Reader /\ r.ok /\ r.pos <= Len(r.buf)
  BY DEF SoundReader
<1>2. /\ r.ok \in BOOLEAN
      /\ r.buf \in Seq(Byte) /\ r.pos \in Nat
      /\ r.bit_offset \in 1..8 /\ r.last_byte \in Byte
      /\ r.mode \in Modes /\ r.checked \in BOOLEAN
      /\ r.cached \in {None} \cup Nat /\ r.got \in Seq(Byte)
  BY <1>1 DEF Reader, Modes
<1> QED  BY <1>1, <1>2

(* The bits of a chunk: in_byte, of the last byte and the next (read_bits). *)
LEMMA TwoBytes ==
  ASSUME NEW ones, NEW pos \in Nat, NEW off \in 1..8, NEW left \in Nat, NEW n \in 1..8,
         n = (IF left < 8 THEN left ELSE 8), NEW last \in Byte,
         off < 8 => last = ByteAt(ones, 8 * (pos - 1))
  PROVE  (ShiftRight(last, off) \cup ShiftLeft(ByteAt(ones, 8 * pos), 8 - off)) \cap Low(left)
           = BitsAt(ones, 8 * pos - (8 - off), n)
<1> DEFINE p == 8 * pos - (8 - off)
           both == ShiftRight(last, off) \cup ShiftLeft(ByteAt(ones, 8 * pos), 8 - off)
<1>1. ASSUME NEW i \in 0..7
      PROVE  i \in both <=> p + i \in ones
  <2>1. i \in ShiftRight(last, off) <=> i + off \in last
    BY DEF ShiftRight, Bits
  <2>2. i \in ShiftLeft(ByteAt(ones, 8 * pos), 8 - off)
          <=> i - (8 - off) \in 0..7 /\ 8 * pos + (i - (8 - off)) \in ones
    BY DEF ShiftLeft, ByteAt, Bits
  <2>3. 8 * pos + (i - (8 - off)) = p + i
    OBVIOUS
  <2>4. CASE i + off <= 7
    <3>1. ~(i - (8 - off) \in 0..7) /\ off < 8 /\ i + off \in 0..7
      BY <2>4
    <3>2. i + off \in last <=> 8 * (pos - 1) + (i + off) \in ones
      BY <3>1 DEF ByteAt, Bits
    <3>3. 8 * (pos - 1) + (i + off) = p + i
      OBVIOUS
    <3> HIDE DEF p
    <3> QED  BY <2>1, <2>2, <3>1, <3>2, <3>3
  <2>5. CASE i + off > 7
    <3>1. i - (8 - off) \in 0..7 /\ i + off \notin 0..7
      BY <2>5
    <3>2. i + off \notin last
      BY <3>1 DEF Byte, Bits
    <3> HIDE DEF p
    <3> QED  BY <2>1, <2>2, <2>3, <3>1, <3>2
  <2> HIDE DEF p, both
  <2> QED  BY <2>4, <2>5
<1>2. \A i \in both : i \in 0..7
  BY DEF ShiftLeft, ShiftRight, Bits
<1>3. \A i \in 0..7 : i \in Low(left) <=> i \in Low(n)
  BY DEF Low
<1>4. \A i \in Low(n) : i \in 0..7
  BY DEF Low
<1> HIDE DEF both, p
<1>5. both \cap Low(left) = BitsAt(ones, p, n)
  BY <1>1, <1>2, <1>3, <1>4 DEF BitsAt
<1> QED  BY <1>5 DEF both, p

(* Bits that end within the byte the reader is in come from it alone.       *)
LEMMA OneByte ==
  ASSUME NEW ones, NEW pos \in Nat, NEW off \in 1..7, NEW left \in 1..8,
         left <= 8 - off
  PROVE  ShiftRight(ByteAt(ones, 8 * (pos - 1)), off) \cap Low(left)
           = BitsAt(ones, 8 * pos - (8 - off), left)
<1> DEFINE p == 8 * pos - (8 - off)
           one == ShiftRight(ByteAt(ones, 8 * (pos - 1)), off)
<1>1. ASSUME NEW i \in Low(left)
      PROVE  i \in one <=> p + i \in ones
  <2>1. i \in 0..7 /\ i + off \in 0..7
    BY DEF Low
  <2>2. i \in one <=> 8 * (pos - 1) + (i + off) \in ones
    BY <2>1 DEF ShiftRight, ByteAt, Bits
  <2>3. 8 * (pos - 1) + (i + off) = p + i
    BY <2>1
  <2> HIDE DEF p, one
  <2> QED  BY <2>2, <2>3
<1> HIDE DEF one, p
<1>2. one \cap Low(left) = BitsAt(ones, p, left)
  BY <1>1 DEF BitsAt
<1> QED  BY <1>2 DEF one, p

(* The bits that are read are those that come next.                         *)
Took(r, s, ones, n) == /\ SoundReader(s) /\ Same(r, s)
                       /\ Place(s) = Place(r) + n
                       /\ s.got = Append(r.got, BitsAt(ones, Place(r), n))

(* One iteration of read_bits takes the bits that come next, or fails where *)
(* there are not so many left.                                              *)
LEMMA ChunkRead ==
  ASSUME NEW r, SoundReader(r), r.mode = "bits", NEW ones, Written(r.buf, ones),
         NEW left \in Nat, NEW n \in 1..8, n = (IF left < 8 THEN left ELSE 8)
  PROVE  IF Place(r) + n <= 8 * Len(r.buf) THEN Took(r, GetChunk(r, left), ones, n)
         ELSE GetChunk(r, left) = Fail(r)
<1> DEFINE pos == r.pos
           off == r.bit_offset
           len == Len(r.buf)
           two == left > 8 - off
           bits == BitsAt(ones, Place(r), n)
           s == GetChunk(r, left)
<1>1. /\ r \in Reader /\ r.ok = TRUE
      /\ r.buf \in Seq(Byte) /\ pos \in Nat /\ len \in Nat /\ pos <= len
      /\ off \in 1..8 /\ r.last_byte \in Byte /\ r.got \in Seq(Byte)
  BY ReaderFields
<1>2. \A j \in 1..len : r.buf[j] = ByteAt(ones, 8 * (j - 1)) /\ r.buf[j] \in Byte
  BY <1>1 DEF Written
<1>3. off < 8 => pos > 0 /\ r.last_byte = ByteAt(ones, 8 * (pos - 1))
  <2> SUFFICES ASSUME off < 8
               PROVE  pos > 0 /\ r.last_byte = ByteAt(ones, 8 * (pos - 1))
    OBVIOUS
  <2>1. pos > 0 /\ r.last_byte = r.buf[pos]
    BY DEF SoundReader
  <2>2. pos \in 1..len
    BY <1>1, <2>1
  <2> QED  BY <1>2, <2>1, <2>2
<1>4. Place(r) = 8 * pos - (8 - off)
  BY DEF Place
<1> HIDE DEF pos, off, len
<1>n. n \in 1..8 /\ left \in Nat /\ (left < 8 => n = left) /\ (left >= 8 => n = 8)
  OBVIOUS
<1>o. pos \in Nat /\ off \in 1..8 /\ len \in Nat /\ pos <= len
  BY <1>1
<1>5. CASE two /\ pos = len
  <2>1. s = Fail(r)
    BY <1>5 DEF GetChunk, pos, off, len
  <2>2. ~(Place(r) + n <= 8 * len)
    BY <1>o, <1>n, <1>4, <1>5
  <2> QED  BY <2>1, <2>2 DEF len
<1>6. CASE two /\ pos # len
  <2> DEFINE byte2 == r.buf[pos + 1]
             read == (ShiftRight(r.last_byte, off) \cup ShiftLeft(byte2, 8 - off)) \cap Low(left)
             new_off == IF left >= 8 THEN off
                        ELSE IF off + left > 8 THEN (off + left) - 8 ELSE off + left
  <2>1. s = [r EXCEPT !.pos = @ + 1, !.last_byte = byte2, !.bit_offset = new_off,
                      !.got = Append(@, read)]
    BY <1>6 DEF GetChunk, pos, off, len
  <2>2. pos + 1 \in 1..len /\ (pos + 1) - 1 = pos
    BY <1>1, <1>6
  <2>3. byte2 = ByteAt(ones, 8 * pos) /\ byte2 \in Byte
    BY <1>2, <2>2
  <2>4. read = bits
    <3>1. off < 8 => r.last_byte = ByteAt(ones, 8 * (pos - 1))
      BY <1>3
    <3>2. r.last_byte \in Byte /\ n = (IF left < 8 THEN left ELSE 8)
      BY <1>1
    <3>3. (ShiftRight(r.last_byte, off) \cup ShiftLeft(ByteAt(ones, 8 * pos), 8 - off))
             \cap Low(left) = BitsAt(ones, 8 * pos - (8 - off), n)
      BY <1>o, <3>1, <3>2, TwoBytes
    <3> QED  BY <1>4, <2>3, <3>3
  <2>5. new_off \in 1..8 /\ 8 * (pos + 1) - (8 - new_off) = (8 * pos - (8 - off)) + n
    BY <1>o, <1>n, <1>6
  <2>6. read \in Byte
    BY DEF ShiftLeft, ShiftRight, Byte, Bits
  <2>7. Append(r.got, read) \in Seq(Byte)
    BY <1>1, <2>6
  <2>8. (8 * pos - (8 - off)) + n <= 8 * len
    BY <1>o, <1>n, <2>2
  <2> HIDE DEF new_off, read, byte2, s
  <2>9. /\ s \in Reader /\ s.ok = TRUE /\ Same(r, s)
        /\ s.pos = pos + 1 /\ s.bit_offset = new_off /\ s.last_byte = byte2
        /\ s.got = Append(r.got, read)
    <3>1. pos + 1 \in Nat
      BY <1>1
    <3> QED  BY <1>1, <2>1, <2>3, <2>5, <2>7, <3>1 DEF Reader, Same, pos
  <2>10. SoundReader(s)
    <3>1. s.pos > 0 /\ s.pos <= len
      BY <2>2, <2>9
    <3>2. s.last_byte = s.buf[s.pos]
      BY <2>9 DEF Same, byte2, pos
    <3> QED  BY <2>9, <3>1, <3>2 DEF SoundReader, Same, len
  <2>11. Place(s) = Place(r) + n
    BY <1>4, <2>5, <2>9 DEF Place
  <2> QED  BY <1>4, <2>4, <2>8, <2>9, <2>10, <2>11 DEF Took, s, len
<1>7. CASE ~two
  <2> DEFINE read == ShiftRight(r.last_byte, off) \cap Low(left)
             new_off == off + left
  <2>1. off \in 1..7 /\ left \in 1..8 /\ left <= 8 - off /\ n = left /\ new_off \in 1..8
    BY <1>1, <1>7
  <2>2. s = [r EXCEPT !.bit_offset = new_off, !.got = Append(@, read)]
    <3>1. ~(left >= 8) /\ ~(off + left > 8)
      BY <2>1
    <3>2. s = [r EXCEPT !.pos = @, !.last_byte = @, !.bit_offset = new_off,
                        !.got = Append(@, read)]
      BY <1>7, <3>1 DEF GetChunk, pos, off
    <3> HIDE DEF s, read, new_off
    <3> QED  BY <1>1, <3>2 DEF Reader
  <2>3. read = bits
    <3>1. r.last_byte = ByteAt(ones, 8 * (pos - 1))
      BY <1>3, <2>1
    <3>2. ShiftRight(ByteAt(ones, 8 * (pos - 1)), off) \cap Low(left)
            = BitsAt(ones, 8 * pos - (8 - off), left)
      BY <1>o, <2>1, OneByte
    <3> QED  BY <1>4, <2>1, <3>1, <3>2
  <2>4. 8 * pos - (8 - new_off) = (8 * pos - (8 - off)) + n
    BY <1>o, <2>1
  <2>5. (8 * pos - (8 - off)) + n <= 8 * len
    BY <1>o, <2>1
  <2>6. read \in Byte
    BY DEF ShiftRight, Byte, Bits
  <2>7. Append(r.got, read) \in Seq(Byte)
    BY <1>1, <2>6
  <2> HIDE DEF new_off, read, s
  <2>8. /\ s \in Reader /\ s.ok = TRUE /\ Same(r, s)
        /\ s.pos = pos /\ s.bit_offset = new_off /\ s.last_byte = r.last_byte
        /\ s.got = Append(r.got, read)
    BY <1>1, <2>1, <2>2, <2>7 DEF Reader, Same, pos
  <2>9. SoundReader(s)
    <3>1. pos > 0 /\ r.last_byte = r.buf[pos]
      BY <2>1 DEF SoundReader, pos, off
    <3> QED  BY <1>1, <2>8, <3>1 DEF SoundReader, Same, len
  <2>10. Place(s) = Place(r) + n
    BY <1>4, <2>4, <2>8 DEF Place
  <2> QED  BY <1>4, <2>3, <2>5, <2>8, <2>9, <2>10 DEF Took, s, len
<1> QED  BY <1>5, <1>6, <1>7

(* A reader's place is within the message.                                  *)
LEMMA PlaceInBuffer ==
  ASSUME NEW r, SoundReader(r)
  PROVE  Place(r) \in Nat /\ Place(r) <= 8 * Len(r.buf)
<1> DEFINE pos == r.pos
           off == r.bit_offset
           len == Len(r.buf)
<1>1. pos \in Nat /\ len \in Nat /\ pos <= len /\ off \in 1..8
  BY ReaderFields
<1>2. off < 8 => pos > 0
  BY DEF SoundReader
<1>3. Place(r) = 8 * pos - (8 - off)
  BY DEF Place
<1> HIDE DEF pos, off, len
<1>4. Place(r) \in Nat /\ Place(r) <= 8 * len
  BY <1>1, <1>2, <1>3
<1> QED  BY <1>4 DEF len

(* A byte is eight bits.                                                    *)
LEMMA ByteIsBits == \A ones, p : ByteAt(ones, p) = BitsAt(ones, p, 8)
<1>1. Low(8) = 0..7
  BY DEF Low
<1> QED  BY <1>1 DEF ByteAt, BitsAt, Bits

(* A reader that starts a call                                              *)
Ready(r) == [r EXCEPT !.got = <<>>]

(* Starting a call keeps the reader sound and where it was.                 *)
LEMMA ReadyFields ==
  ASSUME NEW r, SoundReader(r)
  PROVE  /\ SoundReader(Ready(r)) /\ Same(r, Ready(r))
         /\ Place(Ready(r)) = Place(r) /\ Ready(r).got = <<>>
<1>1. r \in Reader /\ r.ok = TRUE
  BY ReaderFields
<1> DEFINE s == Ready(r)
<1>2. s = [r EXCEPT !.got = <<>>]
  BY DEF Ready
<1>3. <<>> \in Seq(Byte)
  OBVIOUS
<1> HIDE DEF s
<1>4. /\ s \in Reader /\ s.ok = TRUE /\ Same(r, s) /\ s.got = <<>>
      /\ s.pos = r.pos /\ s.bit_offset = r.bit_offset /\ s.last_byte = r.last_byte
  BY <1>1, <1>2, <1>3 DEF Reader, Same
<1>5. SoundReader(s)
  BY <1>4 DEF SoundReader, Same
<1> QED  BY <1>4, <1>5 DEF Place, s

(* What a call took from the message                                        *)
TookBits(r, s, ones, n) == /\ SoundReader(s) /\ Same(r, s)
                           /\ Place(s) = Place(r) + n
                           /\ s.got = <<BitsAt(ones, Place(r), n)>>

TookBytes(r, s, ones, n) ==
  /\ SoundReader(s) /\ Same(r, s) /\ Place(s) = Place(r) + 8 * n
  /\ s.got \in Seq(Byte) /\ Len(s.got) = n
  /\ \A j \in 1..n : s.got[j] = BitsAt(ones, Place(r) + 8 * (j - 1), 8)

(* A few bits are one chunk for the reader, too.                            *)
LEMMA ReadBitsOnce ==
  ASSUME NEW r, r.ok, Ready(r).ok, NEW n \in 1..8
  PROVE  ReadBits(r, n) = GetChunk(Ready(r), n)
<1> DEFINE left(i) == n - 8 * (i - 1)
           f == [i \in 0..1 |-> IF i = 0 THEN Ready(r) ELSE GetChunk(Ready(r), n)]
           Round(before, i) == IF before.ok THEN GetChunk(before, left(i)) ELSE before
           step == CHOOSE step : step = [i \in 0..1 |->
                     IF i = 0 THEN Ready(r) ELSE Round(step[i - 1], i)]
<1>1. Chunks(n) = 1 /\ left(1) = n
  BY DEF Chunks
<1>2. ReadBits(r, n) = step[1]
  BY <1>1 DEF ReadBits, Ready
<1>3. Round(Ready(r), 1) = GetChunk(Ready(r), n)
  BY <1>1
<1> HIDE DEF left, Round
<1>4. f = [i \in 0..1 |-> IF i = 0 THEN Ready(r) ELSE Round(f[i - 1], i)]
  <2>1. f[0] = Ready(r) /\ f[1] = GetChunk(Ready(r), n) /\ f = [i \in 0..1 |-> f[i]]
    OBVIOUS
  <2> HIDE DEF f
  <2>2. ASSUME NEW i \in 0..1
        PROVE  f[i] = IF i = 0 THEN Ready(r) ELSE Round(f[i - 1], i)
    <3>1. CASE i = 0
      BY <2>1, <3>1
    <3>2. CASE i = 1
      <4>1. f[i - 1] = Ready(r)
        BY <2>1, <3>2
      <4> QED  BY <1>3, <2>1, <3>2, <4>1
    <3> QED  BY <3>1, <3>2
  <2> QED  BY <2>1, <2>2, Zenon
<1> HIDE DEF f
<1>5. step = [i \in 0..1 |-> IF i = 0 THEN Ready(r) ELSE Round(step[i - 1], i)]
  BY <1>4
<1> HIDE DEF step
<1>6. step[0] = Ready(r) /\ 1 - 1 = 0
  BY <1>5
<1>7. step[1] = Round(step[1 - 1], 1)
  BY <1>5
<1> QED  BY <1>2, <1>3, <1>6, <1>7

(* read_bits of a chunk, or of less, takes it as a single chunk.            *)
LEMMA BitsRead ==
  ASSUME NEW r, SoundReader(r), r.mode = "bits", NEW ones, Written(r.buf, ones),
         NEW n \in 1..8
  PROVE  IF Place(r) + n <= 8 * Len(r.buf) THEN TookBits(r, ReadBits(r, n), ones, n)
         ELSE ReadBits(r, n) = Fail(Ready(r))
<1> DEFINE q == Ready(r)
           s == GetChunk(q, n)
<1>1. /\ SoundReader(q) /\ Same(r, q)
      /\ Place(q) = Place(r) /\ q.got = <<>>
  BY ReadyFields
<1>2. r.ok /\ q.ok
  BY <1>1 DEF SoundReader
<1> HIDE DEF q
<1>3. ReadBits(r, n) = s
  BY <1>2, ReadBitsOnce DEF q
<1>4. q.mode = "bits" /\ q.buf = r.buf /\ n \in Nat /\ n = (IF n < 8 THEN n ELSE 8)
  BY <1>1 DEF Same
<1>5. IF Place(q) + n <= 8 * Len(q.buf) THEN Took(q, s, ones, n) ELSE s = Fail(q)
  BY <1>1, <1>4, ChunkRead
<1> HIDE DEF s
<1>6. CASE Place(r) + n <= 8 * Len(r.buf)
  <2>1. Took(q, s, ones, n)
    BY <1>1, <1>4, <1>5, <1>6
  <2>2. SoundReader(s) /\ Same(r, s) /\ Place(s) = Place(r) + n
    BY <1>1, <2>1 DEF Took, Same
  <2>3. s.got = Append(<<>>, BitsAt(ones, Place(r), n))
    BY <1>1, <2>1 DEF Took
  <2>4. s.got = <<BitsAt(ones, Place(r), n)>>
    BY <2>3
  <2> QED  BY <1>3, <1>6, <2>2, <2>4 DEF TookBits
<1>7. CASE ~(Place(r) + n <= 8 * Len(r.buf))
  BY <1>1, <1>3, <1>4, <1>5, <1>7 DEF q
<1> QED  BY <1>6, <1>7

-----------------------------------------------------------------------------
(* Whole bytes                                                              *)

(* The part of a buffer from a position on                                  *)
LEMMA Slice ==
  ASSUME NEW buf \in Seq(Byte), NEW pos \in Nat, NEW n \in Nat, pos + n <= Len(buf)
  PROVE  LET taken == SubSeq(buf, pos + 1, pos + n)
         IN  /\ taken \in Seq(Byte) /\ Len(taken) = n
             /\ \A j \in 1..n : taken[j] = buf[pos + j]
<1> DEFINE from == pos + 1
           to == pos + n
<1>1. from \in Int /\ to \in Int /\ Len(buf) \in Nat
  OBVIOUS
<1>2. /\ ((to - from) + 1) = n /\ (from <= to <=> n > 0)
      /\ \A j \in 1..n : (from + j) - 1 = pos + j
  OBVIOUS
<1>3. \A j \in from..to : j \in 1..Len(buf)
  BY <1>1
<1>4. \A j \in from..to : buf[j] \in Byte
  BY <1>3
<1> HIDE DEF from, to
<1>5. /\ SubSeq(buf, from, to) \in Seq(Byte)
      /\ Len(SubSeq(buf, from, to)) = IF from <= to THEN (to - from) + 1 ELSE 0
      /\ \A j \in 1..(to - from) + 1 : SubSeq(buf, from, to)[j] = buf[(from + j) - 1]
  BY <1>1, <1>4, SubSeqProperties
<1>6. Len(SubSeq(buf, from, to)) = n
  BY <1>2, <1>5
<1>7. \A j \in 1..n : SubSeq(buf, from, to)[j] = buf[pos + j]
  BY <1>2, <1>5
<1> QED  BY <1>5, <1>6, <1>7 DEF from, to

(* A reader in byte mode takes bytes as they are.                           *)
LEMMA WholeBytesRead ==
  ASSUME NEW r, SoundReader(r), r.mode = "bytes", NEW ones, Written(r.buf, ones),
         NEW n \in Nat
  PROVE  IF Place(r) + 8 * n <= 8 * Len(r.buf) THEN TookBytes(r, ReadBytes(r, n), ones, n)
         ELSE ReadBytes(r, n) = Fail([r EXCEPT !.pos = Len(r.buf)])
<1> DEFINE pos == r.pos
           len == Len(r.buf)
           taken == SubSeq(r.buf, pos + 1, pos + n)
           s == ReadBytes(r, n)
<1>1. /\ r \in Reader /\ r.ok = TRUE
      /\ r.buf \in Seq(Byte) /\ pos \in Nat /\ len \in Nat /\ pos <= len
  BY ReaderFields
<1>2. r.bit_offset = 8
  BY DEF SoundReader
<1>3. \A j \in 1..len : r.buf[j] = BitsAt(ones, 8 * (j - 1), 8)
  BY ByteIsBits DEF Written
<1>4. Place(r) = 8 * pos
  <2>1. Place(r) = 8 * pos - (8 - 8)
    BY <1>2 DEF Place
  <2> HIDE DEF pos
  <2> QED  BY <1>1, <2>1
<1> HIDE DEF len, pos
<1>5. CASE Place(r) + 8 * n <= 8 * len
  <2>1. pos + n <= len /\ ~(pos + n > len) /\ pos + n \in Nat
    BY <1>1, <1>4, <1>5
  <2>2. s = [r EXCEPT !.pos = pos + n, !.got = taken]
    BY <1>1, <2>1 DEF ReadBytes, pos, len
  <2>3. /\ taken \in Seq(Byte) /\ Len(taken) = n
        /\ \A j \in 1..n : taken[j] = r.buf[pos + j]
    BY <1>1, <2>1, Slice DEF len
  <2>4. \A j \in 1..n : taken[j] = BitsAt(ones, Place(r) + 8 * (j - 1), 8)
    <3> SUFFICES ASSUME NEW j \in 1..n
                 PROVE  taken[j] = BitsAt(ones, Place(r) + 8 * (j - 1), 8)
      OBVIOUS
    <3>1. pos + j \in 1..len /\ 8 * ((pos + j) - 1) = Place(r) + 8 * (j - 1)
      BY <1>1, <1>4, <2>1
    <3> QED  BY <1>3, <2>3, <3>1
  <2> HIDE DEF s, taken
  <2>5. /\ s \in Reader /\ s.ok = TRUE /\ Same(r, s)
        /\ s.pos = pos + n /\ s.bit_offset = 8 /\ s.got = taken
    BY <1>1, <1>2, <2>1, <2>2, <2>3 DEF Reader, Same
  <2>6. SoundReader(s)
    BY <2>1, <2>5 DEF SoundReader, Same, len
  <2>7. Place(s) = Place(r) + 8 * n
    <3>1. Place(s) = 8 * (pos + n) - (8 - 8)
      BY <2>5 DEF Place
    <3> QED  BY <1>1, <1>4, <3>1
  <2> QED  BY <1>5, <2>3, <2>4, <2>5, <2>6, <2>7 DEF TookBytes, s, len
<1>6. CASE ~(Place(r) + 8 * n <= 8 * len)
  <2>1. pos + n > len
    BY <1>1, <1>4, <1>6
  <2> QED  BY <1>1, <1>6, <2>1 DEF ReadBytes, pos, len
<1> QED  BY <1>5, <1>6 DEF len

(* In bit mode they are chunks of 8 bits.                                   *)
LEMMA SplitBytesRead ==
  ASSUME NEW r, SoundReader(r), r.mode = "bits", NEW ones, Written(r.buf, ones),
         NEW n \in Nat, Place(r) + 8 * n <= 8 * Len(r.buf)
  PROVE  TookBytes(r, ReadBytes(r, n), ones, n)
<1> DEFINE q == Ready(r)
           left(i) == 8 * n - 8 * (i - 1)
           Round(before, i) == IF before.ok THEN GetChunk(before, left(i)) ELSE before
           S == {v \in Reader : /\ Same(r, v) /\ (v.ok => SoundReader(v))}
           step == CHOOSE step : step = [i \in 0..n |->
                     IF i = 0 THEN q ELSE Round(step[i - 1], i)]
           F == [i \in 1..n |-> [v \in S |-> Round(v, i)]]
<1>1. ReadBytes(r, n) = step[n]
  <2>1. Chunks(8 * n) = n
    BY DEF Chunks
  <2>2. r.ok = TRUE
    BY ReaderFields
  <2>3. ReadBytes(r, n) = ReadBits(r, 8 * n)
    BY <2>2 DEF ReadBytes
  <2>4. ReadBits(r, 8 * n) = step[n]
    BY <2>1, <2>2 DEF ReadBits, Ready
  <2> QED  BY <2>3, <2>4
<1>2. \A i \in 1..n : left(i) \in Nat /\ left(i) >= 8
  OBVIOUS
<1>3. ASSUME NEW v, SoundReader(v), Same(r, v), NEW i \in 1..n
      PROVE  /\ Round(v, i) = GetChunk(v, left(i))
             /\ IF Place(v) + 8 <= 8 * Len(v.buf)
                THEN Took(v, Round(v, i), ones, 8)
                ELSE Round(v, i) = Fail(v)
  <2>1. v.ok /\ v.mode = "bits" /\ Written(v.buf, ones)
    BY <1>3 DEF SoundReader, Same
  <2>2. left(i) \in Nat /\ 8 \in 1..8 /\ 8 = (IF left(i) < 8 THEN left(i) ELSE 8)
    BY <1>2
  <2>3. Round(v, i) = GetChunk(v, left(i))
    BY <2>1
  <2> HIDE DEF left, Round
  <2> QED  BY <1>3, <2>1, <2>2, <2>3, ChunkRead
<1>4. SoundReader(q) /\ Same(r, q) /\ Place(q) = Place(r) /\ q.got = <<>>
  BY ReadyFields
<1>5. q \in S
  BY <1>4 DEF SoundReader
<1>6. ASSUME NEW v \in S, NEW i \in 1..n
      PROVE  Round(v, i) \in S
  <2>1. CASE ~v.ok
    BY <2>1
  <2>2. CASE v.ok
    <3>1. SoundReader(v) /\ Same(r, v)
      BY <2>2
    <3>2. \/ Took(v, Round(v, i), ones, 8)
          \/ Round(v, i) = Fail(v)
      BY <1>3, <3>1
    <3> HIDE DEF Round
    <3>3. CASE Took(v, Round(v, i), ones, 8)
      BY <3>1, <3>3 DEF Took, Same, SoundReader
    <3>4. CASE Round(v, i) = Fail(v)
      <4>1. Fail(v) \in Reader /\ Same(v, Fail(v)) /\ Fail(v).ok = FALSE
        BY DEF Fail, Reader, Same
      <4> QED  BY <3>1, <3>4, <4>1 DEF Same
    <3> QED  BY <3>2, <3>3, <3>4
  <2> QED  BY <2>1, <2>2
<1> HIDE DEF Round, S, q, left
<1>7. Rounds(F, n, S) /\ \A v \in S, i \in 1..n : F[i][v] = Round(v, i)
  BY <1>6 DEF Rounds
<1> HIDE DEF F
<1>8. PICK g : IsRun(g, n, S, q, F)
  BY <1>5, <1>7, LoopRuns
<1>9. g = [i \in 0..n |-> IF i = 0 THEN q ELSE Round(g[i - 1], i)]
  <2>1. \A i \in 1..n : g[i - 1] \in S
    BY <1>8 DEF IsRun
  <2>2. \A i \in 1..n : g[i] = Round(g[i - 1], i)
    BY <1>7, <1>8, <2>1 DEF IsRun
  <2>3. g = [i \in 0..n |-> g[i]] /\ g[0] = q
    BY <1>8 DEF IsRun
  <2>4. ASSUME NEW i \in 0..n
        PROVE  g[i] = IF i = 0 THEN q ELSE Round(g[i - 1], i)
    <3>1. CASE i = 0
      BY <2>3, <3>1
    <3>2. CASE i # 0
      <4>1. i \in 1..n
        BY <3>2
      <4> QED  BY <2>2, <3>2, <4>1
    <3> QED  BY <3>1, <3>2
  <2> QED  BY <2>3, <2>4, Zenon
<1>10. step = [i \in 0..n |-> IF i = 0 THEN q ELSE Round(step[i - 1], i)]
  BY <1>9
<1> HIDE DEF step
<1> DEFINE Good(m) ==
             /\ SoundReader(step[m]) /\ Same(r, step[m]) /\ Place(step[m]) = Place(r) + 8 * m
             /\ step[m].got \in Seq(Byte) /\ Len(step[m].got) = m
             /\ \A j \in 1..m : step[m].got[j] = BitsAt(ones, Place(r) + 8 * (j - 1), 8)
           T == {m \in Nat : m <= n => Good(m)}
<1>11. Place(r) \in Nat
  BY PlaceInBuffer
<1>12. 0 \in T
  <2>1. step[0] = q
    BY <1>10
  <2>2. Place(r) = Place(r) + 8 * 0
    BY <1>11
  <2>3. <<>> \in Seq(Byte) /\ Len(<<>>) = 0
    OBVIOUS
  <2> HIDE DEF step
  <2>4. step[0].got \in Seq(Byte) /\ Len(step[0].got) = 0
    BY <1>4, <2>1, <2>3
  <2>5. SoundReader(step[0]) /\ Same(r, step[0]) /\ Place(step[0]) = Place(r) + 8 * 0
    BY <1>4, <2>1, <2>2
  <2>6. Good(0)
    BY <2>4, <2>5
  <2> HIDE DEF Good
  <2> QED  BY <2>6
<1>13. ASSUME NEW m \in Nat, m \in T
       PROVE  m + 1 \in T
  <2> SUFFICES ASSUME m + 1 <= n
               PROVE  Good(m + 1)
    OBVIOUS
  <2> DEFINE u == step[m]
             v == step[m + 1]
  <2>1. m + 1 \in 1..n /\ (m + 1) - 1 = m /\ m <= n /\ m + 1 \in 0..n /\ m + 1 # 0
    OBVIOUS
  <2>2. Good(m)
    BY <1>13, <2>1
  <2> HIDE DEF T
  <2>3. v = Round(u, m + 1)
    BY <1>10, <2>1
  <2>4. /\ SoundReader(u) /\ Same(r, u) /\ Place(u) = Place(r) + 8 * m
        /\ u.got \in Seq(Byte) /\ Len(u.got) = m
    BY <2>2
  <2>5. \A j \in 1..m : u.got[j] = BitsAt(ones, Place(r) + 8 * (j - 1), 8)
    BY <2>2
  <2> HIDE DEF Good
  <2> SUFFICES
             /\ SoundReader(v) /\ Same(r, v) /\ Place(v) = Place(r) + 8 * (m + 1)
             /\ v.got \in Seq(Byte) /\ Len(v.got) = m + 1
             /\ \A j \in 1..m + 1 : v.got[j] = BitsAt(ones, Place(r) + 8 * (j - 1), 8)
    BY DEF Good
  <2> HIDE DEF u, v
  <2>6. Took(u, v, ones, 8)
    <3>1. Place(u) + 8 <= 8 * Len(u.buf)
      <4>1. u.buf = r.buf /\ Len(r.buf) \in Nat
        BY <2>4, ReaderFields DEF Same
      <4>2. (Place(r) + 8 * m) + 8 <= 8 * Len(r.buf)
        BY <1>11, <2>1, <4>1
      <4> QED  BY <2>4, <4>1, <4>2
    <3> QED  BY <1>3, <2>1, <2>3, <2>4, <3>1
  <2> DEFINE bits == BitsAt(ones, Place(u), 8)
  <2>7. SoundReader(v) /\ Same(r, v) /\ v.got = Append(u.got, bits)
    BY <2>4, <2>6 DEF Took, Same
  <2>8. bits \in Byte
    BY DEF BitsAt, Low, Byte, Bits
  <2>9. Place(v) = Place(r) + 8 * (m + 1)
    <3>1. Place(v) = Place(u) + 8
      BY <2>6 DEF Took
    <3> QED  BY <1>11, <2>4, <3>1
  <2> HIDE DEF bits
  <2>10. v.got \in Seq(Byte) /\ Len(v.got) = m + 1
    BY <2>4, <2>7, <2>8
  <2>11. ASSUME NEW j \in 1..m + 1
         PROVE  v.got[j] = BitsAt(ones, Place(r) + 8 * (j - 1), 8)
    <3>1. CASE j \in 1..m
      <4>1. v.got[j] = u.got[j]
        BY <2>4, <2>7, <2>8, <3>1
      <4> QED  BY <2>5, <3>1, <4>1
    <3>2. CASE j = m + 1
      <4>1. v.got[j] = bits
        BY <2>4, <2>7, <2>8, <3>2
      <4>2. Place(r) + 8 * (j - 1) = Place(u)
        BY <1>11, <2>4, <3>2
      <4> QED  BY <4>1, <4>2 DEF bits
    <3> QED  BY <3>1, <3>2
  <2> QED  BY <2>7, <2>9, <2>10, <2>11
<1> HIDE DEF T
<1>14. n \in T
  BY <1>12, <1>13, SetInduction
<1>15. Good(n)
  BY <1>14 DEF T
<1> QED  BY <1>1, <1>15 DEF TookBytes

(* read_bytes takes the bytes that come next, in either mode.               *)
LEMMA BytesRead ==
  ASSUME NEW r, SoundReader(r), NEW ones, Written(r.buf, ones),
         NEW n \in Nat, Place(r) + 8 * n <= 8 * Len(r.buf)
  PROVE  TookBytes(r, ReadBytes(r, n), ones, n)
<1>1. r.mode = "bytes" \/ r.mode = "bits"
  BY ReaderFields DEF Modes
<1> QED  BY <1>1, WholeBytesRead, SplitBytesRead

-----------------------------------------------------------------------------
(* Numbers                                                                  *)

(* A number of 8 bits is that of its bits.                                  *)
LEMMA NumberOfByte == ASSUME NEW n \in 0..255 PROVE NumberOf(ByteOf(n)) = n
<1> DEFINE b == ByteOf(n)
<1>1. /\ 0 \in b <=> n % 2 = 1
      /\ 1 \in b <=> (n \div 2) % 2 = 1
      /\ 2 \in b <=> (n \div 4) % 2 = 1
      /\ 3 \in b <=> (n \div 8) % 2 = 1
      /\ 4 \in b <=> (n \div 16) % 2 = 1
      /\ 5 \in b <=> (n \div 32) % 2 = 1
      /\ 6 \in b <=> (n \div 64) % 2 = 1
      /\ 7 \in b <=> (n \div 128) % 2 = 1
  BY DEF ByteOf, Bits
<1>2. /\ 2^0 = 1 /\ 2^1 = 2 /\ 2^2 = 4 /\ 2^3 = 8
      /\ 2^4 = 16 /\ 2^5 = 32 /\ 2^6 = 64 /\ 2^7 = 128
  OBVIOUS
<1> HIDE DEF b
<1> DEFINE bit(i, w) == IF i \in b THEN w ELSE 0
<1>3. NumberOf(b) = bit(0, 1) + bit(1, 2) + bit(2, 4) + bit(3, 8)
                      + bit(4, 16) + bit(5, 32) + bit(6, 64) + bit(7, 128)
  BY <1>2 DEF NumberOf
<1>4. bit(0, 1) + bit(1, 2) + bit(2, 4) + bit(3, 8)
        + bit(4, 16) + bit(5, 32) + bit(6, 64) + bit(7, 128) = n
  BY <1>1
<1> QED  BY <1>3, <1>4 DEF b

(* Numbers differ if their bytes do.                                        *)
LEMMA BytesDiffer ==
  \A m, n \in 0..255 : ByteOf(m) = ByteOf(n) => m = n
BY NumberOfByte

(* A byte is a number from 0 to 255.                                        *)
LEMMA NumberIsSmall == \A byte : NumberOf(byte) \in 0..255
<1> TAKE byte
<1>2. /\ 2^0 = 1 /\ 2^1 = 2 /\ 2^2 = 4 /\ 2^3 = 8
      /\ 2^4 = 16 /\ 2^5 = 32 /\ 2^6 = 64 /\ 2^7 = 128
  OBVIOUS
<1> QED  BY <1>2 DEF NumberOf

(* A number of 32 bits is that of its bytes.                                *)
LEMMA NumberOfBytes ==
  ASSUME NEW n \in Nat, IsU32(n)
  PROVE  /\ LittleEndian(n) \in Seq(Byte) /\ Len(LittleEndian(n)) = 4
         /\ FromLittleEndian(LittleEndian(n)) = n
<1> DEFINE d(j) == (n \div 256^(j - 1)) % 256
           e == LittleEndian(n)
<1>1. /\ 256^(1 - 1) = 1 /\ 256^(2 - 1) = 256
      /\ 256^(3 - 1) = 65536 /\ 256^(4 - 1) = 16777216
  OBVIOUS
<1>2. e \in Seq(Byte) /\ Len(e) = 4
  BY Encoded, LenProperties DEF LittleEndian
<1>3. /\ e[1] = ByteOf(n % 256) /\ e[2] = ByteOf((n \div 256) % 256)
      /\ e[3] = ByteOf((n \div 65536) % 256) /\ e[4] = ByteOf((n \div 16777216) % 256)
  BY <1>1 DEF LittleEndian
<1>4. /\ NumberOf(e[1]) = n % 256 /\ NumberOf(e[2]) = (n \div 256) % 256
      /\ NumberOf(e[3]) = (n \div 65536) % 256 /\ NumberOf(e[4]) = (n \div 16777216) % 256
  <2>1. /\ n % 256 \in 0..255 /\ (n \div 256) % 256 \in 0..255
        /\ (n \div 65536) % 256 \in 0..255 /\ (n \div 16777216) % 256 \in 0..255
    OBVIOUS
  <2> QED  BY <1>3, <2>1, NumberOfByte
<1> HIDE DEF e
<1>5. FromLittleEndian(e) = NumberOf(e[1]) + NumberOf(e[2]) * 256
                              + NumberOf(e[3]) * 65536 + NumberOf(e[4]) * 16777216
  BY <1>1, NumberIsSmall DEF FromLittleEndian
<1>6. (n % 256) + ((n \div 256) % 256) * 256
        + ((n \div 65536) % 256) * 65536 + ((n \div 16777216) % 256) * 16777216 = n
  BY DEF IsU32
<1> QED  BY <1>2, <1>4, <1>5, <1>6 DEF e

-----------------------------------------------------------------------------
(* Types                                                                    *)

(* The types have small numbers.                                            *)
LEMMA TagsAreNumbers ==
  ASSUME NEW type \in Types
  PROVE  Tag[type] \in 1..19
BY DEF Types, Tag

(* Different types, or a type and its array, are different numbers.         *)
LEMMA TagsDiffer ==
  ASSUME NEW type \in Types, NEW other \in Types, NEW array \in BOOLEAN,
         NEW other_array \in BOOLEAN,
         ToValue(type, array) = ToValue(other, other_array)
  PROVE  type = other /\ array = other_array
<1>1. Tag[type] \in 1..19 /\ Tag[other] \in 1..19
  BY TagsAreNumbers
<1>2. array = other_array /\ Tag[type] = Tag[other]
  BY <1>1 DEF ToValue, ARRAY_TYPE_OFFSET
<1>3. type = other
  BY <1>2 DEF Types, Tag
<1> QED  BY <1>2, <1>3

(* What the writer puts before a value: one array has in byte mode only     *)
TagFits(mode, tag) == /\ tag \in 0..255 /\ IsType(tag)
                      /\ mode = "bits" => tag < 32

(* Each type, and in byte mode its array, has a number that it can be       *)
(* written with.                                                            *)
LEMMA TagsFit ==
  ASSUME NEW mode \in Modes, NEW type \in Types, NEW array \in BOOLEAN,
         array => mode = "bytes"
  PROVE  TagFits(mode, ToValue(type, array))
<1>1. Tag[type] \in 1..19
  BY TagsAreNumbers
<1> QED  BY <1>1 DEF TagFits, ToValue, IsType, ARRAY_TYPE_OFFSET, Modes

(* The bits a type is written with are all those of its number.             *)
LEMMA TagIsWhole ==
  ASSUME NEW mode \in Modes, NEW tag, TagFits(mode, tag)
  PROVE  ByteOf(tag) \cap Low(TagBits(mode)) = ByteOf(tag)
<1>1. CASE mode = "bytes"
  <2>1. Low(8) = 0..7
    BY DEF Low
  <2> QED  BY <1>1, <2>1 DEF TagBits, ByteOf, Bits
<1>2. CASE mode = "bits"
  <2>1. tag \in 0..31
    BY <1>2 DEF TagFits
  <2>2. /\ (tag \div 2^5) % 2 # 1 /\ (tag \div 2^6) % 2 # 1 /\ (tag \div 2^7) % 2 # 1
    BY <2>1
  <2>3. \A i \in ByteOf(tag) : i \in 0..4
    <3> SUFFICES ASSUME NEW i \in ByteOf(tag)
                 PROVE  i \in 0..4
      OBVIOUS
    <3>1. i \in 0..7 /\ (tag \div 2^i) % 2 = 1
      BY DEF ByteOf, Bits
    <3>2. i # 5 /\ i # 6 /\ i # 7
      BY <2>2, <3>1
    <3> QED  BY <3>1, <3>2
  <2>4. Low(5) = 0..4
    BY DEF Low
  <2> QED  BY <1>2, <2>3, <2>4 DEF TagBits
<1> QED  BY <1>1, <1>2 DEF Modes

-----------------------------------------------------------------------------
(* A reader that follows a writer                                           *)

(* A writer that went on from w                                             *)
After(mode, w) == {v \in SoundIn(mode) : Grown(w, v)}

(* The buffer has what v wrote, and perhaps more                            *)
Holds(buf, ones, v) == /\ Written(buf, ones) /\ v.total <= 8 * Len(buf)
                       /\ \A k \in Nat : k < v.total => (k \in ones <=> k \in v.ones)

(* The reader has read what w wrote                                         *)
Follows(r, w) == /\ SoundReader(r) /\ Place(r) = w.total
                 /\ r.mode = w.mode /\ r.checked = w.checked

(* The fields of a sound writer in a mode                                   *)
LEMMA SoundFields ==
  ASSUME NEW mode, NEW w \in SoundIn(mode)
  PROVE  /\ Sound(w) /\ w.mode = mode /\ w.total \in Nat
         /\ w.checked \in BOOLEAN
BY Fields DEF SoundIn

(* What goes on from what goes on from a message goes on from it.           *)
LEMMA AfterAfter ==
  ASSUME NEW mode, NEW u \in SoundIn(mode), NEW v \in After(mode, u), NEW w \in After(mode, v)
  PROVE  w \in After(mode, u)
BY SoundFields, GrownOn DEF After

(* A buffer that has what was written has what was written before.          *)
LEMMA HoldsBefore ==
  ASSUME NEW mode, NEW w \in SoundIn(mode), NEW v \in After(mode, w),
         NEW buf \in Seq(Byte), NEW ones, Holds(buf, ones, v)
  PROVE  Holds(buf, ones, w)
<1>1. w.total \in Nat /\ v.total \in Nat /\ w.total <= v.total /\ Len(buf) \in Nat
  BY SoundFields DEF After, Grown
<1>2. \A k \in Nat : k < w.total => (k \in v.ones <=> k \in w.ones)
  BY DEF After, Grown
<1>3. \A k \in Nat : k < w.total => k < v.total
  BY <1>1
<1>4. w.total <= 8 * Len(buf)
  <2>1. v.total <= 8 * Len(buf)
    BY DEF Holds
  <2> QED  BY <1>1, <2>1
<1> QED  BY <1>2, <1>3, <1>4 DEF Holds

(* Bits that v wrote are in the buffer.                                     *)
LEMMA HoldsBits ==
  ASSUME NEW buf, NEW ones, NEW v, v.total \in Nat, Holds(buf, ones, v),
         NEW p \in Nat, NEW n \in 0..8, p + n <= v.total
  PROVE  BitsAt(ones, p, n) = BitsAt(v.ones, p, n)
<1>1. \A i \in Low(n) : p + i \in Nat /\ p + i < v.total
  BY DEF Low
<1>2. \A i \in Low(n) : p + i \in ones <=> p + i \in v.ones
  BY <1>1 DEF Holds
<1> QED  BY <1>2 DEF BitsAt

(* What a call to the reader makes of a call to the writer                  *)
Back(r, s, v, value) == /\ Follows(s, v) /\ s.buf = r.buf /\ s.cached = r.cached
                        /\ s.got = value

(* Bytes that were written come back, ...                                   *)
LEMMA BytesBack ==
  ASSUME NEW mode \in Modes, NEW w \in SoundIn(mode), NEW bytes \in Seq(Byte),
         NEW r, Follows(r, w), NEW ones, Holds(r.buf, ones, WriteBytes(w, bytes))
  PROVE  /\ Back(r, ReadBytes(r, Len(bytes)), WriteBytes(w, bytes), bytes)
         /\ WriteBytes(w, bytes) \in After(mode, w)
<1> DEFINE n == Len(bytes)
           v == WriteBytes(w, bytes)
           s == ReadBytes(r, n)
<1>1. /\ v \in SoundIn(mode) /\ Grown(w, v) /\ v.total = w.total + 8 * n
      /\ BytesAt(v.ones, w.total, bytes)
  BY BytesWritten
<1>2. w.total \in Nat /\ v.total \in Nat /\ n \in Nat
  BY <1>1, SoundFields
<1>3. SoundReader(r) /\ Place(r) = w.total
  BY DEF Follows
<1> HIDE DEF v, s, n
<1>4. Holds(r.buf, ones, v)
  BY DEF v
<1>5. TookBytes(r, s, ones, n)
  <2>1. Written(r.buf, ones) /\ Place(r) + 8 * n <= 8 * Len(r.buf)
    BY <1>1, <1>3, <1>4 DEF Holds
  <2> QED  BY <1>2, <1>3, <2>1, BytesRead DEF s
<1>6. Follows(s, v)
  BY <1>1, <1>3, <1>5 DEF TookBytes, Follows, Same, Grown
<1>7. s.got = bytes
  <2>1. s.got \in Seq(Byte) /\ Len(s.got) = Len(bytes)
    BY <1>5 DEF TookBytes, n
  <2>2. ASSUME NEW j \in 1..n
        PROVE  s.got[j] = bytes[j]
    <3>1. s.got[j] = BitsAt(ones, w.total + 8 * (j - 1), 8)
      BY <1>3, <1>5 DEF TookBytes
    <3>2. BitsAt(v.ones, w.total + 8 * (j - 1), 8) = bytes[j]
      BY <1>1 DEF BytesAt, n
    <3>3. /\ w.total + 8 * (j - 1) \in Nat
          /\ (w.total + 8 * (j - 1)) + 8 <= v.total
      BY <1>1, <1>2
    <3>4. BitsAt(ones, w.total + 8 * (j - 1), 8) = BitsAt(v.ones, w.total + 8 * (j - 1), 8)
      <4>1. 8 \in 0..8
        OBVIOUS
      <4> QED  BY <1>2, <1>4, <3>3, <4>1, HoldsBits
    <3> QED  BY <3>1, <3>2, <3>4
  <2> QED  BY <2>1, <2>2, SeqEqual DEF n
<1> QED  BY <1>1, <1>5, <1>6, <1>7 DEF Back, TookBytes, Same, After, v, s, n

(* ... and so do a few bits, ...                                            *)
LEMMA BitsBack ==
  ASSUME NEW w \in SoundIn("bits"), NEW bytes, NEW n \in 1..8,
         NEW r, Follows(r, w), NEW ones, Holds(r.buf, ones, WriteBits(w, bytes, n))
  PROVE  /\ Back(r, ReadBits(r, n), WriteBits(w, bytes, n), <<bytes[1] \cap Low(n)>>)
         /\ WriteBits(w, bytes, n) \in After("bits", w)
<1> DEFINE v == WriteBits(w, bytes, n)
           s == ReadBits(r, n)
           in_byte == bytes[1] \cap Low(n)
<1>1. /\ v \in SoundIn("bits") /\ Grown(w, v) /\ v.total = w.total + n
      /\ BitsAt(v.ones, w.total, n) = in_byte
  <2>1. BitsPut(w, WriteBits(w, bytes, n), bytes[1], n)
    BY BitsWritten, Zenon
  <2> QED  BY <2>1, Zenon DEF BitsPut
<1>2. w.total \in Nat /\ v.total \in Nat
  BY <1>1, SoundFields
<1>3. SoundReader(r) /\ Place(r) = w.total /\ r.mode = "bits"
  BY SoundFields DEF Follows
<1> HIDE DEF v, s, in_byte
<1>4. Holds(r.buf, ones, v)
  BY DEF v
<1>5. TookBits(r, s, ones, n)
  <2>1. Written(r.buf, ones) /\ Place(r) + n <= 8 * Len(r.buf)
    BY <1>1, <1>3, <1>4 DEF Holds
  <2> QED  BY <1>3, <2>1, BitsRead DEF s
<1>6. Follows(s, v)
  BY <1>1, <1>3, <1>5 DEF TookBits, Follows, Same, Grown
<1>7. s.got = <<in_byte>>
  <2>1. n \in 0..8 /\ w.total + n <= v.total
    BY <1>1, <1>2
  <2>2. BitsAt(ones, w.total, n) = BitsAt(v.ones, w.total, n)
    BY <1>2, <1>4, <2>1, HoldsBits
  <2> QED  BY <1>1, <1>3, <1>5, <2>2 DEF TookBits
<1> QED  BY <1>1, <1>5, <1>6, <1>7 DEF Back, TookBits, Same, After, v, s, in_byte

(* ... and types.                                                           *)
LEMMA TypeBack ==
  ASSUME NEW mode \in Modes, NEW w \in SoundIn(mode), NEW tag, TagFits(mode, tag),
         NEW r, Follows(r, w), r.cached = None,
         NEW ones, Holds(r.buf, ones, WriteDataType(w, tag))
  PROVE  Back(r, ReadDataType(r), WriteDataType(w, tag), <<ByteOf(tag)>>)
<1> DEFINE v == WriteDataType(w, tag)
           b == ByteOf(tag)
           s == IF mode = "bytes" THEN ReadBytes(r, 1) ELSE ReadBits(r, 5)
<1>1. r.mode = mode /\ w.mode = mode
  BY SoundFields DEF Follows
<1>2. Back(r, s, v, <<b>>)
  <2>1. CASE mode = "bytes"
    <3> DEFINE bytes == <<b>>
    <3>1. bytes \in Seq(Byte) /\ Len(bytes) = 1
      BY Encoded
    <3>2. v = WriteBytes(w, bytes) /\ s = ReadBytes(r, Len(bytes))
      BY <1>1, <2>1, <3>1 DEF WriteDataType
    <3> HIDE DEF v, s, bytes
    <3>3. Back(r, s, v, bytes)
      BY <3>1, <3>2, BytesBack DEF v
    <3> QED  BY <3>3 DEF bytes
  <2>2. CASE mode = "bits"
    <3> DEFINE bytes == <<b>>
    <3>1. v = WriteBits(w, bytes, 5) /\ s = ReadBits(r, 5) /\ bytes[1] = b /\ 5 \in 1..8
      BY <1>1, <2>2 DEF WriteDataType
    <3>2. b \cap Low(5) = b
      BY <2>2, TagIsWhole DEF TagBits
    <3> HIDE DEF v, s, bytes, b
    <3>3. Back(r, s, v, <<bytes[1] \cap Low(5)>>)
      BY <2>2, <3>1, BitsBack DEF v
    <3> QED  BY <3>1, <3>2, <3>3
  <2> QED  BY <2>1, <2>2 DEF Modes
<1>3. ReadDataType(r) = s
  <2>1. s.got[1] = b
    BY <1>2 DEF Back
  <2>2. IsType(NumberOf(b))
    BY NumberOfByte DEF TagFits
  <2> HIDE DEF b
  <2>3. ReadDataType(r) = IF s.ok /\ ~IsType(NumberOf(s.got[1])) THEN Fail(s) ELSE s
    BY <1>1 DEF ReadDataType
  <2> QED  BY <2>1, <2>2, <2>3
<1> QED  BY <1>2, <1>3

-----------------------------------------------------------------------------
(* Types read back                                                          *)

(* A reader before a type that was written, or one that has looked at it    *)
Awaits(r, w, tag) == \/ r.cached = None /\ Follows(r, w)
                     \/ r.cached = tag /\ Follows(r, WriteDataType(w, tag))

(* What a call that takes a looked-up type, if any, makes of one that wrote *)
Taken(r, s, v, value) == /\ Follows(s, v) /\ s.buf = r.buf /\ s.cached = None
                         /\ s.got = value

(* Writing a type goes on with the message.                                 *)
LEMMA TypeAfter ==
  ASSUME NEW mode \in Modes, NEW w \in SoundIn(mode), NEW tag
  PROVE  WriteDataType(w, tag) \in After(mode, w)
BY TagWritten DEF After

(* read_data_type returns the type that comes next, ...                     *)
LEMMA TypeTaken ==
  ASSUME NEW mode \in Modes, NEW w \in SoundIn(mode), NEW tag, TagFits(mode, tag),
         NEW r, Awaits(r, w, tag), NEW ones, Holds(r.buf, ones, WriteDataType(w, tag))
  PROVE  Taken(r, ReadDataType(r), WriteDataType(w, tag), <<ByteOf(tag)>>)
<1> DEFINE v == WriteDataType(w, tag)
           b == ByteOf(tag)
<1>1. CASE r.cached = None
  <2>0. tag \in Nat /\ None \notin Nat
    BY NoneAssumption DEF TagFits
  <2>1. Follows(r, w)
    BY <1>1, <2>0 DEF Awaits
  <2>2. Back(r, ReadDataType(r), v, <<b>>)
    BY <1>1, <2>1, TypeBack
  <2> HIDE DEF v, b
  <2> QED  BY <1>1, <2>2 DEF Back, Taken, v, b
<1>2. CASE r.cached # None
  <2> HIDE DEF v, b
  <2>1. r.cached = tag /\ Follows(r, v)
    BY <1>2 DEF Awaits, v
  <2> DEFINE s == [r EXCEPT !.cached = None, !.got = <<b>>]
  <2>2. ReadDataType(r) = s
    BY <1>2, <2>1 DEF ReadDataType, b
  <2>3. r \in Reader /\ r.ok = TRUE
    BY <2>1, ReaderFields DEF Follows
  <2>4. <<b>> \in Seq(Byte)
    BY Encoded DEF b
  <2>5. /\ s \in Reader /\ s.ok = TRUE /\ s.buf = r.buf /\ s.cached = None
        /\ s.got = <<b>> /\ s.mode = r.mode /\ s.checked = r.checked
        /\ s.pos = r.pos /\ s.bit_offset = r.bit_offset /\ s.last_byte = r.last_byte
    <3> DEFINE got == <<b>>
    <3> HIDE DEF got
    <3>1. [r EXCEPT !.cached = None, !.got = got].got = got
      BY <2>3 DEF Reader
    <3>2. got \in Seq(Byte)
      BY <2>4 DEF got
    <3>3. s = [r EXCEPT !.cached = None, !.got = got]
      BY DEF got
    <3> HIDE DEF s
    <3>4. /\ s \in Reader /\ s.ok = TRUE /\ s.buf = r.buf /\ s.cached = None
          /\ s.got = got /\ s.mode = r.mode /\ s.checked = r.checked
          /\ s.pos = r.pos /\ s.bit_offset = r.bit_offset /\ s.last_byte = r.last_byte
      BY <2>3, <3>2, <3>3 DEF Reader
    <3> QED  BY <3>4 DEF got
  <2> HIDE DEF s
  <2>6. SoundReader(s) /\ Place(s) = Place(r)
    BY <2>1, <2>5 DEF Follows, SoundReader, Place
  <2>7. Follows(s, v)
    BY <2>1, <2>5, <2>6 DEF Follows
  <2> QED  BY <2>2, <2>5, <2>7 DEF Taken, v, b
<1> QED  BY <1>1, <1>2

(* ... which is accepted if it is expected ...                              *)
LEMMA ExpectTaken ==
  ASSUME NEW mode \in Modes, NEW w \in SoundIn(mode), NEW tag, TagFits(mode, tag),
         NEW r, Awaits(r, w, tag), NEW ones, Holds(r.buf, ones, WriteDataType(w, tag))
  PROVE  Taken(r, Expect(r, tag), WriteDataType(w, tag), <<ByteOf(tag)>>)
<1>1. Taken(r, ReadDataType(r), WriteDataType(w, tag), <<ByteOf(tag)>>)
  BY TypeTaken
<1>2. Expect(r, tag) = ReadDataType(r)
  BY <1>1 DEF Expect, Taken
<1> QED  BY <1>1, <1>2

(* A reader that a call failed with                                         *)
Refused(f) == /\ f \in Reader /\ f.ok = FALSE /\ f.cached = None
              /\ f.pos <= Len(f.buf)

(* ... and refused if not.                                                  *)
LEMMA ExpectRefused ==
  ASSUME NEW mode \in Modes, NEW w \in SoundIn(mode), NEW tag, TagFits(mode, tag),
         NEW r, Awaits(r, w, tag), NEW ones, Holds(r.buf, ones, WriteDataType(w, tag)),
         NEW other \in 0..255, other # tag
  PROVE  Refused(Expect(r, other))
<1> DEFINE s == ReadDataType(r)
<1>1. Taken(r, s, WriteDataType(w, tag), <<ByteOf(tag)>>)
  BY TypeTaken
<1> HIDE DEF s
<1>2. /\ s \in Reader /\ s.ok = TRUE /\ s.cached = None /\ s.got = <<ByteOf(tag)>>
      /\ s.pos <= Len(s.buf)
  BY <1>1, ReaderFields DEF Taken, Follows
<1>3. s.got # <<ByteOf(other)>>
  <2>1. ByteOf(tag) # ByteOf(other)
    BY BytesDiffer DEF TagFits
  <2>2. <<ByteOf(tag)>>[1] = ByteOf(tag) /\ <<ByteOf(other)>>[1] = ByteOf(other)
    OBVIOUS
  <2> QED  BY <1>2, <2>1, <2>2, Zenon
<1>4. Expect(r, other) = Fail(s)
  BY <1>2, <1>3 DEF Expect, s
<1> QED  BY <1>2, <1>4 DEF Fail, Reader, Refused

(* The type of a value, if types are checked                                *)
AwaitsTyped(r, w, type) == IF w.checked THEN Awaits(r, w, ToValue(type, FALSE))
                           ELSE r.cached = None /\ Follows(r, w)

(* So does writing it if types are checked.                                 *)
LEMMA TypedAfter ==
  ASSUME NEW mode \in Modes, NEW w \in SoundIn(mode), NEW type
  PROVE  Typed(w, type) \in After(mode, w)
<1>1. w \in After(mode, w)
  BY SoundFields DEF After, Grown
<1> QED  BY <1>1, TypeAfter DEF Typed

(* The type that was written, if one was, is the one expected.              *)
LEMMA CheckedBack ==
  ASSUME NEW mode \in Modes, NEW w \in SoundIn(mode), NEW type \in Types,
         NEW r, AwaitsTyped(r, w, type), NEW ones, Holds(r.buf, ones, Typed(w, type))
  PROVE  LET c == Checked(r, type)
         IN  Follows(c, Typed(w, type)) /\ c.buf = r.buf /\ c.cached = None
<1> DEFINE tag == ToValue(type, FALSE)
<1>1. r.checked = w.checked
  <2>1. Grown(w, WriteDataType(w, tag))
    BY TypeAfter DEF After
  <2> QED  BY <2>1 DEF AwaitsTyped, Awaits, Follows, Grown
<1>2. CASE w.checked
  <2>1. TagFits(mode, tag)
    BY TagsFit
  <2> HIDE DEF tag
  <2>2. Typed(w, type) = WriteDataType(w, tag) /\ Checked(r, type) = Expect(r, tag)
    BY <1>1, <1>2 DEF Typed, Checked, tag
  <2>3. Awaits(r, w, tag)
    BY <1>2 DEF AwaitsTyped, tag
  <2>4. Taken(r, Expect(r, tag), WriteDataType(w, tag), <<ByteOf(tag)>>)
    BY <2>1, <2>2, <2>3, ExpectTaken
  <2> QED  BY <2>2, <2>4 DEF Taken
<1>3. CASE ~w.checked
  BY <1>1, <1>3 DEF AwaitsTyped, Typed, Checked
<1> QED  BY <1>2, <1>3

-----------------------------------------------------------------------------
(* Values read back                                                         *)

(* What a reader before a value shares with the writer                      *)
LEMMA AwaitsFields ==
  ASSUME NEW mode \in Modes, NEW w \in SoundIn(mode), NEW type,
         NEW r, AwaitsTyped(r, w, type)
  PROVE  /\ r \in Reader /\ r.ok = TRUE /\ r.buf \in Seq(Byte)
         /\ r.mode = mode /\ r.checked = w.checked
<1> DEFINE v == WriteDataType(w, ToValue(type, FALSE))
<1>1. v \in SoundIn(mode) /\ Grown(w, v)
  BY TypeAfter DEF After
<1> HIDE DEF v
<1>2. Follows(r, w) \/ Follows(r, v)
  BY DEF AwaitsTyped, Awaits, v
<1>3. w.mode = mode /\ v.mode = mode /\ v.checked = w.checked
  BY <1>1, SoundFields DEF Grown
<1> QED  BY <1>2, <1>3, ReaderFields DEF Follows

(* Whole bytes that follow a type                                           *)
LEMMA ScalarWritten ==
  ASSUME NEW mode \in Modes, NEW w \in SoundIn(mode), NEW type, NEW bytes \in Seq(Byte)
  PROVE  LET v == WriteScalar(w, type, bytes)
         IN  /\ v \in After(mode, Typed(w, type)) /\ v \in After(mode, w)
             /\ v.total = Typed(w, type).total + 8 * Len(bytes)
<1> DEFINE t == Typed(w, type)
           v == WriteScalar(w, type, bytes)
<1>1. v = WriteBytes(t, bytes)
  BY DEF WriteScalar
<1>2. t \in After(mode, w) /\ t \in SoundIn(mode)
  BY TypedAfter DEF After
<1> HIDE DEF t, v
<1>3. v \in After(mode, t) /\ v.total = t.total + 8 * Len(bytes)
  BY <1>1, <1>2, BytesWritten DEF After
<1>4. v \in After(mode, w)
  BY <1>2, <1>3, AfterAfter
<1> QED  BY <1>3, <1>4 DEF v, t

(* A value that is whole bytes comes back with its type.                    *)
LEMMA TypedBytesBack ==
  ASSUME NEW mode \in Modes, NEW w \in SoundIn(mode), NEW type \in Types,
         NEW bytes \in Seq(Byte), NEW r, AwaitsTyped(r, w, type),
         NEW ones, Holds(r.buf, ones, WriteScalar(w, type, bytes))
  PROVE  Taken(r, ReadBytes(Checked(r, type), Len(bytes)),
               WriteScalar(w, type, bytes), bytes)
<1> DEFINE t == Typed(w, type)
           v == WriteBytes(t, bytes)
           c == Checked(r, type)
           s == ReadBytes(c, Len(bytes))
<1>1. WriteScalar(w, type, bytes) = v
  BY DEF WriteScalar
<1>2. t \in After(mode, w) /\ t \in SoundIn(mode)
  BY TypedAfter DEF After
<1>3. v \in After(mode, t)
  BY <1>1, ScalarWritten
<1>4. r.buf \in Seq(Byte)
  BY AwaitsFields
<1>5. Holds(r.buf, ones, v) /\ Holds(r.buf, ones, t)
  <2> HIDE DEF v, t
  <2>1. Holds(r.buf, ones, v)
    BY <1>1
  <2> QED  BY <1>2, <1>3, <1>4, <2>1, HoldsBefore
<1>6. Follows(c, t) /\ c.buf = r.buf /\ c.cached = None
  <2>1. Holds(r.buf, ones, Typed(w, type))
    BY <1>5
  <2> QED  BY <2>1, CheckedBack
<1>7. Back(c, s, v, bytes)
  <2> HIDE DEF t, c
  <2>1. Holds(c.buf, ones, WriteBytes(t, bytes))
    BY <1>5, <1>6
  <2> QED  BY <1>2, <1>6, <2>1, BytesBack
<1> QED
  <2> HIDE DEF v, c
  <2>1. s.cached = None /\ s.buf = r.buf
    BY <1>6, <1>7 DEF Back
  <2> QED  BY <1>1, <1>7, <2>1 DEF Back, Taken, c

(* A bool is a byte or a bit.                                               *)
LEMMA BoolWritten ==
  ASSUME NEW mode \in Modes, NEW w \in SoundIn(mode), NEW value \in Seq(Byte)
  PROVE  WriteBool(w, value) \in After(mode, Typed(w, "bool"))
<1>1. w.mode = mode
  BY SoundFields
<1>2. CASE mode = "bytes"
  <2>1. WriteBool(w, value) = WriteScalar(w, "bool", value)
    BY <1>1, <1>2 DEF WriteBool, WriteScalar
  <2> QED  BY <2>1, ScalarWritten
<1>3. CASE mode = "bits"
  <2> DEFINE t == Typed(w, "bool")
  <2>1. WriteBool(w, value) = WriteBits(t, value, 1)
    BY <1>1, <1>3 DEF WriteBool
  <2>2. t \in SoundIn("bits") /\ 1 \in 1..8
    BY <1>3, TypedAfter DEF After
  <2> HIDE DEF t
  <2>3. WriteBool(w, value) \in After("bits", t)
    <3>1. BitsPut(t, WriteBits(t, value, 1), value[1], 1)
      BY <2>2, BitsWritten, Zenon
    <3> QED  BY <2>1, <3>1 DEF BitsPut, After
  <2> QED  BY <1>3, <2>3 DEF t
<1> QED  BY <1>2, <1>3 DEF Modes

(* A bool comes back, of a byte or of a bit.                                *)
LEMMA BoolBack ==
  ASSUME NEW mode \in Modes, NEW w \in SoundIn(mode),
         NEW bit \in Byte, bit \cap Low(1) = bit, NEW value, value = <<bit>>,
         NEW r, AwaitsTyped(r, w, "bool"),
         NEW ones, Holds(r.buf, ones, WriteBool(w, value))
  PROVE  Taken(r, ReadBool(r), WriteBool(w, value), value)
<1>1. "bool" \in Types /\ value \in Seq(Byte) /\ Len(value) = 1
  BY DEF Types, Tag
<1>2. w.mode = mode /\ r.mode = mode /\ r.buf \in Seq(Byte)
  BY AwaitsFields, SoundFields
<1>3. CASE mode = "bytes"
  <2>1. WriteBool(w, value) = WriteScalar(w, "bool", value)
    BY <1>2, <1>3 DEF WriteBool, WriteScalar
  <2>2. ReadBool(r) = ReadBytes(Checked(r, "bool"), Len(value))
    BY <1>1, <1>2, <1>3 DEF ReadBool
  <2> QED  BY <1>1, <2>1, <2>2, TypedBytesBack
<1>4. CASE mode = "bits"
  <2> DEFINE t == Typed(w, "bool")
             v == WriteBits(t, value, 1)
             c == Checked(r, "bool")
             s == ReadBits(c, 1)
  <2>1. WriteBool(w, value) = v /\ ReadBool(r) = s
    BY <1>2, <1>4 DEF WriteBool, ReadBool
  <2>2. t \in After(mode, w) /\ t \in SoundIn("bits")
    BY <1>4, TypedAfter DEF After
  <2>3. 1 \in 1..8
    OBVIOUS
  <2>4. v \in After(mode, t)
    BY <1>1, <2>1, BoolWritten
  <2>5. Holds(r.buf, ones, v) /\ Holds(r.buf, ones, t)
    <3> HIDE DEF v, t
    <3>1. Holds(r.buf, ones, v)
      BY <2>1
    <3> QED  BY <1>2, <1>4, <2>2, <2>4, <3>1, HoldsBefore
  <2>6. Follows(c, t) /\ c.buf = r.buf /\ c.cached = None
    <3>1. Holds(r.buf, ones, Typed(w, "bool"))
      BY <2>5
    <3> QED  BY <1>1, <3>1, CheckedBack
  <2>7. value[1] \cap Low(1) = value[1] /\ value = <<value[1]>>
    OBVIOUS
  <2>8. Back(c, s, v, <<value[1] \cap Low(1)>>)
    <3> HIDE DEF t, c
    <3>1. Holds(c.buf, ones, WriteBits(t, value, 1))
      BY <2>5, <2>6
    <3> QED  BY <2>2, <2>3, <2>6, <3>1, BitsBack
  <2> HIDE DEF v, s, c
  <2>9. Follows(s, v) /\ s.cached = None /\ s.buf = r.buf
    BY <2>6, <2>8 DEF Back
  <2>10. s.got = value
    BY <2>7, <2>8 DEF Back
  <2> QED  BY <2>1, <2>9, <2>10 DEF Taken
<1> QED  BY <1>3, <1>4 DEF Modes

(* The length of a blob comes before it, with a type of its own.            *)
LEMMA BlobWritten ==
  ASSUME NEW mode \in Modes, NEW w \in SoundIn(mode), NEW value \in Seq(Byte)
  PROVE  LET u == WriteScalar(Typed(w, "blob"), "u32", LittleEndian(Len(value)))
         IN  /\ u \in After(mode, Typed(w, "blob")) /\ WriteBlob(w, value) \in After(mode, u)
             /\ WriteBlob(w, value) \in After(mode, Typed(w, "blob"))
<1> DEFINE t == Typed(w, "blob")
           length == LittleEndian(Len(value))
           u == WriteScalar(t, "u32", length)
           v == WriteBlob(w, value)
<1>1. t \in SoundIn(mode) /\ length \in Seq(Byte)
  BY TypedAfter, Encoded DEF After
<1> HIDE DEF t, length
<1>2. u \in After(mode, t) /\ u \in SoundIn(mode)
  BY <1>1, ScalarWritten DEF After
<1>3. v = WriteBytes(u, value)
  BY DEF WriteBlob, t, length
<1> HIDE DEF u, v
<1>4. v \in After(mode, u)
  BY <1>2, <1>3, BytesWritten DEF After
<1>5. v \in After(mode, t)
  BY <1>1, <1>2, <1>4, AfterAfter
<1> QED  BY <1>2, <1>4, <1>5 DEF u, v, t, length

(* A blob comes back: its length is that of the bytes that follow.          *)
LEMMA BlobBack ==
  ASSUME NEW mode \in Modes, NEW w \in SoundIn(mode), NEW value \in Seq(Byte),
         IsU32(Len(value)), NEW r, AwaitsTyped(r, w, "blob"),
         NEW ones, Holds(r.buf, ones, WriteBlob(w, value))
  PROVE  Taken(r, ReadBlob(r), WriteBlob(w, value), value)
<1> DEFINE t == Typed(w, "blob")
           length == LittleEndian(Len(value))
           u == WriteScalar(t, "u32", length)
           v == WriteBytes(u, value)
           c == Checked(r, "blob")
           size == ReadBytes(Checked(c, "u32"), Len(length))
           s == ReadBytes(size, Len(value))
<1>0. Len(value) \in Nat
  OBVIOUS
<1>1. length \in Seq(Byte) /\ Len(length) = 4 /\ FromLittleEndian(length) = Len(value)
  BY <1>0, NumberOfBytes
<1>2. "u32" \in Types /\ "blob" \in Types /\ Size("u32") = 4
  BY DEF Types, Tag, Size, IntegerSize, FloatSize
<1> HIDE DEF length
<1>3. t \in After(mode, w) /\ t \in SoundIn(mode)
  BY TypedAfter DEF After
<1>4. t.checked = w.checked
  <2> HIDE DEF t
  <2> QED  BY <1>3 DEF After, Grown
<1>5. u \in After(mode, t) /\ u \in SoundIn(mode)
  BY BlobWritten DEF After, length
<1>6. v \in After(mode, u)
  <2>1. WriteBlob(w, value) = v
    BY DEF WriteBlob, length
  <2> QED  BY <2>1, BlobWritten DEF length
<1>7. WriteBlob(w, value) = v
  BY DEF WriteBlob, length
<1>8. r.buf \in Seq(Byte)
  BY AwaitsFields
<1>9. Holds(r.buf, ones, v) /\ Holds(r.buf, ones, u) /\ Holds(r.buf, ones, t)
  <2> HIDE DEF v, u, t
  <2>1. Holds(r.buf, ones, v)
    BY <1>7
  <2>2. Holds(r.buf, ones, u)
    BY <1>5, <1>6, <1>8, <2>1, HoldsBefore
  <2> QED  BY <1>3, <1>5, <1>8, <2>1, <2>2, HoldsBefore
<1>10. Follows(c, t) /\ c.buf = r.buf /\ c.cached = None
  <2>1. Holds(r.buf, ones, Typed(w, "blob"))
    BY <1>9
  <2> QED  BY <1>2, <2>1, CheckedBack
<1>11. Taken(c, size, u, length)
  <2> HIDE DEF t, c
  <2>0. AwaitsTyped(c, t, "u32")
    BY <1>10 DEF AwaitsTyped, Awaits
  <2>1. Holds(c.buf, ones, WriteScalar(t, "u32", length))
    BY <1>9, <1>10
  <2> QED  BY <1>1, <1>2, <1>3, <2>0, <2>1, TypedBytesBack
<1>12. ReadScalar(c, "u32") = size
  BY <1>1, <1>2 DEF ReadScalar
<1>13. size.ok = TRUE /\ size.got = length /\ Follows(size, u) /\ size.cached = None
       /\ size.buf = r.buf
  <2> HIDE DEF size, u, c
  <2> QED  BY <1>10, <1>11, ReaderFields DEF Taken, Follows
<1>14. ReadBlob(r) = s
  <2> HIDE DEF size
  <2>1. FromLittleEndian(size.got) = Len(value)
    BY <1>1, <1>13
  <2> QED  BY <1>12, <1>13, <2>1 DEF ReadBlob
<1>15. Back(size, s, v, value)
  <2> HIDE DEF size, u
  <2>1. Holds(size.buf, ones, WriteBytes(u, value))
    BY <1>9, <1>13
  <2> QED  BY <1>5, <1>13, <2>1, BytesBack
<1> HIDE DEF v, s, size
<1>16. Follows(s, v) /\ s.cached = None /\ s.buf = r.buf /\ s.got = value
  BY <1>13, <1>15 DEF Back
<1> QED  BY <1>7, <1>14, <1>16 DEF Taken

-----------------------------------------------------------------------------
(* Strings                                                                  *)

(* The characters of value come next, and then the 0 that ends them         *)
TextAt(ones, p, value) ==
  /\ \A j \in 1..Len(value) : BitsAt(ones, p + 8 * (j - 1), 8) = value[j]
  /\ BitsAt(ones, p + 8 * Len(value), 8) = {}

HasNoZero(value) == \A i \in DOMAIN value : value[i] # {}

TookText(r, s, value) == /\ SoundReader(s) /\ Same(r, s) /\ s.got = value
                         /\ Place(s) = Place(r) + 8 * (Len(value) + 1)

(* In byte mode the first 0 that comes is the one that ends the string.     *)
LEMMA WholeTextRead ==
  ASSUME NEW r, SoundReader(r), r.mode = "bytes", NEW ones, Written(r.buf, ones),
         NEW value \in Seq(Byte), HasNoZero(value), TextAt(ones, Place(r), value),
         Place(r) + 8 * (Len(value) + 1) <= 8 * Len(r.buf)
  PROVE  TookText(r, ReadStrBytes(r), value)
<1> DEFINE n == Len(value)
           pos == r.pos
           buf == r.buf
           len == Len(buf)
           ends == {k \in pos + 1..len : buf[k] = {}}
           first == CHOOSE k \in ends : \A j \in ends : k <= j
           end == IF ends = {} THEN len ELSE first
           s == [r EXCEPT !.pos = end, !.got = SubSeq(buf, pos + 1, end - 1)]
<1> HIDE DEF ends, first, end, s
<1>1. /\ r \in Reader /\ r.ok = TRUE /\ buf \in Seq(Byte) /\ pos \in Nat /\ len \in Nat
      /\ pos <= len /\ r.bit_offset = 8 /\ n \in Nat
  <2>1. /\ r \in Reader /\ r.ok = TRUE /\ buf \in Seq(Byte) /\ pos \in Nat /\ len \in Nat
        /\ pos <= len
    BY ReaderFields
  <2>2. r.bit_offset = 8
    BY DEF SoundReader
  <2> HIDE DEF pos, buf, len
  <2> QED  BY <2>1, <2>2
<1>2. Place(r) = 8 * pos
  BY <1>1 DEF Place
<1>3. ReadStrBytes(r) = s
  BY <1>1 DEF ReadStrBytes, s, end, first, ends
<1> HIDE DEF pos, buf, len, n
<1>4. pos + (n + 1) <= len
  BY <1>1, <1>2 DEF n, len, buf
<1>5. \A k \in pos + 1..len : buf[k] = BitsAt(ones, 8 * (k - 1), 8)
  <2>1. \A k \in pos + 1..len : k \in 1..len
    BY <1>1
  <2> QED  BY <2>1, ByteIsBits DEF Written, buf, len
<1>6. ASSUME NEW j \in 1..n
      PROVE  buf[pos + j] = value[j] /\ pos + j \in pos + 1..len
  <2>1. pos + j \in pos + 1..len /\ 8 * pos + 8 * (j - 1) = 8 * ((pos + j) - 1)
    BY <1>1, <1>4
  <2>2. BitsAt(ones, 8 * pos + 8 * (j - 1), 8) = value[j]
    BY <1>2 DEF TextAt, n
  <2> QED  BY <1>5, <2>1, <2>2
<1>7. buf[pos + (n + 1)] = {} /\ pos + (n + 1) \in pos + 1..len
  <2>1. pos + (n + 1) \in pos + 1..len /\ 8 * pos + 8 * n = 8 * ((pos + (n + 1)) - 1)
    BY <1>1, <1>4
  <2>2. BitsAt(ones, 8 * pos + 8 * n, 8) = {}
    BY <1>2 DEF TextAt, n
  <2> QED  BY <1>5, <2>1, <2>2
<1>8. \A j \in 1..n : value[j] # {}
  BY DEF HasNoZero, n
<1>9. end = pos + (n + 1)
  <2> DEFINE e == pos + (n + 1)
  <2> USE DEF ends, end, first
  <2>1. e \in ends
    BY <1>7
  <2>2. ASSUME NEW k \in ends
        PROVE  e <= k
    <3> SUFFICES ASSUME k < e PROVE FALSE
      BY <1>1
    <3>1. k - pos \in 1..n /\ pos + (k - pos) = k
      BY <1>1
    <3>2. buf[k] = {}
      OBVIOUS
    <3> QED  BY <1>6, <1>8, <3>1, <3>2
  <2>3. e \in Nat /\ ends \subseteq Nat
    BY <1>1
  <2> HIDE DEF e, ends, end
  <2>4. first \in ends /\ \A j \in ends : first <= j
    BY <2>1, <2>2
  <2>5. first = e
    <3>1. first <= e /\ e <= first
      BY <2>1, <2>2, <2>4
    <3> HIDE DEF first
    <3> QED  BY <2>3, <2>4, <3>1
  <2> QED  BY <2>1, <2>5 DEF e, end
<1> DEFINE taken == SubSeq(buf, pos + 1, pos + n)
<1>10. taken = value
  <2>1. buf \in Seq(Byte) /\ pos + 1 \in Nat /\ pos + n \in Nat
    BY <1>1 DEF buf
  <2>2. /\ taken \in Seq(Byte) /\ Len(taken) = n
        /\ \A j \in 1..n : taken[j] = buf[pos + j]
    BY <1>1, <1>4, <2>1, Slice DEF len
  <2> HIDE DEF taken
  <2>3. \A j \in 1..n : taken[j] = value[j]
    BY <1>6, <2>2
  <2> QED  BY <2>2, <2>3, SeqEqual DEF n
<1> HIDE DEF taken
<1>11. s = [r EXCEPT !.pos = pos + (n + 1), !.got = value]
  <2>1. end - 1 = pos + n
    BY <1>1, <1>9
  <2> QED  BY <1>9, <1>10, <2>1 DEF taken, s
<1>12. /\ s \in Reader /\ s.ok = TRUE /\ Same(r, s)
       /\ s.pos = pos + (n + 1) /\ s.bit_offset = 8 /\ s.got = value
  <2>1. pos + (n + 1) \in Nat
    BY <1>1
  <2> QED  BY <1>1, <1>11, <2>1 DEF Reader, Same
<1>13. SoundReader(s)
  BY <1>1, <1>4, <1>12 DEF SoundReader, Same, len, buf
<1>14. Place(s) = Place(r) + 8 * (n + 1)
  <2>1. Place(s) = 8 * (pos + (n + 1)) - (8 - 8)
    BY <1>12 DEF Place
  <2> QED  BY <1>1, <1>2, <2>1
<1> QED  BY <1>3, <1>12, <1>13, <1>14 DEF TookText, n

(* In bit mode it is read character by character.                           *)
LEMMA SplitTextRead ==
  ASSUME NEW r, SoundReader(r), r.mode = "bits", NEW ones, Written(r.buf, ones),
         NEW value \in Seq(Byte), HasNoZero(value), TextAt(ones, Place(r), value),
         Place(r) + 8 * (Len(value) + 1) <= 8 * Len(r.buf)
  PROVE  TookText(r, ReadStrBits(r), value)
<1> DEFINE n == Len(r.buf) + 1
           len == Len(value)
           S == {v \in Reader : /\ Same(r, v) /\ (v.ok => SoundReader(v))}
           step == CHOOSE step : step = [k \in 0..n |->
                     IF k = 0 THEN r ELSE ReadBits(step[k - 1], 8)]
           F == [i \in 1..n |-> [v \in S |-> ReadBits(v, 8)]]
           Ends(k) == ~step[k].ok \/ step[k].got = <<{}>>
           end == CHOOSE k \in 1..n : Ends(k) /\ \A j \in 1..k - 1 : ~Ends(j)
           taken == [k \in 1..end - 1 |-> step[k].got[1]]
           s == [step[end] EXCEPT !.got = taken]
<1>1. ReadStrBits(r) = s
  BY DEF ReadStrBits
<1> HIDE DEF s, taken, end
<1>2. n \in Nat /\ len \in Nat /\ len + 1 \in 1..n /\ Place(r) \in Nat
  <2>1. Len(r.buf) \in Nat /\ Place(r) \in Nat
    BY ReaderFields, PlaceInBuffer
  <2>2. len + 1 <= Len(r.buf)
    BY <2>1
  <2> QED  BY <2>1, <2>2
<1>3. Len(r.buf) \in Nat /\ Place(r) + 8 * (len + 1) <= 8 * Len(r.buf)
  BY ReaderFields
<1> HIDE DEF n, len
<1>4. ASSUME NEW v, SoundReader(v), Same(r, v)
      PROVE  IF Place(v) + 8 <= 8 * Len(r.buf) THEN TookBits(v, ReadBits(v, 8), ones, 8)
             ELSE ReadBits(v, 8) = Fail(Ready(v))
  <2>1. v.mode = "bits" /\ Written(v.buf, ones) /\ 8 \in 1..8 /\ v.buf = r.buf
    BY <1>4 DEF Same
  <2> QED  BY <1>4, <2>1, BitsRead
<1>5. r \in S
  BY DEF SoundReader, Same
<1>6. ASSUME NEW v \in S
      PROVE  ReadBits(v, 8) \in S
  <2>1. CASE ~v.ok
    <3>1. ReadBits(v, 8) = v
      BY <2>1 DEF ReadBits
    <3> QED  BY <3>1
  <2>2. CASE v.ok
    <3> DEFINE u == ReadBits(v, 8)
    <3>1. SoundReader(v) /\ Same(r, v)
      BY <2>2
    <3> HIDE DEF u
    <3>2. TookBits(v, u, ones, 8) \/ u = Fail(Ready(v))
      BY <1>4, <3>1 DEF u
    <3>3. CASE TookBits(v, u, ones, 8)
      BY <3>1, <3>3 DEF TookBits, Same, SoundReader, u
    <3>4. CASE u = Fail(Ready(v))
      <4> DEFINE q == Ready(v)
      <4>1. SoundReader(q) /\ Same(v, q)
        BY <3>1, ReadyFields
      <4> HIDE DEF q
      <4>2. Fail(q) \in Reader /\ Same(q, Fail(q)) /\ Fail(q).ok = FALSE
        BY <4>1 DEF Fail, Reader, Same, SoundReader
      <4>3. u = Fail(q)
        BY <3>4 DEF q
      <4>4. u \in Reader /\ u.ok = FALSE /\ Same(r, u)
        BY <3>1, <4>1, <4>2, <4>3 DEF Same
      <4> QED  BY <4>4 DEF u
    <3> QED  BY <3>2, <3>3, <3>4
  <2> QED  BY <2>1, <2>2
<1> HIDE DEF S
<1>7. Rounds(F, n, S) /\ \A v \in S, i \in 1..n : F[i][v] = ReadBits(v, 8)
  BY <1>6 DEF Rounds
<1> HIDE DEF F
<1>8. PICK g : IsRun(g, n, S, r, F)
  BY <1>2, <1>5, <1>7, LoopRuns
<1>9. g = [k \in 0..n |-> IF k = 0 THEN r ELSE ReadBits(g[k - 1], 8)]
  <2>1. \A i \in 1..n : g[i - 1] \in S
    BY <1>2, <1>8 DEF IsRun
  <2>2. \A i \in 1..n : g[i] = ReadBits(g[i - 1], 8)
    BY <1>7, <1>8, <2>1 DEF IsRun
  <2>3. g = [i \in 0..n |-> g[i]] /\ g[0] = r
    BY <1>8 DEF IsRun
  <2>4. ASSUME NEW i \in 0..n
        PROVE  g[i] = IF i = 0 THEN r ELSE ReadBits(g[i - 1], 8)
    <3>1. CASE i = 0
      BY <2>3, <3>1
    <3>2. CASE i # 0
      <4>1. i \in 1..n
        BY <1>2, <3>2
      <4> QED  BY <2>2, <3>2, <4>1
    <3> QED  BY <3>1, <3>2
  <2> QED  BY <2>3, <2>4, Zenon
<1>10. step = [k \in 0..n |-> IF k = 0 THEN r ELSE ReadBits(step[k - 1], 8)]
  BY <1>9 DEF n
<1> HIDE DEF step
<1> DEFINE Good(m) ==
             /\ SoundReader(step[m]) /\ Same(r, step[m]) /\ Place(step[m]) = Place(r) + 8 * m
             /\ m > 0 => step[m].got = <<BitsAt(ones, Place(r) + 8 * (m - 1), 8)>>
           T == {m \in Nat : m <= len + 1 => Good(m)}
<1>11. 0 \in T
  <2>1. step[0] = r
    BY <1>2, <1>10
  <2>2. Place(r) = Place(r) + 8 * 0
    BY <1>2
  <2> HIDE DEF step
  <2>3. Good(0)
    BY <2>1, <2>2 DEF Same
  <2> HIDE DEF Good
  <2> QED  BY <2>3
<1>12. ASSUME NEW m \in Nat, m \in T
       PROVE  m + 1 \in T
  <2> SUFFICES ASSUME m + 1 <= len + 1
               PROVE  Good(m + 1)
    OBVIOUS
  <2> DEFINE u == step[m]
             v == step[m + 1]
  <2>1. /\ m + 1 \in 1..n /\ (m + 1) - 1 = m /\ m <= len + 1 /\ m + 1 \in 0..n
        /\ m + 1 # 0
    BY <1>2
  <2>2. Good(m)
    BY <1>12, <2>1
  <2> HIDE DEF T
  <2>3. v = ReadBits(u, 8)
    BY <1>10, <2>1
  <2>4. SoundReader(u) /\ Same(r, u) /\ Place(u) = Place(r) + 8 * m
    BY <2>2
  <2> HIDE DEF Good, u, v
  <2>5. TookBits(u, v, ones, 8)
    <3>1. (Place(r) + 8 * m) + 8 <= 8 * Len(r.buf)
      BY <1>2, <1>3
    <3>2. Place(u) + 8 <= 8 * Len(r.buf)
      BY <2>4, <3>1
    <3> QED  BY <1>4, <2>3, <2>4, <3>2
  <2>6. SoundReader(v) /\ Same(r, v)
    BY <2>4, <2>5 DEF TookBits, Same
  <2>7. Place(v) = Place(r) + 8 * (m + 1)
    <3>1. Place(v) = Place(u) + 8
      BY <2>5 DEF TookBits
    <3> QED  BY <1>2, <2>4, <3>1
  <2>8. v.got = <<BitsAt(ones, Place(r) + 8 * ((m + 1) - 1), 8)>>
    <3>1. v.got = <<BitsAt(ones, Place(u), 8)>>
      BY <2>5 DEF TookBits
    <3> QED  BY <2>1, <2>4, <3>1
  <2> QED  BY <2>6, <2>7, <2>8 DEF Good, v
<1> HIDE DEF T
<1>13. \A m \in Nat : m \in T
  BY <1>11, <1>12, SetInduction
<1>14. \A m \in 0..len + 1 : Good(m)
  BY <1>2, <1>13 DEF T
<1>15. \A m \in 0..len + 1 : step[m].ok = TRUE
  BY <1>14, ReaderFields
<1>16. \A m \in 1..len : step[m].got = <<value[m]>>
  <2> TAKE m \in 1..len
  <2>1. m \in 0..len + 1 /\ m > 0
    BY <1>2
  <2>2. step[m].got = <<BitsAt(ones, Place(r) + 8 * (m - 1), 8)>>
    BY <1>14, <2>1
  <2> QED  BY <2>2 DEF TextAt, len
<1>17. step[len + 1].got = <<{}>>
  <2>1. len + 1 \in 0..len + 1 /\ len + 1 > 0 /\ (len + 1) - 1 = len
    BY <1>2
  <2>2. step[len + 1].got = <<BitsAt(ones, Place(r) + 8 * ((len + 1) - 1), 8)>>
    BY <1>14, <2>1
  <2> QED  BY <2>1, <2>2 DEF TextAt, len
<1>18. Ends(len + 1) /\ \A j \in 1..len : ~Ends(j)
  <2>1. Ends(len + 1)
    BY <1>17
  <2>2. ASSUME NEW j \in 1..len
        PROVE  ~Ends(j)
    <3>1. step[j].ok = TRUE
      BY <1>2, <1>15
    <3>2. step[j].got[1] = value[j] /\ value[j] # {}
      BY <1>16 DEF HasNoZero, len
    <3>3. step[j].got # <<{}>>
      BY <3>2
    <3> QED  BY <3>1, <3>3
  <2> QED  BY <2>1, <2>2
<1>19. end = len + 1
  <2> HIDE DEF Ends
  <2> DEFINE Is(k) == Ends(k) /\ \A j \in 1..k - 1 : ~Ends(j)
  <2>1. Is(len + 1)
    <3>1. (len + 1) - 1 = len
      BY <1>2
    <3> QED  BY <1>18, <3>1
  <2>2. ASSUME NEW k \in 1..n, Is(k)
        PROVE  k = len + 1
    <3>1. ~(k \in 1..len)
      BY <1>18, <2>2
    <3>2. ~(len + 1 \in 1..k - 1)
      BY <1>18, <2>2
    <3> HIDE DEF Is
    <3> QED  BY <1>2, <3>1, <3>2
  <2>3. end = CHOOSE k \in 1..n : Is(k)
    BY DEF end
  <2> HIDE DEF Is
  <2>4. end \in 1..n /\ Is(end)
    BY <1>2, <2>1, <2>3
  <2> QED  BY <2>2, <2>4
<1>20. taken = value
  <2>1. end - 1 = len
    BY <1>2, <1>19
  <2>2. \A k \in 1..len : step[k].got[1] = value[k]
    BY <1>16
  <2>3. taken = [k \in 1..len |-> step[k].got[1]]
    BY <2>1 DEF taken
  <2>4. taken = [k \in 1..len |-> value[k]]
    BY <2>2, <2>3
  <2>5. value = [k \in 1..len |-> value[k]]
    BY DEF len
  <2> QED  BY <2>4, <2>5
<1> DEFINE u == step[len + 1]
<1>21. SoundReader(u) /\ Same(r, u) /\ Place(u) = Place(r) + 8 * (len + 1)
  <2>1. len + 1 \in 0..len + 1
    BY <1>2
  <2> QED  BY <1>14, <2>1
<1>22. s = [u EXCEPT !.got = value]
  BY <1>19, <1>20 DEF s
<1> HIDE DEF u, s, Good, Ends
<1>23. u \in Reader /\ u.ok = TRUE
  BY <1>21, ReaderFields
<1>24. /\ s \in Reader /\ s.ok = TRUE /\ s.got = value /\ Same(u, s)
       /\ s.pos = u.pos /\ s.bit_offset = u.bit_offset /\ s.last_byte = u.last_byte
  BY <1>22, <1>23 DEF Reader, Same
<1>25. SoundReader(s) /\ Place(s) = Place(u)
  BY <1>21, <1>24 DEF SoundReader, Place, Same
<1> QED
  <2>1. Same(r, s)
    BY <1>21, <1>24 DEF Same
  <2> QED  BY <1>1, <1>21, <1>24, <1>25, <2>1 DEF TookText, len

(* A writer that went on with a string                                      *)
WroteText(mode, w, v, value) ==
  /\ v \in After(mode, w) /\ v.total = w.total + 8 * (Len(value) + 1)
  /\ TextAt(v.ones, w.total, value)

(* A string is written as its characters, then a 0, ...                     *)
LEMMA TextWritten ==
  ASSUME NEW mode \in Modes, NEW w \in SoundIn(mode), NEW value \in Seq(Byte)
  PROVE  WroteText(mode, w, WriteBytes(WriteBytes(w, value), <<{}>>), value)
<1> DEFINE n == Len(value)
           zero == <<{}>>
           u == WriteBytes(w, value)
           v == WriteBytes(u, zero)
<1>1. zero \in Seq(Byte) /\ Len(zero) = 1 /\ n \in Nat
  BY Encoded
<1>2. /\ u \in SoundIn(mode) /\ Grown(w, u) /\ u.total = w.total + 8 * n
      /\ BytesAt(u.ones, w.total, value)
  BY BytesWritten
<1> HIDE DEF u
<1>3. /\ v \in SoundIn(mode) /\ Grown(u, v) /\ v.total = u.total + 8 * Len(zero)
      /\ BytesAt(v.ones, u.total, zero)
  BY <1>1, <1>2, BytesWritten
<1>4. w.total \in Nat /\ u.total \in Nat /\ v.total \in Nat
  BY <1>2, <1>3, SoundFields
<1>5. v \in After(mode, w)
  <2> HIDE DEF v
  <2>1. Grown(w, v)
    BY <1>2, <1>3, <1>4, GrownOn
  <2> QED  BY <1>3, <2>1 DEF After
<1>6. v.total = w.total + 8 * (n + 1)
  <2> HIDE DEF v, n
  <2> QED  BY <1>1, <1>2, <1>3, <1>4
<1>7. ASSUME NEW j \in 1..n
      PROVE  BitsAt(v.ones, w.total + 8 * (j - 1), 8) = value[j]
  <2>1. BitsAt(u.ones, w.total + 8 * (j - 1), 8) = value[j]
    BY <1>2 DEF BytesAt
  <2> HIDE DEF v, n
  <2>2. w.total + 8 * (j - 1) \in Nat /\ (w.total + 8 * (j - 1)) + 8 <= u.total
    BY <1>1, <1>2, <1>4
  <2>3. 8 \in 0..8
    OBVIOUS
  <2> QED  BY <1>3, <1>4, <2>1, <2>2, <2>3, BitsStay
<1>8. BitsAt(v.ones, w.total + 8 * n, 8) = {}
  <2>1. 1 \in 1..Len(zero) /\ zero[1] = {}
    BY <1>1
  <2> HIDE DEF v, zero, n
  <2>2. BitsAt(v.ones, u.total + 8 * (1 - 1), 8) = {}
    BY <1>3, <2>1 DEF BytesAt
  <2>3. u.total + 8 * (1 - 1) = w.total + 8 * n
    BY <1>1, <1>2, <1>4
  <2> QED  BY <2>2, <2>3
<1> HIDE DEF v
<1> QED  BY <1>5, <1>6, <1>7, <1>8 DEF WroteText, TextAt, v, u

(* ... an element of an array of strings in one go.                         *)
LEMMA TextElementWritten ==
  ASSUME NEW mode \in Modes, NEW w \in SoundIn(mode), NEW value \in Seq(Byte)
  PROVE  WroteText(mode, w, WriteBytes(w, Append(value, {})), value)
<1> DEFINE n == Len(value)
           text == Append(value, {})
           v == WriteBytes(w, text)
<1>1. {} \in Byte
  BY DEF Byte
<1>2. /\ text \in Seq(Byte) /\ Len(text) = n + 1 /\ n \in Nat
      /\ \A j \in 1..n : text[j] = value[j]
      /\ text[n + 1] = {}
  BY <1>1
<1> HIDE DEF text, n
<1>3. /\ v \in SoundIn(mode) /\ Grown(w, v) /\ v.total = w.total + 8 * Len(text)
      /\ BytesAt(v.ones, w.total, text)
  BY <1>2, BytesWritten
<1> HIDE DEF v
<1>4. \A j \in 1..n + 1 : BitsAt(v.ones, w.total + 8 * (j - 1), 8) = text[j]
  BY <1>2, <1>3 DEF BytesAt
<1>5. \A j \in 1..n : BitsAt(v.ones, w.total + 8 * (j - 1), 8) = value[j]
  <2>1. \A j \in 1..n : j \in 1..n + 1
    BY <1>2
  <2> QED  BY <1>2, <1>4, <2>1
<1>6. BitsAt(v.ones, w.total + 8 * n, 8) = {}
  <2>1. n + 1 \in 1..n + 1 /\ (n + 1) - 1 = n
    BY <1>2
  <2>2. BitsAt(v.ones, w.total + 8 * ((n + 1) - 1), 8) = text[n + 1]
    BY <1>4, <2>1
  <2> QED  BY <1>2, <2>1, <2>2
<1> QED  BY <1>2, <1>3, <1>5, <1>6 DEF WroteText, TextAt, After, v, text, n

(* A string that was written comes back, in either mode.                    *)
LEMMA TextBack ==
  ASSUME NEW mode \in Modes, NEW w \in SoundIn(mode), NEW value \in Seq(Byte),
         HasNoZero(value), NEW v, WroteText(mode, w, v, value),
         NEW r, Follows(r, w), NEW ones, Holds(r.buf, ones, v)
  PROVE  Back(r, IF mode = "bits" THEN ReadStrBits(r) ELSE ReadStrBytes(r), v, value)
<1> DEFINE n == Len(value)
           s == IF mode = "bits" THEN ReadStrBits(r) ELSE ReadStrBytes(r)
<1>1. /\ SoundReader(r) /\ Place(r) = w.total /\ r.mode = mode /\ r.checked = w.checked
      /\ w.mode = mode /\ r.buf \in Seq(Byte)
  BY SoundFields, ReaderFields DEF Follows
<1>2. /\ v \in SoundIn(mode) /\ Grown(w, v) /\ v.total = w.total + 8 * (n + 1)
      /\ TextAt(v.ones, w.total, value) /\ w.total \in Nat /\ v.total \in Nat /\ n \in Nat
  BY SoundFields DEF WroteText, After
<1>3. ASSUME NEW p \in Nat, p + 8 <= v.total
      PROVE  BitsAt(ones, p, 8) = BitsAt(v.ones, p, 8)
  <2>1. 8 \in 0..8
    OBVIOUS
  <2> QED  BY <1>2, <1>3, <2>1, HoldsBits
<1>4. TextAt(ones, Place(r), value)
  <2> HIDE DEF n
  <2>1. ASSUME NEW j \in 1..n
        PROVE  BitsAt(ones, w.total + 8 * (j - 1), 8) = value[j]
    <3>1. w.total + 8 * (j - 1) \in Nat /\ (w.total + 8 * (j - 1)) + 8 <= v.total
      BY <1>2
    <3>2. BitsAt(v.ones, w.total + 8 * (j - 1), 8) = value[j]
      BY <1>2 DEF TextAt, n
    <3> QED  BY <1>3, <3>1, <3>2
  <2>2. BitsAt(ones, w.total + 8 * n, 8) = {}
    <3>1. w.total + 8 * n \in Nat /\ (w.total + 8 * n) + 8 <= v.total
      BY <1>2
    <3>2. BitsAt(v.ones, w.total + 8 * n, 8) = {}
      BY <1>2 DEF TextAt, n
    <3> QED  BY <1>3, <3>1, <3>2
  <2> QED  BY <1>1, <2>1, <2>2 DEF TextAt, n
<1>5. Written(r.buf, ones) /\ Place(r) + 8 * (Len(value) + 1) <= 8 * Len(r.buf)
  BY <1>1, <1>2 DEF Holds
<1>6. TookText(r, s, value)
  <2>1. mode = "bits" \/ mode = "bytes"
    BY DEF Modes
  <2> QED  BY <1>1, <1>4, <1>5, <2>1, WholeTextRead, SplitTextRead
<1> HIDE DEF s
<1>7. Follows(s, v)
  BY <1>1, <1>2, <1>6 DEF TookText, Follows, Same, Grown
<1> QED  BY <1>6, <1>7 DEF TookText, Same, Back, s

(* And with its type.                                                       *)
LEMMA StrWritten ==
  ASSUME NEW mode \in Modes, NEW w \in SoundIn(mode), NEW value \in Seq(Byte)
  PROVE  WroteText(mode, Typed(w, "str"), WriteStr(w, value), value)
<1>1. Typed(w, "str") \in SoundIn(mode)
  BY TypedAfter DEF After
<1> QED  BY <1>1, TextWritten DEF WriteStr

(* A string comes back, in both modes.                                      *)
LEMMA StrBack ==
  ASSUME NEW mode \in Modes, NEW w \in SoundIn(mode), NEW value \in Seq(Byte),
         HasNoZero(value), NEW r, AwaitsTyped(r, w, "str"),
         NEW ones, Holds(r.buf, ones, WriteStr(w, value))
  PROVE  Taken(r, ReadStr(r), WriteStr(w, value), value)
<1> DEFINE t == Typed(w, "str")
           v == WriteStr(w, value)
           c == Checked(r, "str")
           s == IF mode = "bits" THEN ReadStrBits(c) ELSE ReadStrBytes(c)
<1>1. t \in After(mode, w) /\ t \in SoundIn(mode)
  BY TypedAfter DEF After
<1>2. WroteText(mode, t, v, value)
  BY StrWritten
<1> HIDE DEF t, v
<1>3. v \in After(mode, t)
  BY <1>2 DEF WroteText
<1>4. r.buf \in Seq(Byte) /\ r.mode = mode
  BY AwaitsFields
<1>5. Holds(r.buf, ones, v) /\ Holds(r.buf, ones, t)
  <2>1. Holds(r.buf, ones, v)
    BY DEF v
  <2> QED  BY <1>1, <1>3, <1>4, <2>1, HoldsBefore
<1>6. Follows(c, t) /\ c.buf = r.buf /\ c.cached = None
  <2>1. "str" \in Types
    BY DEF Types, Tag
  <2>2. Holds(r.buf, ones, Typed(w, "str"))
    BY <1>5 DEF t
  <2> QED  BY <2>1, <2>2, CheckedBack DEF t
<1> HIDE DEF c
<1>7. c.ok = TRUE
  BY <1>6, ReaderFields DEF Follows
<1>8. ReadStr(r) = s
  BY <1>4, <1>7 DEF ReadStr, c, Modes
<1>9. Back(c, s, v, value)
  <2>1. Holds(c.buf, ones, v)
    BY <1>5, <1>6
  <2> QED  BY <1>1, <1>2, <1>6, <2>1, TextBack
<1> HIDE DEF s
<1>10. Taken(r, s, v, value)
  BY <1>6, <1>9 DEF Back, Taken
<1> QED  BY <1>8, <1>10 DEF v

(* Arrays, which are written in byte mode                                   *)
ElementTypes == DOMAIN IntegerSize \cup {"str"}

(* An element of an array comes back.                                       *)
LEMMA ElementBack ==
  ASSUME NEW w \in SoundIn("bytes"), NEW type \in ElementTypes,
         NEW value \in Seq(Byte), IsValue(type, value)
  PROVE  LET v == WriteBytes(w, Element(type, value))
         IN  /\ v \in After("bytes", w)
             /\ \A r, ones : Follows(r, w) /\ Holds(r.buf, ones, v) =>
                  Back(r, ReadElement(r, type), v, value)
<1> DEFINE v == WriteBytes(w, Element(type, value))
<1>1. "bytes" \in Modes
  BY DEF Modes
<1>2. CASE type = "str"
  <2>1. v = WriteBytes(w, Append(value, {})) /\ HasNoZero(value)
    BY <1>2 DEF Element, IsValue, HasNoZero
  <2> HIDE DEF v
  <2>2. WroteText("bytes", w, v, value)
    BY <1>1, <2>1, TextElementWritten
  <2>3. ASSUME NEW r, NEW ones, Follows(r, w), Holds(r.buf, ones, v)
        PROVE  Back(r, ReadElement(r, type), v, value)
    <3> DEFINE s == IF "bytes" = "bits" THEN ReadStrBits(r) ELSE ReadStrBytes(r)
    <3>1. Back(r, s, v, value)
      BY <1>1, <2>1, <2>2, <2>3, TextBack
    <3>2. ReadElement(r, type) = s
      BY <1>2 DEF ReadElement
    <3> QED  BY <3>1, <3>2
  <2> QED  BY <2>2, <2>3 DEF WroteText, v
<1>3. CASE type # "str"
  <2>1. v = WriteBytes(w, value)
    BY <1>3 DEF Element
  <2>2. Len(value) = Size(type)
    BY <1>3 DEF IsValue, ElementTypes, IntegerSize
  <2> HIDE DEF v
  <2>3. v \in SoundIn("bytes") /\ Grown(w, v)
    BY <1>1, <2>1, BytesWritten
  <2>4. ASSUME NEW r, NEW ones, Follows(r, w), Holds(r.buf, ones, v)
        PROVE  Back(r, ReadElement(r, type), v, value)
    <3>1. Back(r, ReadBytes(r, Len(value)), v, value)
      BY <1>1, <2>1, <2>4, BytesBack
    <3>2. ReadElement(r, type) = ReadBytes(r, Len(value))
      BY <1>3, <2>2 DEF ReadElement
    <3> QED  BY <3>1, <3>2
  <2> QED  BY <2>3, <2>4 DEF After, v
<1> QED  BY <1>2, <1>3

(* What precedes the elements: the type, the type of a length, a size that  *)
(* nobody reads, and the length                                             *)
ArrayHead(w, type, n) == WriteArrayNumElements(WriteDataType(w, ToValue(type, TRUE)), n)
ReadArrayHead(r, type) == ReadArrayNumElements(Expect(r, ToValue(type, TRUE)))

(* So does what precedes the elements.                                      *)
LEMMA ArrayHeadBack ==
  ASSUME NEW w \in SoundIn("bytes"), NEW type \in Types, NEW n \in Nat, IsU32(n)
  PROVE  LET v == ArrayHead(w, type, n)
         IN  /\ v \in After("bytes", w) /\ v.total = w.total + 80
             /\ v \in After("bytes", WriteDataType(w, ToValue(type, TRUE)))
             /\ \A r, ones :
                  Awaits(r, w, ToValue(type, TRUE)) /\ r.buf \in Seq(Byte)
                    /\ Holds(r.buf, ones, v) =>
                  Taken(r, ReadArrayHead(r, type), v, LittleEndian(n))
<1> DEFINE tag == ToValue(type, TRUE)
           u32 == ToValue("u32", FALSE)
           zero == LittleEndian(0)
           length == LittleEndian(n)
           a == WriteDataType(w, tag)
           b == WriteDataType(a, u32)
           c == WriteBytes(b, zero)
           v == WriteBytes(c, length)
<1>1. "bytes" \in Modes /\ "u32" \in Types
  BY DEF Modes, Types, Tag
<1>2. TagFits("bytes", tag) /\ TagFits("bytes", u32)
  BY <1>1, TagsFit
<1>3. zero \in Seq(Byte) /\ Len(zero) = 4 /\ length \in Seq(Byte) /\ Len(length) = 4
  <2>1. IsU32(0)
    BY DEF IsU32
  <2> QED  BY <2>1, NumberOfBytes
<1>4. ArrayHead(w, type, n) = v
  BY DEF ArrayHead, WriteArrayNumElements
<1> HIDE DEF tag, u32, zero, length
<1>5. a \in After("bytes", w) /\ a \in SoundIn("bytes")
  BY <1>1, TypeAfter DEF After
<1>6. b \in After("bytes", a) /\ b \in SoundIn("bytes")
  <2> HIDE DEF a
  <2> QED  BY <1>1, <1>5, TypeAfter DEF After
<1>7. c \in After("bytes", b) /\ c \in SoundIn("bytes")
  <2> HIDE DEF b
  <2> QED  BY <1>1, <1>3, <1>6, BytesWritten DEF After
<1>8. v \in After("bytes", c) /\ v \in SoundIn("bytes")
  <2> HIDE DEF c
  <2> QED  BY <1>1, <1>3, <1>7, BytesWritten DEF After
<1>9. v \in After("bytes", b) /\ v \in After("bytes", a) /\ v \in After("bytes", w)
  <2> HIDE DEF v, a, b, c
  <2>1. v \in After("bytes", b)
    BY <1>6, <1>7, <1>8, AfterAfter
  <2>2. v \in After("bytes", a)
    BY <1>5, <1>6, <2>1, AfterAfter
  <2> QED  BY <1>5, <2>1, <2>2, AfterAfter
<1>10. v.total = w.total + 80
  <2>1. a.total = w.total + 8
    BY <1>1, TagWritten DEF TagBits
  <2> HIDE DEF a
  <2>2. b.total = a.total + 8
    BY <1>1, <1>5, TagWritten DEF TagBits
  <2> HIDE DEF b
  <2>3. c.total = b.total + 8 * 4
    BY <1>1, <1>3, <1>6, BytesWritten
  <2> HIDE DEF c
  <2>4. v.total = c.total + 8 * 4
    BY <1>1, <1>3, <1>7, BytesWritten
  <2> HIDE DEF v
  <2>5. w.total \in Nat
    BY SoundFields
  <2> QED  BY <2>1, <2>2, <2>3, <2>4, <2>5
<1>11. ASSUME NEW r, NEW ones, Awaits(r, w, tag), r.buf \in Seq(Byte), Holds(r.buf, ones, v)
       PROVE  Taken(r, ReadArrayHead(r, type), v, length)
  <2> DEFINE ra == Expect(r, tag)
             rb == Expect(ra, u32)
             rc == ReadBytes(rb, 4)
             s == ReadBytes(rc, 4)
  <2>1. ReadArrayHead(r, type) = s
    BY DEF ReadArrayHead, ReadArrayNumElements, tag, u32
  <2>2. Holds(r.buf, ones, a) /\ Holds(r.buf, ones, b) /\ Holds(r.buf, ones, c)
    <3> HIDE DEF v, a, b, c
    <3>1. Holds(r.buf, ones, c)
      BY <1>7, <1>8, <1>11, HoldsBefore
    <3>2. Holds(r.buf, ones, b)
      BY <1>6, <1>7, <1>11, <3>1, HoldsBefore
    <3> QED  BY <1>5, <1>6, <1>11, <3>1, <3>2, HoldsBefore
  <2>3. Taken(r, ra, a, <<ByteOf(tag)>>)
    BY <1>1, <1>2, <1>11, <2>2, ExpectTaken
  <2>4. Follows(ra, a) /\ ra.cached = None /\ ra.buf = r.buf
    <3> HIDE DEF ra, a
    <3> QED  BY <2>3 DEF Taken
  <2>5. Taken(ra, rb, b, <<ByteOf(u32)>>)
    <3> HIDE DEF ra, a
    <3>1. Awaits(ra, a, u32) /\ Holds(ra.buf, ones, WriteDataType(a, u32))
      BY <2>2, <2>4 DEF Awaits
    <3> QED  BY <1>1, <1>2, <1>5, <3>1, ExpectTaken
  <2>6. Follows(rb, b) /\ rb.cached = None /\ rb.buf = r.buf
    <3> HIDE DEF ra, rb, b
    <3> QED  BY <2>4, <2>5 DEF Taken
  <2>7. Back(rb, rc, c, zero)
    <3> HIDE DEF rb, b
    <3>1. Holds(rb.buf, ones, WriteBytes(b, zero)) /\ rc = ReadBytes(rb, Len(zero))
      BY <1>3, <2>2, <2>6
    <3> HIDE DEF rc
    <3> QED  BY <1>1, <1>3, <1>6, <2>6, <3>1, BytesBack
  <2>8. Follows(rc, c) /\ rc.cached = None /\ rc.buf = r.buf
    <3> HIDE DEF rc, rb, c
    <3> QED  BY <2>6, <2>7 DEF Back
  <2>9. Back(rc, s, v, length)
    <3> HIDE DEF rc, c
    <3>1. Holds(rc.buf, ones, WriteBytes(c, length)) /\ s = ReadBytes(rc, Len(length))
      BY <1>3, <1>11, <2>8
    <3> HIDE DEF s
    <3> QED  BY <1>1, <1>3, <1>7, <2>8, <3>1, BytesBack
  <2> HIDE DEF s, rc, v
  <2> QED  BY <2>1, <2>8, <2>9 DEF Back, Taken
<1> HIDE DEF v, a
<1> QED  BY <1>4, <1>9, <1>10, <1>11 DEF tag, length, a

(* What reading an item that was written comes to: its elements, and a      *)
(* reader that goes on after it                                             *)
ItemTaken(r, s, v, elements) ==
  /\ s.ok = TRUE /\ s.got = elements
  /\ Follows(Ready(s), v) /\ Ready(s).buf = r.buf /\ Ready(s).cached = None

(* The writer of an array goes from element to element.                     *)
ArrayRun(w, type, values, g) ==
  /\ g \in [0..Len(values) -> SoundIn("bytes")]
  /\ g[0] = ArrayHead(w, type, Len(values))
  /\ \A i \in 1..Len(values) : g[i] = WriteBytes(g[i - 1], Element(type, values[i]))
  /\ WriteArray(w, type, values) = g[Len(values)]
  /\ \A i \in 0..Len(values) : g[Len(values)] \in After("bytes", g[i])

(* The loop over the elements has such a run.                               *)
LEMMA ArrayLoop ==
  ASSUME NEW w \in SoundIn("bytes"), NEW type \in ElementTypes,
         NEW values \in Seq(Seq(Byte)), IsU32(Len(values)),
         \A i \in DOMAIN values : IsValue(type, values[i])
  PROVE  \E g : ArrayRun(w, type, values, g)
<1> DEFINE S == SoundIn("bytes")
           n == Len(values)
           first == ArrayHead(w, type, n)
           Round(v, i) == WriteBytes(v, Element(type, values[i]))
           step == CHOOSE step : step = [i \in 0..n |->
                     IF i = 0 THEN first ELSE Round(step[i - 1], i)]
           F == [i \in 1..n |-> [v \in S |-> Round(v, i)]]
<1>1. WriteArray(w, type, values) = step[n]
  BY DEF WriteArray, ArrayHead
<1>2. n \in Nat /\ \A i \in 1..n : values[i] \in Seq(Byte) /\ IsValue(type, values[i])
  OBVIOUS
<1>3. type \in Types
  BY DEF ElementTypes, IntegerSize, Types, Tag
<1>4. first \in S
  <2>1. IsU32(n)
    OBVIOUS
  <2> QED  BY <1>2, <1>3, <2>1, ArrayHeadBack DEF After
<1> HIDE DEF first, n
<1>5. \A v \in S, i \in 1..n : Round(v, i) \in After("bytes", v) /\ Round(v, i) \in S
  BY <1>2, ElementBack DEF After
<1> HIDE DEF Round
<1>6. Rounds(F, n, S) /\ \A v \in S, i \in 1..n : F[i][v] = Round(v, i)
  BY <1>5 DEF Rounds
<1> HIDE DEF F
<1>7. PICK g : IsRun(g, n, S, first, F)
  BY <1>2, <1>4, <1>6, LoopRuns
<1>8. g \in [0..n -> S] /\ g[0] = first /\ \A i \in 1..n : g[i] = Round(g[i - 1], i)
  <2>1. g \in [0..n -> S] /\ g[0] = first
    BY <1>7 DEF IsRun
  <2>2. \A i \in 1..n : i - 1 \in 0..n
    BY <1>2
  <2>3. \A i \in 1..n : g[i - 1] \in S
    BY <2>1, <2>2
  <2>4. \A i \in 1..n : g[i] = Round(g[i - 1], i)
    BY <1>6, <1>7, <2>3 DEF IsRun
  <2> QED  BY <2>1, <2>4
<1>9. g = [i \in 0..n |-> IF i = 0 THEN first ELSE Round(g[i - 1], i)]
  <2>1. ASSUME NEW i \in 0..n
        PROVE  g[i] = IF i = 0 THEN first ELSE Round(g[i - 1], i)
    <3>1. CASE i = 0
      BY <1>8, <3>1
    <3>2. CASE i # 0
      <4>1. i \in 1..n
        BY <1>2, <3>2
      <4> QED  BY <1>8, <3>2, <4>1
    <3> QED  BY <3>1, <3>2
  <2>2. g = [i \in 0..n |-> g[i]]
    BY <1>8
  <2> QED  BY <2>1, <2>2, Zenon
<1>10. step = [i \in 0..n |-> IF i = 0 THEN first ELSE Round(step[i - 1], i)]
  BY <1>9 DEF n, Round
<1> HIDE DEF step
<1> DEFINE Good(m) == \A i \in 0..m : step[i] \in S /\ step[m] \in After("bytes", step[i])
           T == {m \in Nat : m <= n => Good(m)}
<1>11. \A v \in S : v \in After("bytes", v)
  BY SoundFields DEF After, Grown
<1>12. step[0] = first /\ \A i \in 1..n : step[i] = Round(step[i - 1], i)
  <2>1. 0 \in 0..n /\ \A i \in 1..n : i \in 0..n /\ i # 0
    BY <1>2
  <2> QED  BY <1>10, <2>1
<1>13. 0 \in T
  BY <1>4, <1>11, <1>12
<1>14. ASSUME NEW m \in Nat, m \in T
       PROVE  m + 1 \in T
  <2> SUFFICES ASSUME m + 1 <= n
               PROVE  Good(m + 1)
    OBVIOUS
  <2>1. m + 1 \in 1..n /\ (m + 1) - 1 = m /\ m <= n
    BY <1>2
  <2>2. Good(m)
    BY <1>14, <2>1
  <2> HIDE DEF T
  <2> DEFINE u == step[m]
             v == step[m + 1]
  <2>3. v = Round(u, m + 1)
    BY <1>12, <2>1
  <2>4. u \in S
    BY <1>2, <2>2
  <2> HIDE DEF u, v
  <2>5. v \in After("bytes", u) /\ v \in S
    BY <1>5, <2>1, <2>3, <2>4
  <2>6. ASSUME NEW i \in 0..m
        PROVE  step[i] \in S /\ v \in After("bytes", step[i])
    <3>1. step[i] \in S /\ u \in After("bytes", step[i])
      BY <2>2 DEF u
    <3> QED  BY <2>4, <2>5, <3>1, AfterAfter
  <2>7. \A i \in 0..m + 1 : i \in 0..m \/ i = m + 1
    OBVIOUS
  <2>8. v \in After("bytes", v)
    BY <1>11, <2>5
  <2> QED  BY <2>5, <2>6, <2>7, <2>8 DEF v
<1> HIDE DEF T
<1>15. n \in T
  BY <1>2, <1>13, <1>14, SetInduction
<1>16. Good(n)
  BY <1>2, <1>15 DEF T
<1>17. step \in [0..n -> S]
  <2>1. \A i \in 0..n : step[i] \in S
    BY <1>16
  <2>2. step = [i \in 0..n |-> step[i]]
    BY <1>10
  <2> QED  BY <2>1, <2>2
<1>18. ArrayRun(w, type, values, step)
  BY <1>1, <1>12, <1>16, <1>17 DEF ArrayRun, Round, first, n
<1> QED  BY <1>18

(* An array goes on after its type, and takes 10 bytes at least.            *)
LEMMA ArrayWritten ==
  ASSUME NEW w \in SoundIn("bytes"), NEW type \in ElementTypes,
         NEW values \in Seq(Seq(Byte)), IsU32(Len(values)),
         \A i \in DOMAIN values : IsValue(type, values[i])
  PROVE  LET v == WriteArray(w, type, values)
         IN  /\ v \in After("bytes", w) /\ v.total >= w.total + 80
             /\ v \in After("bytes", WriteDataType(w, ToValue(type, TRUE)))
<1> DEFINE n == Len(values)
           v == WriteArray(w, type, values)
           a == WriteDataType(w, ToValue(type, TRUE))
           h == ArrayHead(w, type, n)
<1>1. n \in Nat /\ IsU32(n) /\ type \in Types /\ "bytes" \in Modes
  BY DEF ElementTypes, IntegerSize, Types, Tag, Modes
<1>2. PICK g : ArrayRun(w, type, values, g)
  BY ArrayLoop
<1> HIDE DEF n, v, a
<1>3. /\ h \in After("bytes", w) /\ h \in After("bytes", a) /\ h \in SoundIn("bytes")
      /\ h.total = w.total + 80
  BY <1>1, ArrayHeadBack DEF After, a
<1>4. v \in After("bytes", h)
  <2>1. 0 \in 0..n
    BY <1>1
  <2> QED  BY <1>2, <2>1 DEF ArrayRun, n, v
<1> HIDE DEF h
<1>5. a \in SoundIn("bytes")
  BY <1>1, TypeAfter DEF a, After
<1>6. v \in After("bytes", w) /\ v \in After("bytes", a)
  BY <1>3, <1>4, <1>5, AfterAfter
<1>7. v.total >= w.total + 80
  BY <1>3, <1>4, SoundFields DEF After, Grown
<1> QED  BY <1>6, <1>7 DEF v, a

(* An array that was written comes back.                                    *)
LEMMA ArrayBack ==
  ASSUME NEW w \in SoundIn("bytes"), NEW type \in ElementTypes,
         NEW values \in Seq(Seq(Byte)), IsU32(Len(values)),
         \A i \in DOMAIN values : IsValue(type, values[i]),
         NEW r, Awaits(r, w, ToValue(type, TRUE)), r.mode = "bytes",
         r.buf \in Seq(Byte),
         NEW ones, Holds(r.buf, ones, WriteArray(w, type, values))
  PROVE  ItemTaken(r, ReadArray(r, type), WriteArray(w, type, values), values)
<1> DEFINE n == Len(values)
           v == WriteArray(w, type, values)
           size == ReadArrayHead(r, type)
           step == CHOOSE step : step = [i \in 0..n |->
                     IF i = 0 THEN size ELSE ReadElement(step[i - 1], type)]
           F == [i \in 1..n |-> [s \in Reader |->
                  IF ReadElement(s, type) \in Reader THEN ReadElement(s, type) ELSE s]]
           s == [step[n] EXCEPT !.got = [i \in 1..n |-> step[i].got]]
<1>1. type \in Types
  BY DEF ElementTypes, IntegerSize, Types, Tag
<1>2. n \in Nat /\ \A i \in 1..n : values[i] \in Seq(Byte) /\ IsValue(type, values[i])
  OBVIOUS
<1>3. PICK g : ArrayRun(w, type, values, g)
  BY ArrayLoop
<1> HIDE DEF n, v, size, step, s, F
<1>4. /\ g \in [0..n -> SoundIn("bytes")] /\ g[0] = ArrayHead(w, type, n) /\ v = g[n]
      /\ \A i \in 1..n : g[i] = WriteBytes(g[i - 1], Element(type, values[i]))
      /\ \A i \in 0..n : v \in After("bytes", g[i])
  BY <1>3 DEF ArrayRun, n, v
<1>5. \A i \in 0..n : Holds(r.buf, ones, g[i])
  <2> TAKE i \in 0..n
  <2>1. g[i] \in SoundIn("bytes") /\ v \in After("bytes", g[i]) /\ Holds(r.buf, ones, v)
    BY <1>4 DEF v
  <2> QED  BY <2>1, HoldsBefore
<1>6. Taken(r, size, g[0], LittleEndian(n))
  <2>1. 0 \in 0..n /\ IsU32(n)
    BY <1>2 DEF n
  <2>2. Holds(r.buf, ones, ArrayHead(w, type, n))
    BY <1>4, <1>5, <2>1
  <2> QED  BY <1>1, <1>2, <1>4, <2>1, <2>2, ArrayHeadBack DEF size
<1>7. size \in Reader /\ size.ok = TRUE
  BY <1>6, ReaderFields DEF Taken, Follows
<1>8. FromLittleEndian(size.got) = n
  <2>1. IsU32(n)
    BY DEF n
  <2> QED  BY <1>2, <1>6, <2>1, NumberOfBytes DEF Taken
<1> DEFINE Reads(h) == /\ h[0] = size
                       /\ \A i \in 1..n : ReadElement(h[i - 1], type) \in Reader =>
                                         h[i] = ReadElement(h[i - 1], type)
           Good(h, i) == /\ Follows(h[i], g[i]) /\ h[i].buf = r.buf /\ h[i].cached = None
                         /\ i > 0 => /\ h[i].got = values[i]
                                     /\ h[i] = ReadElement(h[i - 1], type)
<1>9. ASSUME NEW h, Reads(h)
       PROVE  \A i \in 0..n : Good(h, i)
  <2> DEFINE T == {m \in Nat : m <= n => Good(h, m)}
  <2>1. 0 \in T
    <3>1. h[0] = size
      BY <1>9
    <3>2. Good(h, 0)
      BY <1>6, <3>1 DEF Taken
    <3> HIDE DEF Good
    <3> QED  BY <3>2
  <2>2. ASSUME NEW m \in Nat, m \in T
        PROVE  m + 1 \in T
    <3> SUFFICES ASSUME m + 1 <= n
                 PROVE  Good(h, m + 1)
      OBVIOUS
    <3>1. m + 1 \in 1..n /\ (m + 1) - 1 = m /\ m \in 0..n /\ m + 1 \in 0..n /\ m <= n
      BY <1>2
    <3>2. Good(h, m)
      BY <2>2, <3>1
    <3> HIDE DEF T
    <3> DEFINE x == h[m]
               y == ReadElement(x, type)
               z == g[m + 1]
    <3>3. Follows(x, g[m]) /\ x.buf = r.buf /\ x.cached = None
      BY <3>2
    <3>4. z = WriteBytes(g[m], Element(type, values[m + 1])) /\ Holds(x.buf, ones, z)
      BY <1>4, <1>5, <3>1, <3>3
    <3> HIDE DEF Good, x, y, z
    <3>5. Back(x, y, z, values[m + 1])
      <4>1. g[m] \in SoundIn("bytes") /\ values[m + 1] \in Seq(Byte) /\ IsValue(type, values[m + 1])
        BY <1>2, <1>4, <3>1
      <4> QED  BY <3>3, <3>4, <4>1, ElementBack DEF y
    <3>6. y \in Reader
      BY <3>5, ReaderFields DEF Back, Follows
    <3>7. h[m + 1] = y
      BY <1>9, <3>1, <3>6 DEF y, x
    <3>8. /\ Follows(h[m + 1], g[m + 1]) /\ h[m + 1].buf = r.buf
          /\ h[m + 1].cached = None /\ h[m + 1].got = values[m + 1]
      BY <3>3, <3>5, <3>7 DEF Back, z
    <3>9. h[m + 1] = ReadElement(h[(m + 1) - 1], type)
      BY <3>1, <3>7 DEF y, x
    <3> QED  BY <3>8, <3>9 DEF Good
  <2> HIDE DEF T
  <2>3. \A m \in Nat : m \in T
    BY <2>1, <2>2, SetInduction
  <2> HIDE DEF Good
  <2> QED  BY <1>2, <2>3 DEF T
<1>10. PICK f : IsRun(f, n, Reader, size, F)
  <2>1. Rounds(F, n, Reader)
    BY DEF Rounds, F
  <2> QED  BY <1>2, <1>7, <2>1, LoopRuns
<1>11. Reads(f)
  <2>1. f[0] = size
    BY <1>10 DEF IsRun
  <2>2. ASSUME NEW i \in 1..n, ReadElement(f[i - 1], type) \in Reader
        PROVE  f[i] = ReadElement(f[i - 1], type)
    <3>1. f[i - 1] \in Reader
      <4>1. i - 1 \in 0..n
        BY <1>2
      <4> QED  BY <1>10, <4>1 DEF IsRun
    <3>2. f[i] = F[i][f[i - 1]]
      BY <1>10 DEF IsRun
    <3>3. F[i][f[i - 1]] = ReadElement(f[i - 1], type)
      BY <2>2, <3>1 DEF F
    <3> QED  BY <3>2, <3>3
  <2> QED  BY <2>1, <2>2
<1>12. f = [i \in 0..n |-> IF i = 0 THEN size ELSE ReadElement(f[i - 1], type)]
  <2>1. ASSUME NEW i \in 0..n
        PROVE  f[i] = IF i = 0 THEN size ELSE ReadElement(f[i - 1], type)
    <3>1. CASE i = 0
      BY <1>11, <3>1
    <3>2. CASE i # 0
      <4>1. i > 0
        BY <3>2
      <4> QED  BY <1>9, <1>11, <3>2, <4>1
    <3> QED  BY <3>1, <3>2
  <2>2. f = [i \in 0..n |-> f[i]]
    BY <1>10 DEF IsRun
  <2> QED  BY <2>1, <2>2, Zenon
<1>13. step = [i \in 0..n |-> IF i = 0 THEN size ELSE ReadElement(step[i - 1], type)]
  BY <1>12 DEF step
<1>14. Reads(step)
  <2>1. 0 \in 0..n /\ \A i \in 1..n : i \in 0..n /\ i # 0
    BY <1>2
  <2> QED  BY <1>13, <2>1
<1>15. \A i \in 0..n : Good(step, i)
  BY <1>9, <1>14
<1>16. [i \in 1..n |-> step[i].got] = values
  <2>1. \A i \in 1..n : step[i].got = values[i]
    <3>1. \A i \in 1..n : i \in 0..n /\ i > 0
      BY <1>2
    <3> QED  BY <1>15, <3>1
  <2>2. values = [i \in 1..n |-> values[i]]
    BY DEF n
  <2> QED  BY <2>1, <2>2
<1> DEFINE u == step[n]
<1>17. Follows(u, v) /\ u.buf = r.buf /\ u.cached = None
  <2>1. n \in 0..n
    BY <1>2
  <2> QED  BY <1>4, <1>15, <2>1
<1>18. s = [u EXCEPT !.got = values]
  BY <1>16 DEF s
<1>19. ReadArray(r, type) = s
  <2> DEFINE Loop(m) == CHOOSE loop : loop = [i \in 0..m |->
                          IF i = 0 THEN size ELSE ReadElement(loop[i - 1], type)]
             Result(m) == [Loop(m)[m] EXCEPT !.got = [i \in 1..m |-> Loop(m)[i].got]]
             read == FromLittleEndian(size.got)
  <2>1. Result(n) = s
    BY DEF s, step
  <2>2. ReadArray(r, type) = IF r.mode = "bits" THEN Fail(r)
                             ELSE IF size.ok THEN Result(read) ELSE size
    BY DEF ReadArray, ReadArrayHead, size
  <2> HIDE DEF Result, read
  <2>3. Result(read) = s
    BY <1>8, <2>1 DEF read
  <2> QED  BY <1>7, <2>2, <2>3
<1> HIDE DEF u, s, Good, Reads
<1>20. u \in Reader /\ u.ok = TRUE /\ SoundReader(u)
  BY <1>17, ReaderFields DEF Follows
<1>21. s.ok = TRUE /\ s.got = values /\ Ready(s) = Ready(u)
  BY <1>18, <1>20 DEF Ready, Reader
<1>22. Follows(Ready(u), v) /\ Ready(u).buf = r.buf /\ Ready(u).cached = None
  BY <1>17, <1>20, ReadyFields DEF Follows, Same
<1> QED  BY <1>19, <1>21, <1>22 DEF ItemTaken, v

-----------------------------------------------------------------------------
(* Items                                                                    *)

(* A value goes on after its type.                                          *)
LEMMA ValueWritten ==
  ASSUME NEW mode \in Modes, NEW w \in SoundIn(mode), NEW type, NEW value \in Seq(Byte)
  PROVE  WriteValue(w, type, value) \in After(mode, Typed(w, type))
<1>1. CASE type = "bool"
  <2>1. WriteValue(w, type, value) = WriteBool(w, value)
    BY <1>1 DEF WriteValue
  <2> QED  BY <1>1, <2>1, BoolWritten
<1>2. CASE type = "str"
  <2>1. WriteValue(w, type, value) = WriteStr(w, value)
    BY <1>2 DEF WriteValue
  <2> QED  BY <1>2, <2>1, StrWritten DEF WroteText
<1>3. CASE type = "blob"
  <2>1. WriteValue(w, type, value) = WriteBlob(w, value)
    BY <1>3 DEF WriteValue
  <2> QED  BY <1>3, <2>1, BlobWritten
<1>4. CASE type \notin {"bool", "str", "blob"}
  <2>1. WriteValue(w, type, value) = WriteScalar(w, type, value)
    BY <1>4 DEF WriteValue
  <2> QED  BY <2>1, ScalarWritten
<1> QED  BY <1>1, <1>2, <1>3, <1>4

(* A value that was written comes back.                                     *)
LEMMA ValueBack ==
  ASSUME NEW mode \in Modes, NEW w \in SoundIn(mode), NEW type \in Types,
         NEW value \in Seq(Byte), IsValue(type, value), NEW r, AwaitsTyped(r, w, type),
         NEW ones, Holds(r.buf, ones, WriteValue(w, type, value))
  PROVE  Taken(r, ReadValue(r, type), WriteValue(w, type, value), value)
<1>1. CASE type = "bool"
  <2>1. WriteValue(w, type, value) = WriteBool(w, value) /\ ReadValue(r, type) = ReadBool(r)
    BY <1>1 DEF WriteValue, ReadValue
  <2>2. value = <<{}>> \/ value = <<{0}>>
    BY <1>1 DEF IsValue
  <2>3. {} \in Byte /\ {} \cap Low(1) = {} /\ {0} \in Byte /\ {0} \cap Low(1) = {0}
    BY DEF Byte, Bits, Low
  <2>4. \E bit \in Byte : bit \cap Low(1) = bit /\ value = <<bit>>
    BY <2>2, <2>3
  <2> QED  BY <1>1, <2>1, <2>4, BoolBack
<1>2. CASE type = "str"
  <2>1. WriteValue(w, type, value) = WriteStr(w, value) /\ ReadValue(r, type) = ReadStr(r)
    BY <1>2 DEF WriteValue, ReadValue
  <2>2. HasNoZero(value)
    BY <1>2 DEF IsValue, HasNoZero
  <2> QED  BY <1>2, <2>1, <2>2, StrBack
<1>3. CASE type = "blob"
  <2>1. WriteValue(w, type, value) = WriteBlob(w, value) /\ ReadValue(r, type) = ReadBlob(r)
    BY <1>3 DEF WriteValue, ReadValue
  <2>2. IsU32(Len(value))
    BY <1>3 DEF IsValue
  <2> QED  BY <1>3, <2>1, <2>2, BlobBack
<1>4. CASE type \notin {"bool", "str", "blob"}
  <2>1. WriteValue(w, type, value) = WriteScalar(w, type, value)
    BY <1>4 DEF WriteValue
  <2>2. ReadValue(r, type) = ReadBytes(Checked(r, type), Len(value))
    <3>1. Len(value) = Size(type)
      BY <1>4 DEF IsValue
    <3>2. ReadValue(r, type) = ReadScalar(r, type)
      BY <1>4 DEF ReadValue
    <3> QED  BY <3>1, <3>2 DEF ReadScalar
  <2> QED  BY <2>1, <2>2, TypedBytesBack
<1> QED  BY <1>1, <1>2, <1>3, <1>4

(* What is known of an item                                                 *)
TagOf(item) == ToValue(item.type, item.array)

(* The fields of an item have their types, and its elements are values of   *)
(* its type.                                                                *)
LEMMA ItemFields ==
  ASSUME NEW item \in Items
  PROVE  /\ item.type \in Types /\ item.array \in BOOLEAN
         /\ item.elements \in Seq(Seq(Byte))
         /\ item.array => item.type \in ElementTypes /\ IsU32(Len(item.elements))
         /\ ~item.array => item.elements[1] \in Seq(Byte) /\ item.elements = <<item.elements[1]>>
                           /\ IsValue(item.type, item.elements[1])
         /\ \A i \in DOMAIN item.elements : IsValue(item.type, item.elements[i])
<1>1. /\ item.type \in Types /\ item.array \in BOOLEAN
      /\ item.elements \in Seq(Seq(Byte))
      /\ item.array => item.type \in ElementTypes /\ IsU32(Len(item.elements))
      /\ ~item.array => Len(item.elements) = 1
      /\ \A i \in DOMAIN item.elements : IsValue(item.type, item.elements[i])
  BY ItemsAssumption DEF ElementTypes
<1>2. ASSUME ~item.array
      PROVE  /\ item.elements[1] \in Seq(Byte) /\ item.elements = <<item.elements[1]>>
             /\ 1 \in DOMAIN item.elements
  <2>1. Len(item.elements) = 1 /\ item.elements \in Seq(Seq(Byte))
    BY <1>1, <1>2
  <2> DEFINE e == item.elements
  <2> HIDE DEF e
  <2>2. Len(e) = 1 /\ e \in Seq(Seq(Byte))
    BY <2>1 DEF e
  <2>3. e[1] \in Seq(Byte) /\ e = <<e[1]>> /\ 1 \in DOMAIN e
    BY <2>2
  <2> QED  BY <2>3 DEF e
<1> QED  BY <1>1, <1>2

(* An item goes on after its type, and takes what its elements need.        *)
LEMMA ItemWritten ==
  ASSUME NEW mode \in Modes, NEW w \in SoundIn(mode), NEW item \in Items,
         item.array => mode = "bytes"
  PROVE  LET v == WriteItem(w, item)
         IN  /\ v \in After(mode, w)
             /\ w.checked => v \in After(mode, WriteDataType(w, TagOf(item)))
             /\ w.checked /\ item.type \in Scalars =>
                  v.total >= w.total + (5 + 8 * Size(item.type))
<1> DEFINE type == item.type
           v == WriteItem(w, item)
<1>1. w.total \in Nat /\ (type \in Scalars => Size(type) \in 1..8)
  BY SoundFields DEF Scalars, Size, IntegerSize, FloatSize
<1>2. CASE item.array
  <2>1. v = WriteArray(w, type, item.elements) /\ mode = "bytes"
    BY <1>2 DEF WriteItem
  <2>2. TagOf(item) = ToValue(type, TRUE)
    BY <1>2, ItemFields DEF TagOf
  <2> HIDE DEF v, type
  <2>3. /\ type \in ElementTypes /\ item.elements \in Seq(Seq(Byte))
        /\ IsU32(Len(item.elements))
        /\ \A i \in DOMAIN item.elements : IsValue(type, item.elements[i])
    BY <1>2, ItemFields DEF type
  <2>4. w \in SoundIn("bytes")
    BY <2>1
  <2>5. /\ v \in After("bytes", w) /\ v.total >= w.total + 80
        /\ v \in After("bytes", WriteDataType(w, ToValue(type, TRUE)))
    BY <2>1, <2>3, <2>4, ArrayWritten
  <2>6. v.total \in Nat
    BY <2>5, SoundFields DEF After
  <2>7. type \in Scalars => v.total >= w.total + (5 + 8 * Size(type))
    <3> SUFFICES ASSUME Size(type) \in 1..8
                 PROVE  v.total >= w.total + (5 + 8 * Size(type))
      BY <1>1
    <3> QED  BY <1>1, <2>5, <2>6
  <2> QED  BY <2>1, <2>2, <2>5, <2>7 DEF v, type
<1>3. CASE ~item.array
  <2> DEFINE value == item.elements[1]
             t == Typed(w, type)
  <2>1. v = WriteValue(w, type, value)
    BY <1>3 DEF WriteItem
  <2>2. w.checked => t = WriteDataType(w, TagOf(item))
    <3>1. TagOf(item) = ToValue(type, FALSE)
      BY <1>3, ItemFields DEF TagOf
    <3> QED  BY <3>1 DEF Typed
  <2> HIDE DEF v, type, value, t
  <2>3. value \in Seq(Byte) /\ IsValue(type, value)
    BY <1>3, ItemFields DEF type, value
  <2>4. v \in After(mode, t) /\ t \in After(mode, w)
    BY <2>1, <2>3, ValueWritten, TypedAfter DEF t
  <2>5. v \in After(mode, w)
    <3>1. t \in SoundIn(mode)
      BY <2>4 DEF After
    <3> QED  BY <2>4, AfterAfter
  <2>6. ASSUME w.checked, type \in Scalars
        PROVE  v.total >= w.total + (5 + 8 * Size(type))
    <3>1. t.total = w.total + TagBits(mode)
      BY <2>2, <2>6, TagWritten
    <3>2. TagBits(mode) \in {5, 8}
      BY DEF TagBits
    <3>3. type \notin {"bool", "str", "blob"}
      BY <2>6 DEF Scalars, IntegerSize, FloatSize
    <3>4. v = WriteScalar(w, type, value) /\ Len(value) = Size(type)
      BY <2>1, <2>3, <3>3 DEF WriteValue, IsValue
    <3>5. v.total = t.total + 8 * Size(type)
      BY <2>3, <3>4, ScalarWritten DEF t
    <3>6. Size(type) \in 1..8
      BY <1>1, <2>6 DEF type
    <3> DEFINE bits == TagBits(mode)
               size == Size(type)
    <3> HIDE DEF bits, size
    <3>7. bits \in {5, 8} /\ size \in 1..8 /\ v.total = (w.total + bits) + 8 * size
      BY <3>1, <3>2, <3>5, <3>6 DEF bits, size
    <3>8. v.total >= w.total + (5 + 8 * size)
      BY <1>1, <3>7
    <3> QED  BY <3>8 DEF size
  <2> QED  BY <2>2, <2>4, <2>5, <2>6 DEF v, type
<1>4. item.array \in BOOLEAN
  BY ItemFields
<1> QED  BY <1>2, <1>3, <1>4

(* A reader before an item, which may have looked at its type               *)
AtItem(r, w, item) ==
  \/ r.cached = None /\ Follows(r, w)
  \/ w.checked /\ r.cached = TagOf(item) /\ Follows(r, WriteDataType(w, TagOf(item)))

(* An item that was written comes back.                                     *)
LEMMA ItemBack ==
  ASSUME NEW mode \in Modes, NEW w \in SoundIn(mode), NEW item \in Items,
         item.array => mode = "bytes", NEW r, AtItem(r, w, item),
         NEW ones, Holds(r.buf, ones, WriteItem(w, item))
  PROVE  ItemTaken(r, ReadItem(r, item.type, item.array), WriteItem(w, item), item.elements)
<1> DEFINE type == item.type
           v == WriteItem(w, item)
           s == ReadItem(r, item.type, item.array)
<1>1. CASE item.array
  <2>1. v = WriteArray(w, type, item.elements) /\ s = ReadArray(r, type) /\ mode = "bytes"
    BY <1>1 DEF WriteItem, ReadItem
  <2>2. TagOf(item) = ToValue(type, TRUE)
    BY <1>1, ItemFields DEF TagOf
  <2>3. Awaits(r, w, ToValue(type, TRUE))
    BY <2>2 DEF AtItem, Awaits
  <2>4. r.mode = "bytes" /\ r.buf \in Seq(Byte)
    <3> DEFINE a == WriteDataType(w, TagOf(item))
    <3>1. w.mode = "bytes" /\ a.mode = "bytes"
      BY <2>1, TypeAfter, SoundFields DEF After
    <3> HIDE DEF a
    <3>2. Follows(r, w) \/ Follows(r, a)
      BY DEF AtItem, a
    <3> QED  BY <3>1, <3>2, ReaderFields DEF Follows
  <2> HIDE DEF v, s, type
  <2>5. Holds(r.buf, ones, v)
    BY DEF v
  <2>6. /\ type \in ElementTypes /\ item.elements \in Seq(Seq(Byte))
        /\ IsU32(Len(item.elements))
        /\ \A i \in DOMAIN item.elements : IsValue(type, item.elements[i])
    BY <1>1, ItemFields DEF type
  <2>7. w \in SoundIn("bytes")
    BY <2>1
  <2>8. ItemTaken(r, s, v, item.elements)
    BY <2>1, <2>3, <2>4, <2>5, <2>6, <2>7, ArrayBack
  <2> QED  BY <2>8 DEF v, s
<1>2. CASE ~item.array
  <2> DEFINE value == item.elements[1]
             u == ReadValue(r, type)
  <2>1. v = WriteValue(w, type, value) /\ s = [u EXCEPT !.got = <<@>>]
    BY <1>2 DEF WriteItem, ReadItem
  <2>2. TagOf(item) = ToValue(type, FALSE)
    BY <1>2, ItemFields DEF TagOf
  <2>3. AwaitsTyped(r, w, type)
    <3>1. w.checked => Awaits(r, w, ToValue(type, FALSE))
      BY <2>2 DEF AtItem, Awaits
    <3>2. ~w.checked => r.cached = None /\ Follows(r, w)
      BY DEF AtItem
    <3> QED  BY <3>1, <3>2 DEF AwaitsTyped
  <2> HIDE DEF v, s, type, value
  <2>4. type \in Types /\ value \in Seq(Byte) /\ IsValue(type, value) /\ item.elements = <<value>>
    BY <1>2, ItemFields DEF type, value
  <2>5. Holds(r.buf, ones, WriteValue(w, type, value))
    BY <2>1 DEF v
  <2>6. Taken(r, u, v, value)
    BY <2>1, <2>3, <2>4, <2>5, ValueBack
  <2> HIDE DEF u
  <2>7. u \in Reader /\ u.ok = TRUE /\ SoundReader(u)
    BY <2>6, ReaderFields DEF Taken, Follows
  <2>8. s.ok = TRUE /\ s.got = <<u.got>> /\ Ready(s) = Ready(u)
    BY <2>1, <2>7 DEF Ready, Reader
  <2>9. Follows(Ready(u), v) /\ Ready(u).buf = r.buf /\ Ready(u).cached = None
    BY <2>6, <2>7, ReadyFields DEF Taken, Follows, Same
  <2>10. s.got = item.elements
    BY <2>4, <2>6, <2>8 DEF Taken
  <2>11. ItemTaken(r, s, v, item.elements)
    BY <2>8, <2>9, <2>10 DEF ItemTaken
  <2> QED  BY <2>11 DEF v, s
<1>3. item.array \in BOOLEAN
  BY ItemFields
<1> QED  BY <1>1, <1>2, <1>3

-----------------------------------------------------------------------------
(* What is not there is refused                                             *)

(* What follows a call that failed does nothing.                            *)
LEMMA StaysRefused ==
  ASSUME NEW f, Refused(f)
  PROVE  /\ \A n : ReadBits(f, n) = f /\ ReadBytes(f, n) = f
         /\ \A tag : Expect(f, tag) = f
         /\ \A type : Checked(f, type) = f
<1>1. f.ok = FALSE /\ f.cached = None
  BY DEF Refused
<1>2. \A n : ReadBits(f, n) = f
  BY <1>1 DEF ReadBits
<1>3. \A n : ReadBytes(f, n) = f
  BY <1>1 DEF ReadBytes
<1>4. ReadDataType(f) = f
  BY <1>1, <1>2, <1>3 DEF ReadDataType
<1>5. \A tag : Expect(f, tag) = f
  BY <1>1, <1>4 DEF Expect
<1>6. \A type : Checked(f, type) = f
  BY <1>5 DEF Checked
<1> QED  BY <1>2, <1>3, <1>5, <1>6

(* A reader that a handler gave up                                          *)
Left(q) == /\ q \in Reader /\ q.ok = FALSE /\ q.pos <= Len(q.buf) /\ q.got = <<>>

(* A reader that failed is left as it is by a handler that gives up.        *)
LEMMA LeftReady ==
  ASSUME NEW f, f \in Reader, f.ok = FALSE, f.pos <= Len(f.buf)
  PROVE  Left(Ready(f))
<1> DEFINE q == Ready(f)
           got == <<>>
<1>1. q = [f EXCEPT !.got = got] /\ got \in Seq(Byte)
  BY DEF Ready
<1> HIDE DEF q, got
<1>2. q \in Reader
  BY <1>1 DEF Reader
<1>3. q.ok = FALSE /\ q.pos = f.pos /\ q.buf = f.buf /\ q.got = got
  BY <1>1 DEF Reader
<1> QED  BY <1>2, <1>3 DEF Left, q, got

(* Whatever is expected fails with its type.                                *)
LEMMA ItemRefused ==
  ASSUME NEW r, SoundReader(r), r.checked = TRUE, NEW type, NEW array \in BOOLEAN,
         Refused(Expect(r, ToValue(type, array)))
  PROVE  Left(Ready(ReadItem(r, type, array)))
<1> DEFINE f == Expect(r, ToValue(type, array))
           s == ReadItem(r, type, array)
<1>0. r \in Reader /\ r.pos <= Len(r.buf)
  BY ReaderFields
<1>1. CASE array
  <2>1. s = ReadArray(r, type)
    BY <1>1 DEF ReadItem
  <2> DEFINE size == ReadArrayNumElements(Expect(r, ToValue(type, TRUE)))
  <2>2. size = f
    <3>1. Expect(r, ToValue(type, TRUE)) = f
      BY <1>1
    <3> HIDE DEF f
    <3>2. Refused(f)
      BY DEF f
    <3>3. ReadArrayNumElements(f) = f
      BY <3>2, StaysRefused DEF ReadArrayNumElements
    <3> QED  BY <3>1, <3>3
  <2>3. Refused(size)
    BY <2>2
  <2> HIDE DEF f, size
  <2>4. ReadArray(r, type) = IF r.mode = "bits" THEN Fail(r) ELSE size
    BY <2>3 DEF ReadArray, size, Refused
  <2>5. Fail(r) \in Reader /\ Fail(r).ok = FALSE /\ Fail(r).pos <= Len(Fail(r).buf)
    BY <1>0 DEF Fail, Reader
  <2> HIDE DEF s
  <2>6. s \in Reader /\ s.ok = FALSE /\ s.pos <= Len(s.buf)
    BY <2>1, <2>3, <2>4, <2>5 DEF Refused
  <2> QED  BY <2>6, LeftReady DEF s
<1>2. CASE ~array
  <2> DEFINE u == ReadValue(r, type)
  <2>1. s = [u EXCEPT !.got = <<@>>]
    BY <1>2 DEF ReadItem
  <2>2. Checked(r, type) = f /\ Refused(f)
    BY <1>2 DEF Checked
  <2> HIDE DEF f
  <2>4. \A t : t = type => ReadScalar(r, t) = f
    BY <2>2, StaysRefused DEF ReadScalar
  <2>5. type = "str" => ReadStr(r) = f
    BY <2>2 DEF ReadStr, Refused
  <2>6. type = "blob" => ReadBlob(r) = f
    <3>1. ReadScalar(f, "u32") = f
      BY <2>2, StaysRefused DEF ReadScalar
    <3>2. f.ok = FALSE
      BY <2>2 DEF Refused
    <3> QED  BY <2>2, <3>1, <3>2 DEF ReadBlob
  <2>7. type = "bool" => ReadBool(r) = f
    BY <2>2, StaysRefused DEF ReadBool
  <2>8. u = f
    BY <2>4, <2>5, <2>6, <2>7 DEF ReadValue
  <2> HIDE DEF s, u
  <2>9. Ready(s) = Ready(f)
    BY <2>1, <2>2, <2>8 DEF Ready, Reader, Refused
  <2>10. Left(Ready(f))
    BY <2>2, LeftReady DEF Refused
  <2> QED  BY <2>9, <2>10 DEF s
<1> QED  BY <1>1, <1>2

-----------------------------------------------------------------------------
(* Looking at the type that comes next                                      *)

(* What a look at the next type leaves of the reader                        *)
Looked(r) == [NextDataType(r) EXCEPT !.ok = TRUE, !.got = <<>>]

(* A reader that keeps a type it has read                                   *)
LEMMA CachedFields ==
  ASSUME NEW u \in Reader, NEW tag \in Nat
  PROVE  LET q == [u EXCEPT !.cached = tag, !.got = <<>>]
         IN  /\ q \in Reader /\ q.ok = u.ok /\ q.got = <<>> /\ q.cached = tag
             /\ q.buf = u.buf /\ q.mode = u.mode /\ q.checked = u.checked
             /\ q.pos = u.pos /\ q.bit_offset = u.bit_offset /\ q.last_byte = u.last_byte
<1> DEFINE got == <<>>
           q == [u EXCEPT !.cached = tag, !.got = got]
<1>1. got \in Seq(Byte)
  OBVIOUS
<1> HIDE DEF got
<1>2. /\ q.ok = u.ok /\ q.got = got /\ q.cached = tag
      /\ q.buf = u.buf /\ q.mode = u.mode /\ q.checked = u.checked
      /\ q.pos = u.pos /\ q.bit_offset = u.bit_offset /\ q.last_byte = u.last_byte
  BY DEF Reader
<1>3. q \in Reader
  BY <1>1 DEF Reader
<1> QED  BY <1>2, <1>3 DEF got

(* Before an item, next_is sees its type, and leaves the reader there.      *)
LEMMA ItemSeen ==
  ASSUME NEW mode \in Modes, NEW w \in SoundIn(mode), NEW item \in Items,
         item.array => mode = "bytes", NEW r, AtItem(r, w, item), r.got = <<>>,
         r.checked = w.checked,
         NEW ones, w.checked => Holds(r.buf, ones, WriteDataType(w, TagOf(item)))
  PROVE  /\ AtItem(Looked(r), w, item) /\ Looked(r).buf = r.buf
         /\ Looked(r).got = <<>> /\ Looked(r).checked = w.checked
         /\ w.checked => /\ NextDataType(r).ok = TRUE
                         /\ NextDataType(r).got = <<ByteOf(TagOf(item))>>
<1> DEFINE tag == TagOf(item)
           v == WriteDataType(w, tag)
           s == NextDataType(r)
           q == Looked(r)
<1>1. TagFits(mode, tag)
  BY ItemFields, TagsFit DEF TagOf
<1>2. v.checked = w.checked
  BY TypeAfter DEF After, Grown
<1> HIDE DEF v, tag
<1>3. r \in Reader /\ r.ok = TRUE
  BY ReaderFields DEF AtItem, Follows, v
<1>4. CASE ~w.checked
  <2> DEFINE got == <<ByteOf(NoType)>>
  <2>1. s = [r EXCEPT !.got = got]
    BY <1>4 DEF NextDataType
  <2> HIDE DEF got, s
  <2>2. q = [s EXCEPT !.ok = TRUE, !.got = <<>>]
    BY DEF s, Looked
  <2> HIDE DEF q
  <2>3. q = r
    BY <1>3, <2>1, <2>2 DEF Reader
  <2> QED  BY <1>4, <2>3 DEF q
<1>5. CASE w.checked /\ r.cached # None
  <2> DEFINE got == <<ByteOf(tag)>>
  <2>1. r.cached = tag
    BY <1>5 DEF AtItem, tag
  <2>2. s = [r EXCEPT !.got = got]
    BY <1>5, <2>1 DEF NextDataType
  <2> HIDE DEF got, s
  <2>3. q = [s EXCEPT !.ok = TRUE, !.got = <<>>]
    BY DEF s, Looked
  <2> HIDE DEF q
  <2>4. q = r
    BY <1>3, <2>2, <2>3 DEF Reader
  <2>5. s.ok = TRUE /\ s.got = got
    BY <1>3, <2>2 DEF Reader
  <2> QED  BY <2>4, <2>5 DEF q, s, got, tag
<1>6. CASE w.checked /\ r.cached = None
  <2> DEFINE u == ReadDataType(r)
             got == <<ByteOf(tag)>>
  <2>0. tag \in Nat /\ None \notin Nat /\ NumberOf(ByteOf(tag)) = tag
    <3>1. tag \in 0..255
      BY <1>1 DEF TagFits
    <3>2. NumberOf(ByteOf(tag)) = tag
      BY <3>1, NumberOfByte
    <3>3. tag \in Nat /\ None \notin Nat
      BY <3>1, NoneAssumption
    <3> QED  BY <3>2, <3>3
  <2>1. Follows(r, w)
    BY <1>6, <2>0 DEF AtItem, tag
  <2>2. Taken(r, u, v, got)
    <3>1. Awaits(r, w, tag) /\ Holds(r.buf, ones, WriteDataType(w, tag))
      BY <1>6, <2>1 DEF Awaits, tag
    <3> QED  BY <1>1, <3>1, TypeTaken DEF v
  <2>3. s = [u EXCEPT !.cached = tag]
    <3>1. u.ok = TRUE /\ u.got[1] = ByteOf(tag)
      <4>1. u.got = got /\ got[1] = ByteOf(tag)
        BY <2>2 DEF Taken
      <4>2. SoundReader(u)
        BY <2>2 DEF Taken, Follows
      <4> QED  BY <4>1, <4>2, ReaderFields
    <3>2. s = IF u.ok THEN [u EXCEPT !.cached = NumberOf(u.got[1])] ELSE u
      BY <1>6 DEF NextDataType
    <3> QED  BY <2>0, <3>1, <3>2
  <2> HIDE DEF s, u
  <2>4. q = [s EXCEPT !.ok = TRUE, !.got = <<>>]
    BY DEF s, Looked
  <2> HIDE DEF q
  <2>5. /\ u \in Reader /\ u.ok = TRUE /\ u.got = got /\ Follows(u, v) /\ u.buf = r.buf
        /\ SoundReader(u)
    BY <2>2, ReaderFields DEF Taken, Follows
  <2>6. s.ok = TRUE /\ s.got = got
    <3> HIDE DEF got
    <3> QED  BY <2>3, <2>5 DEF Reader
  <2>7. q = [u EXCEPT !.cached = tag, !.got = <<>>]
    BY <2>3, <2>4, <2>5 DEF Reader
  <2>8. /\ q \in Reader /\ q.ok = TRUE /\ q.got = <<>> /\ q.cached = tag
        /\ q.buf = u.buf /\ q.mode = u.mode /\ q.checked = u.checked
        /\ q.pos = u.pos /\ q.bit_offset = u.bit_offset /\ q.last_byte = u.last_byte
    <3>1. u \in Reader /\ u.ok = TRUE /\ tag \in Nat
      BY <2>0, <2>5
    <3> QED  BY <2>7, <3>1, CachedFields
  <2>9. SoundReader(q) /\ Place(q) = Place(u)
    BY <2>5, <2>8 DEF SoundReader, Place
  <2>10. Follows(q, v)
    BY <2>5, <2>8, <2>9 DEF Follows
  <2>11. AtItem(q, w, item) /\ q.checked = w.checked
    BY <1>2, <1>6, <2>8, <2>10 DEF AtItem, Follows, v, tag
  <2> QED  BY <2>5, <2>6, <2>8, <2>11 DEF q, s, got, tag
<1>7. w.checked \in BOOLEAN
  BY SoundFields
<1> QED  BY <1>4, <1>5, <1>6, <1>7

(* The end of a message: nothing but padding comes, if that                 *)
Ends(buf, ones, w) == /\ Holds(buf, ones, w)
                      /\ 8 * Len(buf) < w.total + 8
                      /\ w.mode = "bytes" => w.total = 8 * Len(buf)
                      /\ \A k \in Nat : k \in ones => k < w.total

(* A reader that is there, which may have looked at the padding             *)
AtLast(r, w) ==
  \/ r.cached = None /\ Follows(r, w)
  \/ /\ w.checked /\ r.cached = 0
     /\ SoundReader(r) /\ Place(r) = w.total + 5
     /\ r.mode = w.mode /\ r.checked = w.checked

(* A type read from there is that of nothing.                               *)
LEMMA PaddingRead ==
  ASSUME NEW mode \in Modes, NEW w \in SoundIn(mode), NEW r, Follows(r, w),
         r.cached = None, r.got = <<>>, NEW ones, Ends(r.buf, ones, w)
  PROVE  LET s == ReadDataType(r)
         IN  \/ s = Fail(r)
             \/ /\ SoundReader(s) /\ Same(r, s) /\ s.got = <<{}>>
                /\ Place(s) = w.total + 5
<1> DEFINE s == ReadDataType(r)
<1>1. /\ r \in Reader /\ r.ok = TRUE /\ r.mode = mode /\ w.mode = mode
      /\ SoundReader(r) /\ Place(r) = w.total /\ w.total \in Nat
      /\ r.buf \in Seq(Byte) /\ Len(r.buf) \in Nat /\ r.pos \in Nat
  BY ReaderFields, SoundFields DEF Follows
<1>2. Written(r.buf, ones)
  BY DEF Ends, Holds
<1>3. CASE mode = "bytes"
  <2> DEFINE full == [r EXCEPT !.pos = Len(r.buf)]
  <2>1. ~(Place(r) + 8 * 1 <= 8 * Len(r.buf)) /\ Place(r) = 8 * Len(r.buf)
    BY <1>1, <1>3 DEF Ends
  <2>2. ReadBytes(r, 1) = Fail(full)
    <3>1. 1 \in Nat
      OBVIOUS
    <3> QED  BY <1>1, <1>2, <1>3, <2>1, <3>1, WholeBytesRead
  <2>3. r.pos = Len(r.buf)
    <3>1. r.bit_offset = 8
      BY <1>1, <1>3 DEF SoundReader
    <3>2. Place(r) = 8 * r.pos - (8 - 8)
      BY <3>1 DEF Place
    <3> DEFINE pos == r.pos
               len == Len(r.buf)
    <3>3. pos \in Nat /\ len \in Nat /\ 8 * len = 8 * pos - (8 - 8)
      BY <1>1, <2>1, <3>2
    <3> HIDE DEF pos, len
    <3>4. pos = len
      BY <3>3
    <3> QED  BY <3>4 DEF pos, len
  <2>4. full = r
    BY <1>1, <2>3 DEF Reader
  <2> HIDE DEF full
  <2>5. ReadBytes(r, 1) = Fail(r) /\ Fail(r).ok = FALSE
    BY <1>1, <2>2, <2>4 DEF Fail, Reader
  <2>6. s = Fail(r)
    BY <1>1, <1>3, <2>5 DEF ReadDataType
  <2> QED  BY <2>6
<1>4. CASE mode = "bits"
  <2> DEFINE u == ReadBits(r, 5)
  <2>1. 5 \in 1..8
    OBVIOUS
  <2>2. s = IF u.ok /\ ~IsType(NumberOf(u.got[1])) THEN Fail(u) ELSE u
    BY <1>1, <1>4 DEF ReadDataType
  <2> HIDE DEF s, u
  <2>3. IF Place(r) + 5 <= 8 * Len(r.buf) THEN TookBits(r, u, ones, 5)
        ELSE u = Fail(Ready(r))
    BY <1>1, <1>2, <1>4, <2>1, BitsRead DEF u
  <2>4. CASE u = Fail(Ready(r))
    <3>1. Ready(r) = r
      BY <1>1 DEF Ready, Reader
    <3>2. u = Fail(r) /\ u.ok = FALSE
      BY <1>1, <2>4, <3>1 DEF Fail, Reader
    <3> QED  BY <2>2, <3>2 DEF s
  <2>5. CASE TookBits(r, u, ones, 5)
    <3>1. BitsAt(ones, Place(r), 5) = {}
      <4>1. \A i \in Low(5) : Place(r) + i \in Nat /\ ~(Place(r) + i < w.total)
        BY <1>1 DEF Low
      <4>2. \A i \in Low(5) : Place(r) + i \notin ones
        BY <4>1 DEF Ends
      <4> QED  BY <4>2 DEF BitsAt
    <3>2. u.got = <<{}>>
      BY <2>5, <3>1 DEF TookBits
    <3>3. NumberOf({}) = 0 /\ IsType(0)
      BY DEF NumberOf, IsType, ARRAY_TYPE_OFFSET
    <3>4. u.got[1] = {}
      BY <3>2
    <3>5. s = u
      BY <2>2, <3>3, <3>4, Zenon
    <3>6. SoundReader(s) /\ Same(r, s) /\ s.got = <<{}>> /\ Place(s) = w.total + 5
      BY <1>1, <2>5, <3>2, <3>5 DEF TookBits
    <3> QED  BY <3>6 DEF s
  <2> QED  BY <2>3, <2>4, <2>5
<1> QED  BY <1>3, <1>4 DEF Modes

(* No type has the number of the padding, 0.                                *)
LEMMA PaddingIsNoType ==
  ASSUME NEW tag \in 1..255
  PROVE  ByteOf(tag) # {} /\ ByteOf(tag) # ByteOf(0) /\ NumberOf({}) = 0
<1>1. NumberOf({}) = 0
  BY DEF NumberOf
<1>2. tag \in 0..255 /\ 0 \in 0..255 /\ tag # 0
  OBVIOUS
<1>3. NumberOf(ByteOf(tag)) = tag
  BY <1>2, NumberOfByte
<1> QED  BY <1>1, <1>2, <1>3, BytesDiffer

(* At the end, next_is sees nothing, and leaves the reader there.           *)
LEMMA EndSeen ==
  ASSUME NEW mode \in Modes, NEW w \in SoundIn(mode), NEW r, AtLast(r, w), r.got = <<>>,
         r.checked = w.checked, NEW ones, Ends(r.buf, ones, w)
  PROVE  /\ AtLast(Looked(r), w) /\ Looked(r).buf = r.buf
         /\ Looked(r).got = <<>> /\ Looked(r).checked = w.checked
         /\ w.checked => \A tag \in 1..255 :
              ~(NextDataType(r).ok /\ NextDataType(r).got = <<ByteOf(tag)>>)
<1> DEFINE s == NextDataType(r)
           q == Looked(r)
<1>1. r \in Reader /\ r.ok = TRUE
  BY ReaderFields DEF AtLast, Follows
<1>2. CASE ~w.checked
  <2> DEFINE got == <<ByteOf(NoType)>>
  <2>1. s = [r EXCEPT !.got = got]
    BY <1>2 DEF NextDataType
  <2> HIDE DEF got, s
  <2>2. q = [s EXCEPT !.ok = TRUE, !.got = <<>>]
    BY DEF s, Looked
  <2> HIDE DEF q
  <2>3. q = r
    BY <1>1, <2>1, <2>2 DEF Reader
  <2> QED  BY <1>2, <2>3 DEF q
<1>3. CASE w.checked /\ r.cached # None
  <2> DEFINE got == <<ByteOf(0)>>
  <2>1. r.cached = 0
    BY <1>3 DEF AtLast
  <2>2. s = [r EXCEPT !.got = got]
    BY <1>3, <2>1 DEF NextDataType
  <2>3. \A tag \in 1..255 : got # <<ByteOf(tag)>>
    BY PaddingIsNoType
  <2> HIDE DEF got, s
  <2>4. q = [s EXCEPT !.ok = TRUE, !.got = <<>>]
    BY DEF s, Looked
  <2> HIDE DEF q
  <2>5. q = r
    BY <1>1, <2>2, <2>4 DEF Reader
  <2>6. s.got = got
    BY <1>1, <2>2 DEF Reader
  <2> QED  BY <2>3, <2>5, <2>6 DEF q, s
<1>4. CASE w.checked /\ r.cached = None
  <2> DEFINE u == ReadDataType(r)
  <2>0. None \notin Nat
    BY NoneAssumption
  <2>1. Follows(r, w)
    BY <1>4, <2>0 DEF AtLast
  <2>2. \/ u = Fail(r)
        \/ SoundReader(u) /\ Same(r, u) /\ u.got = <<{}>> /\ Place(u) = w.total + 5
    BY <1>4, <2>1, PaddingRead
  <2>3. s = IF u.ok THEN [u EXCEPT !.cached = NumberOf(u.got[1])] ELSE u
    BY <1>4 DEF NextDataType
  <2> HIDE DEF s, u
  <2>4. q = [s EXCEPT !.ok = TRUE, !.got = <<>>]
    BY DEF s, Looked
  <2> HIDE DEF q
  <2>5. CASE u = Fail(r)
    <3>1. u.ok = FALSE /\ s = u /\ s.ok = FALSE
      BY <1>1, <2>3, <2>5 DEF Fail, Reader
    <3>2. q = r
      BY <1>1, <2>4, <2>5, <3>1 DEF Fail, Reader
    <3> QED  BY <3>1, <3>2 DEF q, s
  <2>6. CASE SoundReader(u) /\ Same(r, u) /\ u.got = <<{}>> /\ Place(u) = w.total + 5
    <3>1. u \in Reader /\ u.ok = TRUE
      BY <2>6, ReaderFields
    <3>2. NumberOf(u.got[1]) = 0
      <4>1. u.got[1] = {}
        BY <2>6
      <4> QED  BY <4>1, PaddingIsNoType
    <3>3. s = [u EXCEPT !.cached = 0]
      BY <2>3, <3>1, <3>2
    <3>4. q = [u EXCEPT !.cached = 0, !.got = <<>>]
      BY <2>4, <3>1, <3>3 DEF Reader
    <3>5. /\ q \in Reader /\ q.ok = TRUE /\ q.got = <<>> /\ q.cached = 0
          /\ q.buf = u.buf /\ q.mode = u.mode /\ q.checked = u.checked
          /\ q.pos = u.pos /\ q.bit_offset = u.bit_offset /\ q.last_byte = u.last_byte
      BY <3>1, <3>4, CachedFields
    <3>6. SoundReader(q) /\ Place(q) = Place(u)
      BY <2>6, <3>5 DEF SoundReader, Place
    <3>7. q.buf = r.buf /\ q.mode = w.mode /\ q.checked = w.checked
      BY <2>1, <2>6, <3>5 DEF Same, Follows
    <3>8. AtLast(q, w)
      BY <1>4, <2>6, <3>5, <3>6, <3>7 DEF AtLast
    <3>9. \A tag \in 1..255 : s.got # <<ByteOf(tag)>>
      <4>1. s.got = u.got
        BY <3>1, <3>3 DEF Reader
      <4>2. \A tag \in 1..255 : <<{}>> # <<ByteOf(tag)>>
        BY PaddingIsNoType
      <4> QED  BY <2>6, <4>1, <4>2
    <3> QED  BY <3>5, <3>7, <3>8, <3>9 DEF q, s
  <2> QED  BY <2>2, <2>5, <2>6
<1>5. w.checked \in BOOLEAN
  BY SoundFields
<1> QED  BY <1>2, <1>3, <1>4, <1>5

(* And nothing can be read.                                                 *)
LEMMA EndRefused ==
  ASSUME NEW mode \in Modes, NEW w \in SoundIn(mode), NEW r, AtLast(r, w), r.got = <<>>,
         NEW ones, Ends(r.buf, ones, w), NEW tag \in 1..255
  PROVE  Refused(Expect(r, tag))
<1> DEFINE s == ReadDataType(r)
           b == <<ByteOf(tag)>>
<1>1. r \in Reader /\ r.ok = TRUE /\ r.pos <= Len(r.buf)
  BY ReaderFields DEF AtLast, Follows
<1>2. Expect(r, tag) = IF ~s.ok \/ s.got = b THEN s ELSE Fail(s)
  BY DEF Expect
<1>3. <<{}>> # b /\ <<ByteOf(0)>> # b
  BY PaddingIsNoType
<1> HIDE DEF b
<1>4. CASE r.cached # None
  <2> DEFINE got == <<ByteOf(0)>>
  <2>1. r.cached = 0
    BY <1>4 DEF AtLast
  <2>2. s = [r EXCEPT !.cached = None, !.got = got]
    BY <1>4, <2>1 DEF ReadDataType
  <2>3. got \in Seq(Byte)
    BY Encoded
  <2>4. got # b
    BY <1>3
  <2> HIDE DEF got, s
  <2>5. /\ s \in Reader /\ s.ok = TRUE /\ s.got = got /\ s.cached = None
        /\ s.pos <= Len(s.buf)
    BY <1>1, <2>2, <2>3 DEF Reader
  <2>6. Expect(r, tag) = Fail(s)
    BY <1>2, <2>4, <2>5 DEF s
  <2> QED  BY <2>5, <2>6 DEF Refused, Fail, Reader
<1>5. CASE r.cached = None
  <2>0. None \notin Nat
    BY NoneAssumption
  <2>1. Follows(r, w)
    BY <1>5, <2>0 DEF AtLast
  <2>2. \/ s = Fail(r)
        \/ SoundReader(s) /\ Same(r, s) /\ s.got = <<{}>> /\ Place(s) = w.total + 5
    BY <1>5, <2>1, PaddingRead
  <2> HIDE DEF s
  <2>3. CASE s = Fail(r)
    <3>1. s \in Reader /\ s.ok = FALSE /\ s.cached = None /\ s.pos <= Len(s.buf)
      BY <1>1, <1>5, <2>3 DEF Fail, Reader
    <3>2. Expect(r, tag) = s
      BY <1>2, <3>1 DEF s
    <3> QED  BY <3>1, <3>2 DEF Refused
  <2>4. CASE SoundReader(s) /\ Same(r, s) /\ s.got = <<{}>>
    <3>1. s \in Reader /\ s.ok = TRUE /\ s.cached = None /\ s.pos <= Len(s.buf)
      BY <1>5, <2>4, ReaderFields DEF Same
    <3>2. Expect(r, tag) = Fail(s)
      BY <1>2, <1>3, <2>4, <3>1 DEF s
    <3> QED  BY <3>1, <3>2 DEF Refused, Fail, Reader
  <2> QED  BY <2>2, <2>3, <2>4
<1> QED  BY <1>4, <1>5

(* The type before an item is not that of another.                          *)
LEMMA OtherRefused ==
  ASSUME NEW mode \in Modes, NEW w \in SoundIn(mode), w.checked, NEW item \in Items,
         item.array => mode = "bytes", NEW r, AtItem(r, w, item),
         NEW ones, Holds(r.buf, ones, WriteDataType(w, TagOf(item))),
         NEW type \in Types, NEW array \in BOOLEAN,
         <<item.type, item.array>> # <<type, array>>
  PROVE  Refused(Expect(r, ToValue(type, array)))
<1> DEFINE tag == TagOf(item)
           other == ToValue(type, array)
<1>1. TagFits(mode, tag)
  BY ItemFields, TagsFit DEF TagOf
<1>2. other # tag
  BY ItemFields, TagsDiffer DEF TagOf
<1>3. other \in 0..255
  BY TagsAreNumbers DEF ToValue, ARRAY_TYPE_OFFSET
<1>4. Awaits(r, w, tag)
  BY DEF AtItem, Awaits
<1> HIDE DEF tag, other
<1>5. Holds(r.buf, ones, WriteDataType(w, tag))
  BY DEF tag
<1> QED  BY <1>1, <1>2, <1>3, <1>4, <1>5, ExpectRefused DEF other

(* The calls that made a message                                            *)
CheckOn(w, on) ==
  LET u == [w EXCEPT !.checked = on]
      bit == <<IF on THEN ByteOf(1) ELSE {}>>
  IN  IF u.mode = "bits" THEN WriteBits(u, bit, 1) ELSE u

Made(w, call, v) ==
  \/ call = [does |-> "bits"] /\ w.mode = "bytes" /\ v = [w EXCEPT !.mode = "bits"]
  \/ \E on \in BOOLEAN : call = [does |-> "check", on |-> on] /\ v = CheckOn(w, on)
  \/ \E item \in Items : /\ call = [does |-> "item", item |-> item]
                         /\ item.array => w.mode = "bytes"
                         /\ v = WriteItem(w, item)

(* What a writer that goes on keeps, also in another mode                   *)
Extends(w, v) == /\ w.total <= v.total
                 /\ \A k \in Nat : k < w.total => (k \in v.ones <=> k \in w.ones)

(* Going on is transitive.                                                  *)
LEMMA ExtendsOn ==
  ASSUME NEW u, NEW v, NEW w, Extends(u, v), Extends(v, w),
         u.total \in Nat, v.total \in Nat, w.total \in Nat
  PROVE  Extends(u, w)
<1>1. u.total <= w.total
  BY DEF Extends
<1>2. \A k \in Nat : k < u.total => k < v.total
  BY DEF Extends
<1> QED  BY <1>1, <1>2 DEF Extends

(* A writer whose type check is set                                         *)
LEMMA CheckFields ==
  ASSUME NEW w, Sound(w), NEW on \in BOOLEAN
  PROVE  LET u == [w EXCEPT !.checked = on]
         IN  /\ Sound(u) /\ u.mode = w.mode /\ u.checked = on
             /\ u.total = w.total /\ u.ones = w.ones
<1> DEFINE u == [w EXCEPT !.checked = on]
<1>1. w \in Writer
  BY Fields
<1>2. /\ u \in Writer /\ u.mode = w.mode /\ u.checked = on /\ u.out = w.out
      /\ u.bit_offset = w.bit_offset /\ u.last_byte = w.last_byte
      /\ u.total = w.total /\ u.ones = w.ones
  BY <1>1 DEF Writer
<1> HIDE DEF u
<1>3. Sound(u)
  BY <1>2 DEF Sound
<1> QED  BY <1>2, <1>3 DEF u

(* In bit mode, the bit that the reader will see is written.                *)
LEMMA CheckWritten ==
  ASSUME NEW w, Sound(w), NEW on \in BOOLEAN
  PROVE  LET u == [w EXCEPT !.checked = on]
             v == CheckOn(w, on)
         IN  /\ v \in SoundIn(w.mode) /\ Extends(w, v) /\ v.checked = on
             /\ w.mode = "bits" => v \in After("bits", u)
<1> DEFINE u == [w EXCEPT !.checked = on]
           v == CheckOn(w, on)
           bit == <<IF on THEN ByteOf(1) ELSE {}>>
<1>1. /\ Sound(u) /\ u.mode = w.mode /\ u.checked = on
      /\ u.total = w.total /\ u.ones = w.ones /\ w.total \in Nat
  BY CheckFields, Fields
<1>2. v = IF u.mode = "bits" THEN WriteBits(u, bit, 1) ELSE u
  BY DEF CheckOn
<1> HIDE DEF u, v, bit
<1>3. u \in SoundIn(w.mode)
  BY <1>1, Fields DEF SoundIn
<1>4. CASE w.mode = "bits"
  <2>1. v \in SoundIn("bits") /\ Grown(u, v)
    <3>1. 1 \in 1..8
      OBVIOUS
    <3>2. BitsPut(u, WriteBits(u, bit, 1), bit[1], 1)
      BY <1>3, <1>4, <3>1, BitsWritten, Zenon
    <3>3. v = WriteBits(u, bit, 1)
      BY <1>1, <1>2, <1>4
    <3> QED  BY <3>2, <3>3, Zenon DEF BitsPut
  <2> QED  BY <1>1, <1>4, <2>1 DEF After, Grown, Extends, u, v
<1>5. CASE w.mode # "bits"
  BY <1>1, <1>2, <1>3, <1>5 DEF Extends, u, v
<1> QED  BY <1>4, <1>5

(* Every call goes on with the message.                                     *)
LEMMA MadeExtends ==
  ASSUME NEW w, Sound(w), NEW call, NEW v, Made(w, call, v)
  PROVE  Sound(v) /\ Extends(w, v)
<1>1. w \in SoundIn(w.mode) /\ w.mode \in Modes /\ w \in Writer /\ w.total \in Nat
  BY Fields DEF SoundIn, Modes
<1>2. CASE w.mode = "bytes" /\ v = [w EXCEPT !.mode = "bits"]
  <2>1. /\ v \in Writer /\ v.mode = "bits" /\ v.out = w.out
        /\ v.bit_offset = w.bit_offset /\ v.last_byte = w.last_byte
        /\ v.total = w.total /\ v.ones = w.ones
    BY <1>1, <1>2 DEF Writer
  <2> QED  BY <1>1, <2>1 DEF Sound, Extends
<1>3. ASSUME NEW on \in BOOLEAN, v = CheckOn(w, on)
      PROVE  Sound(v) /\ Extends(w, v)
  BY <1>3, CheckWritten DEF SoundIn
<1>4. ASSUME NEW item \in Items, item.array => w.mode = "bytes", v = WriteItem(w, item)
      PROVE  Sound(v) /\ Extends(w, v)
  <2>1. v \in After(w.mode, w)
    BY <1>1, <1>4, ItemWritten
  <2> QED  BY <2>1, SoundFields DEF After, Grown, Extends
<1> QED  BY <1>2, <1>3, <1>4 DEF Made

(* A reader that came to where v ended                                      *)
Arrived(r, q, v) == /\ Follows(q, v) /\ q.cached = None /\ q.buf = r.buf /\ q.got = <<>>

(* The reader goes on in bit mode where the writer did.                     *)
LEMMA BitsFollowed ==
  ASSUME NEW w, Sound(w), w.mode = "bytes", NEW r, Follows(r, w), r.cached = None
  PROVE  LET s == [r EXCEPT !.mode = "bits"]
         IN  s.ok = TRUE /\ Arrived(r, Ready(s), [w EXCEPT !.mode = "bits"])
<1> DEFINE s == [r EXCEPT !.mode = "bits"]
           v == [w EXCEPT !.mode = "bits"]
<1>1. w \in Writer /\ r \in Reader /\ r.ok = TRUE /\ SoundReader(r)
  BY Fields, ReaderFields DEF Follows
<1>2. v.mode = "bits" /\ v.checked = w.checked /\ v.total = w.total
  BY <1>1 DEF Writer
<1>3. /\ s \in Reader /\ s.ok = TRUE /\ s.mode = "bits" /\ s.checked = r.checked
      /\ s.cached = None /\ s.buf = r.buf /\ s.pos = r.pos
      /\ s.bit_offset = r.bit_offset /\ s.last_byte = r.last_byte
  BY <1>1 DEF Reader
<1> HIDE DEF s, v
<1>4. SoundReader(s) /\ Place(s) = Place(r)
  BY <1>1, <1>3 DEF SoundReader, Place
<1>5. /\ SoundReader(Ready(s)) /\ Same(s, Ready(s)) /\ Place(Ready(s)) = Place(s)
      /\ Ready(s).got = <<>>
  BY <1>4, ReadyFields
<1>6. Arrived(r, Ready(s), v)
  BY <1>2, <1>3, <1>4, <1>5 DEF Arrived, Follows, Same
<1> QED  BY <1>3, <1>6 DEF s, v

(* A reader whose type check is set                                         *)
LEMMA SetFollows ==
  ASSUME NEW s, SoundReader(s), NEW on \in BOOLEAN
  PROVE  LET q == Ready([s EXCEPT !.checked = on])
         IN  /\ SoundReader(q) /\ Place(q) = Place(s) /\ q.mode = s.mode
             /\ q.checked = on /\ q.cached = s.cached /\ q.buf = s.buf /\ q.got = <<>>
             /\ [s EXCEPT !.checked = on].ok = TRUE
             /\ [s EXCEPT !.checked = on].got = s.got
<1> DEFINE u == [s EXCEPT !.checked = on]
<1>1. s \in Reader /\ s.ok = TRUE
  BY ReaderFields
<1>2. /\ u \in Reader /\ u.ok = TRUE /\ u.mode = s.mode /\ u.checked = on
      /\ u.cached = s.cached /\ u.buf = s.buf /\ u.pos = s.pos /\ u.got = s.got
      /\ u.bit_offset = s.bit_offset /\ u.last_byte = s.last_byte
  BY <1>1 DEF Reader
<1> HIDE DEF u
<1>3. SoundReader(u) /\ Place(u) = Place(s)
  BY <1>2 DEF SoundReader, Place
<1>4. /\ SoundReader(Ready(u)) /\ Same(u, Ready(u))
      /\ Place(Ready(u)) = Place(u) /\ Ready(u).got = <<>>
  BY <1>3, ReadyFields
<1> QED  BY <1>2, <1>3, <1>4 DEF Same, u

(* The bit that tells that types are checked is set.                        *)
LEMMA OneIsSet == ByteOf(1) \cap Low(1) # {}
<1>1. NumberOf(ByteOf(1)) = 1
  BY NumberOfByte
<1>2. 0 \in ByteOf(1)
  BY DEF ByteOf, Bits
<1> QED  BY <1>2 DEF Low

(* The reader takes the bit that says whether types are checked.            *)
LEMMA CheckFollowed ==
  ASSUME NEW w, Sound(w), NEW on \in BOOLEAN, NEW r, Follows(r, w), r.cached = None,
         NEW ones, Holds(r.buf, ones, CheckOn(w, on))
  PROVE  LET s == ReadBits(r, 1)
         IN  /\ w.mode = "bytes" => Arrived(r, Ready([r EXCEPT !.checked = on]), CheckOn(w, on))
             /\ w.mode = "bits" =>
                  /\ SoundReader(s) /\ (s.got # <<{}>>) = on
                  /\ Arrived(r, Ready([s EXCEPT !.checked = on]), CheckOn(w, on))
<1> DEFINE s == ReadBits(r, 1)
           v == CheckOn(w, on)
           u == [w EXCEPT !.checked = on]
           bit == <<IF on THEN ByteOf(1) ELSE {}>>
<1>1. /\ Sound(u) /\ u.mode = w.mode /\ u.checked = on
      /\ u.total = w.total /\ u.ones = w.ones /\ w.total \in Nat
  BY CheckFields, Fields
<1>2. v = IF w.mode = "bits" THEN WriteBits(u, bit, 1) ELSE u
  BY <1>1 DEF CheckOn
<1> HIDE DEF u, v, bit, s
<1>3. SoundReader(r) /\ Place(r) = w.total /\ r.mode = w.mode
  BY DEF Follows
<1>4. CASE w.mode = "bytes"
  <2> DEFINE q == Ready([r EXCEPT !.checked = on])
  <2>1. /\ SoundReader(q) /\ Place(q) = Place(r) /\ q.mode = r.mode
        /\ q.checked = on /\ q.cached = r.cached /\ q.buf = r.buf /\ q.got = <<>>
    BY <1>3, SetFollows
  <2> HIDE DEF q
  <2>2. v = u
    BY <1>2, <1>4
  <2>3. Arrived(r, q, v)
    BY <1>1, <1>3, <2>1, <2>2 DEF Arrived, Follows
  <2> QED  BY <1>4, <2>3 DEF q, v
<1>5. CASE w.mode = "bits"
  <2>1. 1 \in 1..8 /\ u \in SoundIn("bits")
    BY <1>1, <1>5, Fields DEF SoundIn
  <2>2. v = WriteBits(u, bit, 1)
    BY <1>2, <1>5
  <2>3. /\ v \in SoundIn("bits") /\ Grown(u, v) /\ v.total = w.total + 1
        /\ BitsAt(v.ones, w.total, 1) = bit[1] \cap Low(1)
    <3>1. /\ v \in SoundIn("bits") /\ Grown(u, v) /\ v.total = u.total + 1
          /\ BitsAt(v.ones, u.total, 1) = bit[1] \cap Low(1)
      <4>1. BitsPut(u, WriteBits(u, bit, 1), bit[1], 1)
        BY <2>1, BitsWritten, Zenon
      <4> QED  BY <2>2, <4>1, Zenon DEF BitsPut
    <3> QED  BY <1>1, <3>1
  <2>4. Holds(r.buf, ones, v)
    BY DEF v
  <2>5. TookBits(r, s, ones, 1)
    <3>1. Written(r.buf, ones) /\ Place(r) + 1 <= 8 * Len(r.buf)
      BY <1>3, <2>3, <2>4 DEF Holds
    <3> QED  BY <1>3, <1>5, <2>1, <3>1, BitsRead DEF s
  <2>6. s.got = <<bit[1] \cap Low(1)>>
    <3>1. 1 \in 0..8 /\ w.total + 1 <= v.total /\ v.total \in Nat
      BY <1>1, <2>3, SoundFields
    <3>2. BitsAt(ones, w.total, 1) = BitsAt(v.ones, w.total, 1)
      BY <1>1, <2>4, <3>1, HoldsBits
    <3> QED  BY <1>3, <2>3, <2>5, <3>2 DEF TookBits
  <2>7. (s.got # <<{}>>) = on
    <3> DEFINE x == bit[1] \cap Low(1)
    <3>1. CASE on = TRUE
      <4>1. x # {}
        BY <3>1, OneIsSet DEF bit
      <4> HIDE DEF x
      <4>2. <<x>> # <<{}>>
        BY <4>1
      <4>3. s.got # <<{}>>
        BY <2>6, <4>2 DEF x
      <4> QED  BY <3>1, <4>3
    <3>2. CASE on = FALSE
      <4>1. x = {}
        BY <3>2 DEF bit
      <4> HIDE DEF x
      <4>2. s.got = <<{}>>
        BY <2>6, <4>1 DEF x
      <4> QED  BY <3>2, <4>2
    <3> QED  BY <3>1, <3>2
  <2> DEFINE q == Ready([s EXCEPT !.checked = on])
  <2>8. SoundReader(s) /\ Same(r, s) /\ Place(s) = w.total + 1
    BY <1>3, <2>5 DEF TookBits
  <2>9. /\ SoundReader(q) /\ Place(q) = Place(s) /\ q.mode = s.mode
        /\ q.checked = on /\ q.cached = s.cached /\ q.buf = s.buf /\ q.got = <<>>
    BY <2>8, SetFollows
  <2> HIDE DEF q
  <2>10. v.mode = "bits" /\ v.checked = on
    BY <1>1, <1>5, <2>3 DEF Grown
  <2>11. Arrived(r, q, v)
    BY <1>3, <1>5, <2>3, <2>8, <2>9, <2>10 DEF Arrived, Follows, Same
  <2> QED  BY <1>5, <2>7, <2>8, <2>11 DEF q, v, s
<1>6. w.mode = "bytes" \/ w.mode = "bits"
  BY Fields
<1> QED  BY <1>4, <1>5, <1>6

(* What flush adds to a message is padding.                                 *)
LEMMA FlushPads ==
  ASSUME NEW w, Sound(w)
  PROVE  LET v == Flush(w)
         IN  /\ Sound(v) /\ v.ones = w.ones /\ Extends(w, v)
             /\ v.total = 8 * Len(v.out) /\ v.total < w.total + 8
             /\ w.bit_offset = 8 => v.total = w.total
<1> DEFINE v == Flush(w)
<1>1. Sound(v)
  BY FlushKeeps
<1>2. /\ w \in Writer /\ w.bit_offset \in 1..8 /\ w.total \in Nat /\ w.ones \in SUBSET Nat
      /\ w.out \in Seq(Byte)
  BY Fields
<1>3. CASE w.bit_offset = 8
  <2>1. v = w
    BY <1>3 DEF Flush
  <2>2. w.total = 8 * Len(w.out) + 0
    BY <1>3 DEF Sound, Kept
  <2>3. Len(w.out) \in Nat
    BY <1>2
  <2> QED  BY <1>1, <1>2, <2>1, <2>2, <2>3 DEF Extends
<1>4. CASE w.bit_offset # 8
  <2> DEFINE n == 8 - w.bit_offset
             g == Given(w, {}, n)
  <2>1. n \in 1..7 /\ {} \in Byte
    BY <1>2, <1>4 DEF Byte
  <2>2. v = [g EXCEPT !.out = Append(@, w.last_byte), !.bit_offset = 8]
    BY <1>4 DEF Flush
  <2> HIDE DEF v, n
  <2>3. g \in Writer /\ g.ones = Added(w.ones, w.total, {}) /\ g.total = w.total + n
    BY <2>1, GivenFields
  <2> HIDE DEF g
  <2>4. v.ones = g.ones /\ v.total = g.total /\ v.bit_offset = 8
    BY <2>2, <2>3 DEF Writer
  <2>5. Added(w.ones, w.total, {}) = w.ones
    BY DEF Added
  <2>6. v.total = 8 * Len(v.out) + 0
    BY <1>1, <2>4 DEF Sound, Kept, v
  <2>7. Len(v.out) \in Nat
    BY <1>1, Fields DEF v
  <2>8. v.total = 8 * Len(v.out) /\ v.total = w.total + n /\ v.ones = w.ones
    BY <2>3, <2>4, <2>5, <2>6, <2>7
  <2> QED  BY <1>1, <1>2, <1>4, <2>1, <2>8 DEF Extends, v
<1> QED  BY <1>3, <1>4

-----------------------------------------------------------------------------
(* Messages                                                                 *)

Calls == {[does |-> "bits"]} \cup {[does |-> "check", on |-> on] : on \in BOOLEAN}
           \cup {[does |-> "item", item |-> item] : item \in Items}

(* The calls with their writers: ws[k] is the one after k of them, and w    *)
(* has gone on from them all.                                               *)
Composed(ws, calls, w) ==
  /\ calls \in Seq(Calls) /\ ws \in [0..Len(calls) -> Writer] /\ ws[0] = NewWriter
  /\ Sound(w)
  /\ \A k \in 0..Len(calls) : Sound(ws[k]) /\ Extends(ws[k], w)
  /\ \A k \in 1..Len(calls) : Made(ws[k - 1], calls[k], ws[k])

Composing(ws, calls, w) == Composed(ws, calls, w) /\ ws[Len(calls)] = w

(* What makes a writer go on is a call.                                     *)
LEMMA MadeIsCall ==
  ASSUME NEW w, NEW call, NEW v, Made(w, call, v)
  PROVE  call \in Calls
BY DEF Made, Calls

(* A call adds a writer.                                                    *)
LEMMA ComposedOn ==
  ASSUME NEW ws, NEW calls, NEW w, Composing(ws, calls, w),
         NEW call, NEW v, Made(w, call, v)
  PROVE  \E vs : Composing(vs, Append(calls, call), v)
<1> DEFINE n == Len(calls)
           more == Append(calls, call)
           vs == [k \in 0..n + 1 |-> IF k <= n THEN ws[k] ELSE v]
<1>1. calls \in Seq(Calls) /\ call \in Calls /\ n \in Nat
  BY MadeIsCall DEF Composing, Composed
<1>2. /\ more \in Seq(Calls) /\ Len(more) = n + 1 /\ more[n + 1] = call
      /\ \A k \in 1..n : more[k] = calls[k]
  BY <1>1
<1>3. Sound(v) /\ Extends(w, v) /\ Sound(w)
  BY MadeExtends DEF Composing, Composed
<1> HIDE DEF n, more
<1>4. /\ ws \in [0..n -> Writer] /\ ws[0] = NewWriter /\ ws[n] = w
      /\ \A k \in 0..n : Sound(ws[k]) /\ Extends(ws[k], w)
      /\ \A k \in 1..n : Made(ws[k - 1], calls[k], ws[k])
  BY DEF Composing, Composed, n
<1>5. /\ \A k \in 0..n : vs[k] = ws[k]
      /\ vs[n + 1] = v
  <2>1. ~(n + 1 <= n) /\ n + 1 \in 0..n + 1 /\ \A k \in 0..n : k <= n /\ k \in 0..n + 1
    BY <1>1
  <2> QED  BY <2>1
<1>6. vs \in [0..n + 1 -> Writer]
  <2>1. v \in Writer
    BY <1>3, Fields
  <2>2. ASSUME NEW k \in 0..n + 1
        PROVE  (IF k <= n THEN ws[k] ELSE v) \in Writer
    <3>1. k <= n => k \in 0..n
      BY <1>1
    <3> QED  BY <1>4, <2>1, <3>1
  <2> QED  BY <2>2
<1> HIDE DEF vs
<1>7. \A k \in 0..n + 1 : Sound(vs[k]) /\ Extends(vs[k], v)
  <2>1. ASSUME NEW k \in 0..n
        PROVE  Sound(ws[k]) /\ Extends(ws[k], v)
    <3>1. Sound(ws[k]) /\ Extends(ws[k], w)
      BY <1>4
    <3> QED  BY <1>3, <3>1, Fields, ExtendsOn
  <2>2. Extends(v, v)
    BY <1>3, Fields DEF Extends
  <2>3. \A k \in 0..n + 1 : k \in 0..n \/ k = n + 1
    BY <1>1
  <2> QED  BY <1>3, <1>5, <2>1, <2>2, <2>3
<1>8. \A k \in 1..n + 1 : Made(vs[k - 1], more[k], vs[k])
  <2>1. ASSUME NEW k \in 1..n
        PROVE  Made(vs[k - 1], more[k], vs[k])
    <3>1. k - 1 \in 0..n /\ k \in 0..n
      BY <1>1
    <3> QED  BY <1>2, <1>4, <1>5, <3>1
  <2>2. Made(vs[(n + 1) - 1], more[n + 1], vs[n + 1])
    <3>1. (n + 1) - 1 = n /\ n \in 0..n
      BY <1>1
    <3> QED  BY <1>2, <1>4, <1>5, <3>1
  <2>3. \A k \in 1..n + 1 : k \in 1..n \/ k = n + 1
    BY <1>1
  <2> QED  BY <2>1, <2>2, <2>3
<1>9. vs[0] = NewWriter
  <2>1. 0 \in 0..n
    BY <1>1
  <2> QED  BY <1>4, <1>5, <2>1
<1>10. Composing(vs, more, v)
  <2>1. Composed(vs, more, v)
    BY <1>2, <1>3, <1>6, <1>7, <1>8, <1>9 DEF Composed
  <2> QED  BY <1>2, <1>5, <2>1 DEF Composing
<1> QED  BY <1>10 DEF more

Heards == {"bits"} \cup BOOLEAN \cup Seq(Seq(Byte))

(* What reading a call returns                                              *)
Told(call) == CASE call.does = "bits"  -> "bits"
                [] call.does = "check" -> call.on
                [] call.does = "item"  -> call.item.elements

ComingOf(calls, told) == IF Len(told) < Len(calls) THEN calls[Len(told) + 1]
                         ELSE [does |-> "end"]

(* The reader is where w ended: before the call that comes, or at the end   *)
Before(r, call, w) ==
  /\ r.checked = w.checked
  /\ call.does = "end" => AtLast(r, w)
  /\ call.does = "item" => AtItem(r, w, call.item)
  /\ call.does \notin {"end", "item"} => r.cached = None /\ Follows(r, w)

(* The message is read: the reader has followed the first Len(told) calls.  *)
Closed(ws, calls, w, r, told, f) ==
  /\ w = Flush(ws[Len(calls)])
  /\ r \in Reader /\ r.pos <= Len(r.buf) /\ r.got = <<>>
  /\ told \in Seq(Heards) /\ Len(told) <= Len(calls)
  /\ \A k \in 1..Len(told) : told[k] = Told(calls[k])
  /\ f \in {None, "refused"}
  /\ f = None => r.buf = w.out /\ Before(r, ComingOf(calls, told), ws[Len(told)])

(* Where the reader is, with what comes there                               *)
LEMMA ClosedFields ==
  ASSUME NEW ws, NEW calls, NEW w, NEW r, NEW told, NEW f,
         Composed(ws, calls, w), Closed(ws, calls, w, r, told, f)
  PROVE  LET i == Len(told)
             n == Len(calls)
             v == ws[i]
         IN  /\ i \in Nat /\ n \in Nat /\ i <= n
             /\ v \in SoundIn(v.mode) /\ v.mode \in Modes /\ Sound(v) /\ v.checked \in BOOLEAN
             /\ w.out \in Seq(Byte)
             /\ i < n => /\ ComingOf(calls, told) = calls[i + 1] /\ calls[i + 1] \in Calls
                         /\ Made(v, calls[i + 1], ws[i + 1])
                         /\ Holds(w.out, w.ones, ws[i + 1])
             /\ i = n => /\ ComingOf(calls, told) = [does |-> "end"]
                         /\ Ends(w.out, w.ones, v)
<1> DEFINE i == Len(told)
           n == Len(calls)
           v == ws[i]
<1>1. i \in Nat /\ n \in Nat /\ i <= n
  BY DEF Composed, Closed
<1>2. /\ calls \in Seq(Calls) /\ Sound(w) /\ w = Flush(ws[n])
      /\ \A k \in 0..n : Sound(ws[k]) /\ Extends(ws[k], w)
      /\ \A k \in 1..n : Made(ws[k - 1], calls[k], ws[k]) /\ calls[k] \in Calls
  <2>1. /\ calls \in Seq(Calls) /\ Sound(w) /\ w = Flush(ws[n])
        /\ \A k \in 0..n : Sound(ws[k]) /\ Extends(ws[k], w)
        /\ \A k \in 1..n : Made(ws[k - 1], calls[k], ws[k])
    BY DEF Composed, Closed
  <2>2. \A k \in 1..n : calls[k] \in Calls
    BY <2>1
  <2> QED  BY <2>1, <2>2
<1> HIDE DEF n, i
<1>3. Sound(v) /\ i \in 0..n /\ n \in 0..n /\ Sound(ws[n])
  <2>1. i \in 0..n /\ n \in 0..n
    BY <1>1
  <2> QED  BY <1>2, <2>1
<1>4. v \in SoundIn(v.mode) /\ v.mode \in Modes /\ v.checked \in BOOLEAN
  BY <1>3, Fields DEF SoundIn, Modes
<1>5. /\ w.ones = ws[n].ones /\ w.total = 8 * Len(w.out) /\ w.total < ws[n].total + 8
      /\ ws[n].bit_offset = 8 => w.total = ws[n].total
  BY <1>2, <1>3, FlushPads
<1>6. w.out \in Seq(Byte) /\ w.total \in Nat /\ Written(w.out, w.ones)
  BY <1>2, Fields DEF Sound, Kept
<1>7. \A k \in 0..n : Holds(w.out, w.ones, ws[k])
  BY <1>2, <1>5, <1>6 DEF Holds, Extends
<1>8. ASSUME i < n
      PROVE  /\ ComingOf(calls, told) = calls[i + 1] /\ calls[i + 1] \in Calls
             /\ Made(v, calls[i + 1], ws[i + 1])
             /\ Holds(w.out, w.ones, ws[i + 1])
  <2>1. i + 1 \in 1..n /\ i + 1 \in 0..n /\ (i + 1) - 1 = i
    BY <1>1, <1>8
  <2>2. ComingOf(calls, told) = calls[i + 1]
    BY <1>8 DEF ComingOf, i, n
  <2>3. Made(ws[(i + 1) - 1], calls[i + 1], ws[i + 1]) /\ calls[i + 1] \in Calls
    BY <1>2, <2>1
  <2>4. Holds(w.out, w.ones, ws[i + 1])
    BY <1>7, <2>1
  <2> QED  BY <2>1, <2>2, <2>3, <2>4
<1>9. ASSUME i = n
      PROVE  /\ ComingOf(calls, told) = [does |-> "end"]
             /\ Ends(w.out, w.ones, v)
  <2>1. ComingOf(calls, told) = [does |-> "end"]
    <3>1. ~(i < n)
      BY <1>1, <1>9
    <3> QED  BY <3>1 DEF ComingOf, i, n
  <2>2. v = ws[n] /\ Holds(w.out, w.ones, v)
    BY <1>3, <1>7, <1>9
  <2>3. \A k \in Nat : k \in w.ones => k < v.total
    BY <1>3, <1>5, <2>2 DEF Sound, Kept
  <2>4. v.mode = "bytes" => v.total = 8 * Len(w.out)
    <3>1. v.mode = "bytes" => v.bit_offset = 8
      BY <1>3 DEF Sound
    <3> QED  BY <1>5, <2>2, <3>1
  <2>5. 8 * Len(w.out) < v.total + 8
    BY <1>5, <2>2
  <2> QED  BY <2>1, <2>2, <2>3, <2>4, <2>5 DEF Ends
<1> QED  BY <1>1, <1>3, <1>4, <1>6, <1>8, <1>9 DEF i, n, v

(* A call that was followed brings the reader before the next.              *)
LEMMA HearKeeps ==
  ASSUME NEW ws, NEW calls, NEW w, NEW r, NEW told,
         Composed(ws, calls, w), Closed(ws, calls, w, r, told, None),
         Len(told) < Len(calls), NEW q, Arrived(r, q, ws[Len(told) + 1])
  PROVE  Closed(ws, calls, w, q, Append(told, Told(calls[Len(told) + 1])), None)
<1> DEFINE i == Len(told)
           n == Len(calls)
           call == calls[i + 1]
           more == Append(told, Told(call))
           v == ws[i + 1]
<1>1. i \in Nat /\ n \in Nat /\ i < n /\ call \in Calls
  BY ClosedFields
<1>2. Told(call) \in Heards
  <2> HIDE DEF call
  <2>1. CASE call = [does |-> "bits"]
    BY <2>1 DEF Told, Heards
  <2>2. ASSUME NEW on \in BOOLEAN, call = [does |-> "check", on |-> on]
        PROVE  Told(call) \in Heards
    BY <2>2 DEF Told, Heards
  <2>3. ASSUME NEW item \in Items, call = [does |-> "item", item |-> item]
        PROVE  Told(call) \in Heards
    <3>1. Told(call) = item.elements
      BY <2>3 DEF Told
    <3> QED  BY <3>1, ItemFields DEF Heards
  <2> QED  BY <1>1, <2>1, <2>2, <2>3 DEF Calls
<1>3. /\ w = Flush(ws[n]) /\ told \in Seq(Heards) /\ r.buf = w.out
      /\ \A k \in 1..i : told[k] = Told(calls[k])
  BY DEF Closed
<1>4. /\ more \in Seq(Heards) /\ Len(more) = i + 1 /\ more[i + 1] = Told(call)
      /\ \A k \in 1..i : more[k] = told[k]
  BY <1>2, <1>3
<1>5. /\ Follows(q, v) /\ q.cached = None /\ q.buf = r.buf /\ q.got = <<>>
  BY DEF Arrived
<1> HIDE DEF more, n, i, v
<1>6. q \in Reader /\ q.pos <= Len(q.buf)
  BY <1>5, ReaderFields DEF Follows
<1>7. \A c : Before(q, c, v)
  BY <1>5 DEF Before, Follows, AtLast, AtItem
<1>8. \A k \in 1..Len(more) : more[k] = Told(calls[k])
  <2>1. \A k \in 1..(i + 1) : k \in 1..i \/ k = i + 1
    BY <1>1
  <2> QED  BY <1>3, <1>4, <2>1
<1>9. Len(more) <= n /\ ws[Len(more)] = v
  BY <1>1, <1>4 DEF v
<1>10. Closed(ws, calls, w, q, more, None)
  BY <1>3, <1>4, <1>5, <1>6, <1>7, <1>8, <1>9 DEF Closed, n
<1> QED  BY <1>10 DEF more, i

(* As does the reader: what it read is what was told, and is no failure.    *)
LEMMA ItemHeard ==
  ASSUME NEW ws, NEW calls, NEW w, NEW r, NEW told,
         Composed(ws, calls, w), Closed(ws, calls, w, r, told, None),
         ComingOf(calls, told).does = "item"
  PROVE  LET item == ComingOf(calls, told).item
             s == ReadItem(r, item.type, item.array)
         IN  s.ok = TRUE /\ Closed(ws, calls, w, Ready(s), Append(told, s.got), None)
<1> DEFINE i == Len(told)
           call == calls[i + 1]
           v == ws[i]
           item == ComingOf(calls, told).item
           s == ReadItem(r, item.type, item.array)
<1>1. /\ i \in Nat /\ i < Len(calls) /\ ComingOf(calls, told) = call
      /\ Made(v, call, ws[i + 1]) /\ Holds(w.out, w.ones, ws[i + 1])
      /\ v \in SoundIn(v.mode) /\ v.mode \in Modes
  BY ClosedFields
<1>2. item \in Items /\ (item.array => v.mode = "bytes") /\ ws[i + 1] = WriteItem(v, item)
  <2>1. call.does = "item" /\ item = call.item
    BY <1>1
  <2> HIDE DEF call, item, v, i
  <2> QED  BY <1>1, <2>1 DEF Made
<1>3. AtItem(r, v, item) /\ r.buf = w.out
  BY DEF Closed, Before
<1> HIDE DEF item, v
<1>4. ItemTaken(r, s, ws[i + 1], item.elements)
  <2>1. Holds(r.buf, w.ones, WriteItem(v, item))
    BY <1>1, <1>2, <1>3
  <2>2. ItemTaken(r, s, WriteItem(v, item), item.elements)
    BY <1>1, <1>2, <1>3, <2>1, ItemBack
  <2> QED  BY <1>2, <2>2
<1>5. s.got = Told(call)
  BY <1>1, <1>4 DEF ItemTaken, Told, item
<1> HIDE DEF s
<1>6. s.ok = TRUE /\ Arrived(r, Ready(s), ws[Len(told) + 1])
  <2>1. Ready(s).got = <<>>
    <3>1. Follows(Ready(s), ws[i + 1])
      BY <1>4 DEF ItemTaken
    <3>2. Ready(s) \in Reader
      BY <3>1, ReaderFields DEF Follows
    <3>3. Ready(s) = [s EXCEPT !.got = <<>>]
      BY DEF Ready
    <3>4. DOMAIN s = DOMAIN Ready(s)
      BY <3>3
    <3>5. "got" \in DOMAIN s
      BY <3>2, <3>4 DEF Reader
    <3> QED  BY <3>3, <3>5
  <2> QED  BY <1>4, <2>1 DEF ItemTaken, Arrived
<1>7. Closed(ws, calls, w, Ready(s), Append(told, Told(calls[Len(told) + 1])), None)
  BY <1>1, <1>6, HearKeeps
<1> QED  BY <1>5, <1>6, <1>7 DEF s, item

(* The reader goes on in bit mode, or checks types, where the writer did.   *)
LEMMA ModeHeard ==
  ASSUME NEW ws, NEW calls, NEW w, NEW r, NEW told,
         Composed(ws, calls, w), Closed(ws, calls, w, r, told, None),
         ComingOf(calls, told).does = "bits"
  PROVE  LET s == [r EXCEPT !.mode = "bits"]
         IN  s.ok = TRUE /\ Closed(ws, calls, w, Ready(s), Append(told, "bits"), None)
<1> DEFINE i == Len(told)
           call == calls[i + 1]
           v == ws[i]
           s == [r EXCEPT !.mode = "bits"]
<1>1. /\ i \in Nat /\ i < Len(calls) /\ ComingOf(calls, told) = call
      /\ Made(v, call, ws[i + 1]) /\ Sound(v)
  BY ClosedFields
<1>2. v.mode = "bytes" /\ ws[i + 1] = [v EXCEPT !.mode = "bits"] /\ Told(call) = "bits"
  <2>1. call.does = "bits"
    BY <1>1
  <2> HIDE DEF call, v, i
  <2> QED  BY <1>1, <2>1 DEF Made, Told
<1>3. Follows(r, v) /\ r.cached = None
  BY DEF Closed, Before
<1> HIDE DEF v, s
<1>4. s.ok = TRUE /\ Arrived(r, Ready(s), ws[Len(told) + 1])
  <2>1. s.ok = TRUE /\ Arrived(r, Ready(s), [v EXCEPT !.mode = "bits"])
    BY <1>1, <1>2, <1>3, BitsFollowed DEF s
  <2> QED  BY <1>2, <2>1
<1>5. Closed(ws, calls, w, Ready(s), Append(told, Told(calls[Len(told) + 1])), None)
  BY <1>1, <1>4, HearKeeps
<1> QED  BY <1>2, <1>4, <1>5 DEF s

(* A call that sets the type check is followed: in bit mode the reader      *)
(* learns from the message what the writer decided.                         *)
LEMMA CheckHeard ==
  ASSUME NEW ws, NEW calls, NEW w, NEW r, NEW told,
         Composed(ws, calls, w), Closed(ws, calls, w, r, told, None),
         ComingOf(calls, told).does = "check"
  PROVE  LET on == ComingOf(calls, told).on
             bits == ReadBits(r, 1)
             read == bits.got # <<{}>>
             s == IF r.mode = "bytes" THEN [r EXCEPT !.checked = on]
                  ELSE [bits EXCEPT !.checked = read]
         IN  /\ on \in BOOLEAN /\ s.ok = TRUE
             /\ r.mode # "bytes" => read = on
             /\ Closed(ws, calls, w, Ready(s), Append(told, on), None)
<1> DEFINE i == Len(told)
           call == calls[i + 1]
           v == ws[i]
           on == ComingOf(calls, told).on
           bits == ReadBits(r, 1)
           read == bits.got # <<{}>>
           s == IF r.mode = "bytes" THEN [r EXCEPT !.checked = on]
                ELSE [bits EXCEPT !.checked = read]
<1>1. /\ i \in Nat /\ i < Len(calls) /\ ComingOf(calls, told) = call
      /\ Made(v, call, ws[i + 1]) /\ Sound(v) /\ Holds(w.out, w.ones, ws[i + 1])
  BY ClosedFields
<1>2. on \in BOOLEAN /\ ws[i + 1] = CheckOn(v, on) /\ Told(call) = on
  <2>1. call.does = "check" /\ on = call.on
    BY <1>1
  <2> HIDE DEF call, v, i, on
  <2> QED  BY <1>1, <2>1 DEF Made, Told
<1>3. Follows(r, v) /\ r.cached = None /\ r.buf = w.out
  BY DEF Closed, Before
<1> HIDE DEF v, on
<1>4. /\ r.mode = v.mode /\ (v.mode = "bytes" \/ v.mode = "bits")
      /\ SoundReader(r)
  BY <1>1, <1>3, Fields DEF Follows
<1>5. /\ v.mode = "bytes" => Arrived(r, Ready([r EXCEPT !.checked = on]), CheckOn(v, on))
      /\ v.mode = "bits" =>
           /\ SoundReader(bits) /\ read = on
           /\ Arrived(r, Ready([bits EXCEPT !.checked = on]), CheckOn(v, on))
  <2>1. Holds(r.buf, w.ones, CheckOn(v, on))
    BY <1>1, <1>2, <1>3
  <2> QED  BY <1>1, <1>2, <1>3, <2>1, CheckFollowed
<1> HIDE DEF bits
<1>6. r.mode # "bytes" => read = on
  BY <1>4, <1>5
<1>7. Arrived(r, Ready(s), CheckOn(v, on)) /\ s.ok = TRUE
  <2>1. CASE r.mode = "bytes"
    <3>1. s = [r EXCEPT !.checked = on]
      BY <2>1
    <3>2. [r EXCEPT !.checked = on].ok = TRUE
      BY <1>2, <1>4, SetFollows
    <3> QED  BY <1>4, <1>5, <2>1, <3>1, <3>2
  <2>2. CASE r.mode # "bytes"
    <3>1. s = [bits EXCEPT !.checked = on]
      BY <1>6, <2>2
    <3>2. SoundReader(bits)
      BY <1>4, <1>5, <2>2
    <3>3. [bits EXCEPT !.checked = on].ok = TRUE
      BY <1>2, <3>2, SetFollows
    <3> QED  BY <1>4, <1>5, <2>2, <3>1, <3>3
  <2> QED  BY <2>1, <2>2
<1> HIDE DEF s, read
<1>8. Arrived(r, Ready(s), ws[Len(told) + 1])
  BY <1>2, <1>7
<1>9. Closed(ws, calls, w, Ready(s), Append(told, Told(calls[Len(told) + 1])), None)
  BY <1>1, <1>8, HearKeeps
<1> QED  BY <1>2, <1>6, <1>7, <1>9 DEF s, on, bits, read

(* Where types are checked, the type of what comes is in the message.       *)
LEMMA TypeHeld ==
  ASSUME NEW ws, NEW calls, NEW w, NEW r, NEW told,
         Composed(ws, calls, w), Closed(ws, calls, w, r, told, None),
         ComingOf(calls, told).does = "item"
  PROVE  LET item == ComingOf(calls, told).item
             v == ws[Len(told)]
             u == ws[Len(told) + 1]
         IN  /\ item \in Items /\ (item.array => v.mode = "bytes")
             /\ AtItem(r, v, item)
             /\ Len(told) < Len(calls) /\ u = WriteItem(v, item)
             /\ Holds(w.out, w.ones, u) /\ u \in SoundIn(v.mode)
             /\ v.checked => Holds(r.buf, w.ones, WriteDataType(v, TagOf(item)))
<1> DEFINE i == Len(told)
           call == calls[i + 1]
           v == ws[i]
           item == ComingOf(calls, told).item
           u == ws[i + 1]
<1>1. /\ i \in Nat /\ i < Len(calls) /\ ComingOf(calls, told) = call
      /\ Made(v, call, u) /\ Holds(w.out, w.ones, u)
      /\ v \in SoundIn(v.mode) /\ v.mode \in Modes /\ w.out \in Seq(Byte)
  BY ClosedFields
<1>2. item \in Items /\ (item.array => v.mode = "bytes") /\ u = WriteItem(v, item)
  <2>1. call.does = "item" /\ item = call.item
    BY <1>1
  <2> HIDE DEF call, item, v, u, i
  <2> QED  BY <1>1, <2>1 DEF Made
<1>3. AtItem(r, v, item) /\ r.buf = w.out
  BY DEF Closed, Before
<1> HIDE DEF item, v, u
<1> DEFINE t == WriteDataType(v, TagOf(item))
<1>4. u \in After(v.mode, v) /\ (v.checked => u \in After(v.mode, t))
  BY <1>1, <1>2, ItemWritten
<1>5. t \in SoundIn(v.mode)
  BY <1>1, TypeAfter DEF After
<1> HIDE DEF t
<1>6. v.checked => Holds(w.out, w.ones, t)
  BY <1>1, <1>4, <1>5, HoldsBefore
<1> QED  BY <1>1, <1>2, <1>3, <1>4, <1>6 DEF After, t, item, v, u, i

(* A look at the next type leaves the reader before what comes.             *)
LEMMA PeekKeeps ==
  ASSUME NEW ws, NEW calls, NEW w, NEW r, NEW told,
         Composed(ws, calls, w), Closed(ws, calls, w, r, told, None),
         ComingOf(calls, told).does \in {"item", "end"}
  PROVE  Closed(ws, calls, w, Looked(r), told, None)
<1> DEFINE v == ws[Len(told)]
           coming == ComingOf(calls, told)
           q == Looked(r)
<1>1. /\ v \in SoundIn(v.mode) /\ v.mode \in Modes
      /\ r.checked = v.checked /\ r.buf = w.out /\ r.got = <<>> /\ Before(r, coming, v)
  BY ClosedFields DEF Closed, Before
<1>2. /\ q.buf = r.buf /\ q.got = <<>> /\ q \in Reader /\ q.pos <= Len(q.buf)
      /\ Before(q, coming, v)
  <2>1. CASE coming.does = "item"
    <3> DEFINE item == coming.item
    <3>1. /\ item \in Items /\ (item.array => v.mode = "bytes") /\ AtItem(r, v, item)
          /\ v.checked => Holds(r.buf, w.ones, WriteDataType(v, TagOf(item)))
      BY <2>1, TypeHeld
    <3> HIDE DEF item, v
    <3>2. /\ AtItem(q, v, item) /\ q.buf = r.buf /\ q.got = <<>> /\ q.checked = v.checked
      BY <1>1, <3>1, ItemSeen
    <3>3. SoundReader(q)
      BY <3>2 DEF AtItem, Follows
    <3>4. Before(q, coming, v)
      BY <2>1, <3>2 DEF Before, item
    <3> QED  BY <3>2, <3>3, <3>4, ReaderFields DEF v
  <2>2. CASE coming.does = "end"
    <3>1. Len(told) = Len(calls)
      <4>1. /\ Len(told) < Len(calls) => coming \in Calls
            /\ Len(told) \in Nat /\ Len(calls) \in Nat /\ Len(told) <= Len(calls)
        BY ClosedFields
      <4>2. coming \notin Calls
        BY <2>2 DEF Calls
      <4> QED  BY <4>1, <4>2
    <3>2. Ends(r.buf, w.ones, v) /\ AtLast(r, v)
      BY <1>1, <2>2, <3>1, ClosedFields DEF Before
    <3> HIDE DEF v
    <3>3. /\ AtLast(q, v) /\ q.buf = r.buf /\ q.got = <<>> /\ q.checked = v.checked
      BY <1>1, <3>2, EndSeen
    <3>4. SoundReader(q)
      BY <3>3 DEF AtLast, Follows
    <3>5. Before(q, coming, v)
      BY <2>2, <3>3 DEF Before
    <3> QED  BY <3>3, <3>4, <3>5, ReaderFields DEF v
  <2> QED  BY <2>1, <2>2
<1> HIDE DEF q, v, coming
<1> QED  BY <1>1, <1>2 DEF Closed, q, v, coming

(* Another value than what comes                                            *)
Unlike(coming, type, array) ==
  /\ coming.does \in {"item", "end"}
  /\ coming.does = "item" => <<coming.item.type, coming.item.array>> # <<type, array>>

(* Anything but what comes is refused.                                     *)
LEMMA OtherLeft ==
  ASSUME NEW ws, NEW calls, NEW w, NEW r, NEW told,
         Composed(ws, calls, w), Closed(ws, calls, w, r, told, None),
         NEW type \in Types, NEW array \in BOOLEAN, r.checked,
         Unlike(ComingOf(calls, told), type, array),
         NEW s, s = Ready(ReadItem(r, type, array))
  PROVE  s.ok = FALSE /\ Closed(ws, calls, w, s, told, "refused")
<1> DEFINE v == ws[Len(told)]
           coming == ComingOf(calls, told)
           tag == ToValue(type, array)
<1>1. /\ v \in SoundIn(v.mode) /\ v.mode \in Modes
      /\ r.checked = v.checked /\ r.buf = w.out /\ r.got = <<>> /\ Before(r, coming, v)
  BY ClosedFields DEF Closed, Before
<1>2. SoundReader(r) /\ Refused(Expect(r, tag))
  <2>1. CASE coming.does = "item"
    <3> DEFINE item == coming.item
    <3>1. /\ item \in Items /\ (item.array => v.mode = "bytes") /\ AtItem(r, v, item)
          /\ v.checked => Holds(r.buf, w.ones, WriteDataType(v, TagOf(item)))
      BY <2>1, TypeHeld
    <3>2. <<item.type, item.array>> # <<type, array>>
      BY <2>1 DEF Unlike
    <3> HIDE DEF item, v
    <3>3. Refused(Expect(r, ToValue(type, array)))
      BY <1>1, <3>1, <3>2, OtherRefused
    <3>4. SoundReader(r)
      BY <3>1 DEF AtItem, Follows
    <3> QED  BY <3>3, <3>4
  <2>2. CASE coming.does = "end"
    <3>1. Len(told) = Len(calls)
      <4>1. /\ Len(told) < Len(calls) => coming \in Calls
            /\ Len(told) \in Nat /\ Len(calls) \in Nat /\ Len(told) <= Len(calls)
        BY ClosedFields
      <4>2. coming \notin Calls
        BY <2>2 DEF Calls
      <4> QED  BY <4>1, <4>2
    <3>2. Ends(r.buf, w.ones, v) /\ AtLast(r, v)
      BY <1>1, <2>2, <3>1, ClosedFields DEF Before
    <3>3. tag \in 1..255
      BY TagsAreNumbers DEF ToValue, ARRAY_TYPE_OFFSET
    <3> HIDE DEF v, tag
    <3>4. SoundReader(r)
      BY <3>2 DEF AtLast, Follows
    <3> QED  BY <1>1, <3>2, <3>3, <3>4, EndRefused
  <2> QED  BY <2>1, <2>2 DEF Unlike
<1>3. Left(s)
  <2>1. r.checked = TRUE
    BY <1>2, ReaderFields
  <2> QED  BY <1>2, <2>1, ItemRefused
<1>4. Closed(ws, calls, w, s, told, "refused")
  <2>1. "refused" # None
    BY NoneAssumption DEF Failures
  <2> QED  BY <1>3, <2>1 DEF Closed, Left
<1> QED  BY <1>3, <1>4 DEF Left

(* A message that is finished is read from its start.                       *)
LEMMA FinishCloses ==
  ASSUME NEW ws, NEW calls, NEW w, Composed(ws, calls, w), w = ws[Len(calls)]
  PROVE  /\ Composed(ws, calls, Flush(w))
         /\ Closed(ws, calls, Flush(w), NewReader(Flush(w).out), <<>>, None)
<1> DEFINE v == Flush(w)
           r == NewReader(v.out)
           n == Len(calls)
           first == ws[0]
<1>1. /\ calls \in Seq(Calls) /\ n \in Nat /\ ws \in [0..n -> Writer]
      /\ first = NewWriter /\ Sound(w)
      /\ \A k \in 0..n : Sound(ws[k]) /\ Extends(ws[k], w)
      /\ \A k \in 1..n : Made(ws[k - 1], calls[k], ws[k])
  BY DEF Composed
<1> HIDE DEF n
<1>2. Sound(v) /\ Extends(w, v) /\ v.out \in Seq(Byte)
  BY <1>1, FlushPads, Fields
<1> HIDE DEF v
<1>3. \A k \in 0..n : Sound(ws[k]) /\ Extends(ws[k], v)
  <2> SUFFICES ASSUME NEW k \in 0..n PROVE Sound(ws[k]) /\ Extends(ws[k], v)
    OBVIOUS
  <2>1. Sound(ws[k]) /\ Extends(ws[k], w)
    BY <1>1
  <2>2. ws[k].total \in Nat /\ w.total \in Nat /\ v.total \in Nat
    BY <1>1, <1>2, <2>1, Fields
  <2> QED  BY <1>2, <2>1, <2>2, ExtendsOn
<1>4. Composed(ws, calls, v)
  BY <1>1, <1>2, <1>3 DEF Composed, n
<1>5. /\ r \in Reader /\ r.ok = TRUE /\ r.pos = 0 /\ r.bit_offset = 8
      /\ r.mode = "bytes" /\ r.checked = FALSE /\ r.cached = None /\ r.got = <<>>
      /\ r.buf = v.out
  BY <1>2 DEF NewReader, Reader, Byte
<1>6. first.total = 0 /\ first.mode = "bytes" /\ first.checked = FALSE
  BY <1>1 DEF NewWriter
<1> HIDE DEF r, first
<1>7. 0 <= Len(r.buf)
  BY <1>2, <1>5
<1>8. Follows(r, first)
  <2>1. SoundReader(r)
    BY <1>5, <1>7 DEF SoundReader
  <2>2. Place(r) = 8 * 0 - (8 - 8)
    BY <1>5 DEF Place
  <2>3. Place(r) = 0
    BY <2>2
  <2> QED  BY <1>5, <1>6, <2>1, <2>3 DEF Follows
<1>9. \A c : Before(r, c, first)
  BY <1>5, <1>8 DEF Before, AtLast, AtItem, Follows
<1>10. Closed(ws, calls, v, r, <<>>, None)
  <2> DEFINE told == <<>>
  <2>1. told \in Seq(Heards) /\ Len(told) = 0
    OBVIOUS
  <2> HIDE DEF told
  <2>2. Len(told) <= n /\ \A k \in 1..Len(told) : told[k] = Told(calls[k])
    BY <1>1, <2>1
  <2>3. Before(r, ComingOf(calls, told), ws[Len(told)])
    BY <1>9, <2>1 DEF first
  <2>4. v = Flush(ws[n])
    BY DEF v, n
  <2>5. Closed(ws, calls, v, r, told, None)
    BY <1>5, <1>7, <2>1, <2>2, <2>3, <2>4 DEF Closed, n
  <2> QED  BY <2>5 DEF told
<1> QED  BY <1>4, <1>10 DEF r, v

(* A type is preceded by a byte that is not 0.                              *)
LEMMA ToValueIsByte ==
  ASSUME NEW type \in Types, NEW array \in BOOLEAN
  PROVE  /\ ToValue(type, array) \in 1..255 /\ ToValue(type, array) \in 0..255
         /\ ToValue(type, array) \in Nat
<1>1. ToValue(type, array) \in 1..255
  BY TagsAreNumbers DEF ToValue, ARRAY_TYPE_OFFSET
<1>2. \A n \in 1..255 : n \in 0..255 /\ n \in Nat
  OBVIOUS
<1> QED  BY <1>1, <1>2

(* The bits that are left are those after the reader's place.               *)
LEMMA BitsLeft ==
  ASSUME NEW r, SoundReader(r)
  PROVE  /\ Place(r) + RemainingBits(r) = 8 * Len(r.buf)
         /\ Place(r) \in Int /\ RemainingBits(r) \in Int
<1> DEFINE len == Len(r.buf)
           pos == r.pos
           offset == r.bit_offset
<1>1. len \in Nat /\ pos \in Nat /\ offset \in 1..8
  BY ReaderFields
<1>2. Place(r) = 8 * pos - (8 - offset) /\ RemainingBits(r) = 8 * (len - pos) + (8 - offset)
  BY DEF Place, RemainingBits
<1> HIDE DEF len, pos, offset
<1>3. \A place, left : place = 8 * pos - (8 - offset) /\ left = 8 * (len - pos) + (8 - offset) =>
        place + left = 8 * len /\ place \in Int /\ left \in Int
  BY <1>1
<1> QED  BY <1>2, <1>3 DEF len

(* What next_is and the bits that are left say of what comes                *)
Foretold(r, coming) ==
  /\ \A type \in Types :
       NextIs(r, type) <=> /\ coming.does # "end"
                           /\ coming.item.type = type /\ ~coming.item.array
  /\ coming.does = "end" => RemainingBits(r) < 8
  /\ r.cached = None /\ coming.does # "end" /\ coming.item.type \in Scalars =>
       RemainingBits(r) >= 5 + 8 * Size(coming.item.type)

(* Before an item, the type looked up is its own, and as many bits are left *)
(* as a number needs.                                                       *)
LEMMA ItemForetold ==
  ASSUME NEW mode \in Modes, NEW v \in SoundIn(mode), NEW item \in Items,
         item.array => mode = "bytes", NEW r, AtItem(r, v, item), r.got = <<>>,
         r.checked = v.checked, r.checked, NEW ones, Holds(r.buf, ones, WriteItem(v, item)),
         NEW coming, coming = [does |-> "item", item |-> item]
  PROVE  Foretold(r, coming)
<1> DEFINE t == WriteDataType(v, TagOf(item))
           u == WriteItem(v, item)
           s == NextDataType(r)
<1>0. SoundReader(r) /\ r.buf \in Seq(Byte) /\ Len(r.buf) \in Nat
  BY ReaderFields DEF AtItem, Follows
<1>1. v.checked /\ u \in After(mode, t)
  BY ItemWritten
<1>2. t \in SoundIn(mode)
  BY TypeAfter DEF After
<1> HIDE DEF t, u
<1>3. Holds(r.buf, ones, t)
  BY <1>0, <1>1, <1>2, HoldsBefore DEF u
<1>4. s.ok = TRUE /\ s.got = <<ByteOf(TagOf(item))>>
  BY <1>1, <1>3, ItemSeen DEF t
<1>5. ASSUME NEW type \in Types
      PROVE  NextIs(r, type) <=> item.type = type /\ ~item.array
  <2> DEFINE tag == TagOf(item)
             other == ToValue(type, FALSE)
  <2>1. item.type \in Types /\ item.array \in BOOLEAN
    BY ItemFields
  <2>2. tag \in 0..255 /\ other \in 0..255
    BY <2>1, ToValueIsByte DEF TagOf
  <2>3. tag = other <=> item.type = type /\ ~item.array
    BY <2>1, TagsDiffer DEF TagOf
  <2> HIDE DEF s
  <2>4. NextIs(r, type) <=> s.ok /\ s.got = <<ByteOf(other)>>
    BY Zenon DEF NextIs, s, other
  <2> HIDE DEF tag, other
  <2>5. <<ByteOf(tag)>> = <<ByteOf(other)>> <=> tag = other
    BY <2>2, BytesDiffer
  <2> QED  BY <1>4, <2>3, <2>4, <2>5 DEF tag
<1>6. ASSUME r.cached = None, item.type \in Scalars
      PROVE  RemainingBits(r) >= 5 + 8 * Size(item.type)
  <2> DEFINE size == Size(item.type)
             left == RemainingBits(r)
  <2>1. u.total >= v.total + (5 + 8 * size)
    BY <1>1, <1>6, ItemWritten DEF u
  <2>2. u.total <= 8 * Len(r.buf)
    BY DEF Holds, u
  <2>3. Place(r) = v.total
    <3>1. TagOf(item) \in Nat
      BY ItemFields, ToValueIsByte DEF TagOf
    <3>2. r.cached # TagOf(item)
      BY <1>6, <3>1, NoneAssumption
    <3> QED  BY <3>2 DEF AtItem, Follows
  <2>4. v.total + left = 8 * Len(r.buf) /\ left \in Int
    BY <1>0, <2>3, BitsLeft
  <2>5. size \in Nat /\ v.total \in Nat /\ u.total \in Nat
    <3>1. u.total \in Nat /\ v.total \in Nat
      BY <1>1, SoundFields DEF After
    <3> QED  BY <1>6, <3>1 DEF Scalars, Size, IntegerSize, FloatSize
  <2> HIDE DEF size, left
  <2>6. left >= 5 + 8 * size
    BY <1>0, <2>1, <2>2, <2>4, <2>5
  <2> QED  BY <2>6 DEF size, left
<1> QED  BY <1>5, <1>6 DEF Foretold

(* At the end no type is found, and less than a byte is left.               *)
LEMMA EndForetold ==
  ASSUME NEW mode \in Modes, NEW v \in SoundIn(mode), NEW r, AtLast(r, v), r.got = <<>>,
         r.checked = v.checked, r.checked, NEW ones, Ends(r.buf, ones, v),
         NEW coming, coming = [does |-> "end"]
  PROVE  Foretold(r, coming)
<1> DEFINE s == NextDataType(r)
<1>1. v.checked /\ \A tag \in 1..255 : ~(s.ok /\ s.got = <<ByteOf(tag)>>)
  BY EndSeen
<1>2. ASSUME NEW type \in Types
      PROVE  ~NextIs(r, type)
  <2> DEFINE tag == ToValue(type, FALSE)
  <2>1. tag \in 1..255
    BY ToValueIsByte
  <2>2. NextIs(r, type) => s.ok /\ s.got = <<ByteOf(tag)>>
    BY DEF NextIs
  <2> HIDE DEF tag, s
  <2> QED  BY <1>1, <2>1, <2>2
<1>3. RemainingBits(r) < 8
  <2>1. SoundReader(r) /\ Len(r.buf) \in Nat /\ v.total \in Nat
    BY ReaderFields, SoundFields DEF AtLast, Follows
  <2>2. Place(r) = v.total \/ Place(r) = v.total + 5
    BY DEF AtLast, Follows
  <2>3. 8 * Len(r.buf) < v.total + 8
    BY DEF Ends
  <2>4. Place(r) + RemainingBits(r) = 8 * Len(r.buf) /\ RemainingBits(r) \in Int
    BY <2>1, BitsLeft
  <2> QED  BY <2>1, <2>2, <2>3, <2>4
<1> QED  BY <1>2, <1>3 DEF Foretold

-----------------------------------------------------------------------------
(* The state                                                                *)

(* The message is being written.                                            *)
Open(ws, calls, w, r, told, f) ==
  r = None /\ w = ws[Len(calls)] /\ told = <<>> /\ f = None

(* The inductive invariant: the writers after each of the calls, which the  *)
(* reader comes past one by one.                                            *)
Follower ==
  \E ws : /\ Composed(ws, script, writer)
          /\ \/ Open(ws, script, writer, reader, heard, failed)
             \/ Closed(ws, script, writer, reader, heard, failed)

(* The invariant holds of a message that is to be written.                  *)
LEMMA InitFollows == Init => Follower
<1> SUFFICES ASSUME Init PROVE Follower
  OBVIOUS
<1> DEFINE ws == [k \in 0..0 |-> NewWriter]
           calls == <<>>
<1>1. Sound(NewWriter)
  BY NewSound
<1>2. NewWriter \in Writer /\ Extends(NewWriter, NewWriter)
  BY <1>1, Fields DEF Extends
<1>3. calls \in Seq(Calls) /\ Len(calls) = 0 /\ 1..0 = {}
  OBVIOUS
<1> HIDE DEF calls
<1>4. ws \in [0..Len(calls) -> Writer] /\ ws[0] = NewWriter /\ \A k \in 0..0 : ws[k] = NewWriter
  BY <1>2, <1>3
<1> HIDE DEF ws
<1>5. Composed(ws, calls, NewWriter)
  BY <1>1, <1>2, <1>3, <1>4 DEF Composed
<1>6. Open(ws, calls, NewWriter, None, <<>>, None)
  BY <1>3, <1>4 DEF Open
<1> QED  BY <1>5, <1>6 DEF Init, Follower, calls

(* A call to the writer                                                     *)
LEMMA CallFollows ==
  ASSUME Follower, NEW call, NEW w, Call(call, w), Made(writer, call, w)
  PROVE  Follower'
<1>1. /\ reader = None /\ script' = Append(script, call) /\ writer' = w
      /\ reader' = reader /\ heard' = heard /\ failed' = failed
  BY DEF Call
<1>2. PICK ws : /\ Composed(ws, script, writer)
                /\ \/ Open(ws, script, writer, reader, heard, failed)
                   \/ Closed(ws, script, writer, reader, heard, failed)
  BY DEF Follower
<1>3. Open(ws, script, writer, reader, heard, failed)
  BY <1>1, <1>2, NoneAssumption DEF Closed
<1>4. PICK vs : Composing(vs, Append(script, call), w)
  <2>1. Composing(ws, script, writer)
    BY <1>2, <1>3 DEF Open, Composing
  <2> QED  BY <2>1, ComposedOn
<1>5. Composed(vs, script', writer') /\ Open(vs, script', writer', reader', heard', failed')
  BY <1>1, <1>3, <1>4 DEF Open, Composing
<1> QED  BY <1>5 DEF Follower

(* While the message is read                                                *)
LEMMA ReadingIsClosed ==
  ASSUME Follower, Reading
  PROVE  \E ws : /\ Composed(ws, script, writer)
                 /\ Closed(ws, script, writer, reader, heard, None)
BY DEF Follower, Reading, Open

(* What comes next depends on the calls and on how many were followed.      *)
LEMMA ComingIs == Coming = ComingOf(script, heard)
BY DEF Coming, ComingOf

(* Each step of the writer and of the reader                                *)
LEMMA StepFollows == Follower /\ [Next]_vars => Follower'
<1> SUFFICES ASSUME Follower, [Next]_(vars) PROVE Follower'
  OBVIOUS
<1>1. CASE GoOnInBits
  <2>1. /\ Call([does |-> "bits"], [writer EXCEPT !.mode = "bits"])
        /\ Made(writer, [does |-> "bits"], [writer EXCEPT !.mode = "bits"])
    BY <1>1 DEF GoOnInBits, Made
  <2> QED  BY <2>1, CallFollows
<1>2. ASSUME NEW on \in BOOLEAN, CheckTypes(on)
      PROVE  Follower'
  <2>1. /\ Call([does |-> "check", on |-> on], CheckOn(writer, on))
        /\ Made(writer, [does |-> "check", on |-> on], CheckOn(writer, on))
    BY <1>2 DEF CheckTypes, Made, CheckOn
  <2> QED  BY <2>1, CallFollows
<1>3. ASSUME NEW item \in Items, Write(item)
      PROVE  Follower'
  <2>1. /\ Call([does |-> "item", item |-> item], WriteItem(writer, item))
        /\ Made(writer, [does |-> "item", item |-> item], WriteItem(writer, item))
    BY <1>3 DEF Write, Made
  <2> QED  BY <2>1, CallFollows
<1>4. CASE Finish
  <2>1. /\ reader = None /\ writer' = Flush(writer) /\ reader' = NewReader(Flush(writer).out)
        /\ script' = script /\ heard' = heard /\ failed' = failed
    BY <1>4 DEF Finish
  <2>2. PICK ws : /\ Composed(ws, script, writer)
                  /\ Open(ws, script, writer, reader, heard, failed)
    BY <2>1, NoneAssumption DEF Follower, Closed
  <2>3. /\ Composed(ws, script, Flush(writer))
        /\ Closed(ws, script, Flush(writer), NewReader(Flush(writer).out), <<>>, None)
    BY <2>2, FinishCloses DEF Open
  <2>4. heard = <<>> /\ failed = None
    BY <2>2 DEF Open
  <2>5. Composed(ws, script', writer') /\ Closed(ws, script', writer', reader', heard', failed')
    BY <2>1, <2>3, <2>4
  <2> QED  BY <2>5 DEF Follower
<1>5. ASSUME NEW s, NEW value, Hear(s, value), s.ok = TRUE, NEW ws,
             Composed(ws, script, writer),
             Closed(ws, script, writer, Ready(s), Append(heard, value), None)
      PROVE  Follower'
  <2>1. /\ reader' = Ready(s) /\ heard' = Append(heard, value) /\ failed' = None
        /\ writer' = writer /\ script' = script
    BY <1>5 DEF Hear, Ready
  <2>2. Composed(ws, script', writer') /\ Closed(ws, script', writer', reader', heard', failed')
    BY <1>5, <2>1
  <2> QED  BY <2>2 DEF Follower
<1>6. CASE FollowMode
  <2> DEFINE s == [reader EXCEPT !.mode = "bits"]
  <2>1. Reading /\ ComingOf(script, heard).does = "bits" /\ Hear(s, "bits")
    BY <1>6, ComingIs DEF FollowMode, NextDoes
  <2>2. PICK ws : /\ Composed(ws, script, writer)
                  /\ Closed(ws, script, writer, reader, heard, None)
    BY <2>1, ReadingIsClosed
  <2>3. s.ok = TRUE /\ Closed(ws, script, writer, Ready(s), Append(heard, "bits"), None)
    BY <2>1, <2>2, ModeHeard
  <2> HIDE DEF s
  <2> QED  BY <1>5, <2>1, <2>2, <2>3
<1>7. CASE FollowCheck
  <2> DEFINE on == ComingOf(script, heard).on
             bits == ReadBits(reader, 1)
             read == bits.got # <<{}>>
             s == IF reader.mode = "bytes" THEN [reader EXCEPT !.checked = on]
                  ELSE [bits EXCEPT !.checked = read]
  <2>1. /\ Reading /\ ComingOf(script, heard).does = "check"
        /\ reader.mode = "bytes" => Hear(s, on)
        /\ reader.mode # "bytes" => Hear(s, read)
    BY <1>7, ComingIs DEF FollowCheck, NextDoes
  <2>2. PICK ws : /\ Composed(ws, script, writer)
                  /\ Closed(ws, script, writer, reader, heard, None)
    BY <2>1, ReadingIsClosed
  <2>3. /\ s.ok = TRUE /\ (reader.mode # "bytes" => read = on)
        /\ Closed(ws, script, writer, Ready(s), Append(heard, on), None)
    BY <2>1, <2>2, CheckHeard
  <2> HIDE DEF s, on, read
  <2>4. Hear(s, on)
    BY <2>1, <2>3
  <2> QED  BY <1>5, <2>2, <2>3, <2>4
<1>8. CASE ReadNext
  <2> DEFINE item == ComingOf(script, heard).item
             s == ReadItem(reader, item.type, item.array)
  <2>1. Reading /\ ComingOf(script, heard).does = "item" /\ Hear(s, s.got)
    BY <1>8, ComingIs DEF ReadNext, NextDoes
  <2>2. PICK ws : /\ Composed(ws, script, writer)
                  /\ Closed(ws, script, writer, reader, heard, None)
    BY <2>1, ReadingIsClosed
  <2>3. s.ok = TRUE /\ Closed(ws, script, writer, Ready(s), Append(heard, s.got), None)
    BY <2>1, <2>2, ItemHeard
  <2> HIDE DEF s
  <2> QED  BY <1>5, <2>1, <2>2, <2>3
<1>9. ASSUME NEW type \in Types, NEW array \in BOOLEAN,
             ReadOther(type, array)
      PROVE  Follower'
  <2> DEFINE s == Ready(ReadItem(reader, type, array))
  <2>1. /\ Reading /\ reader.checked /\ Unlike(ComingOf(script, heard), type, array)
        /\ reader' = s /\ failed' = IF s.ok THEN "took another" ELSE "refused"
        /\ writer' = writer /\ script' = script /\ heard' = heard
    BY <1>9, ComingIs DEF ReadOther, MayRead, NextDoes, Ready, Unlike
  <2>2. PICK ws : /\ Composed(ws, script, writer)
                  /\ Closed(ws, script, writer, reader, heard, None)
    BY <2>1, ReadingIsClosed
  <2>3. s = Ready(ReadItem(reader, type, array))
    OBVIOUS
  <2> HIDE DEF s
  <2>4. s.ok = FALSE /\ Closed(ws, script, writer, s, heard, "refused")
    BY <2>1, <2>2, <2>3, OtherLeft, Zenon
  <2>5. Composed(ws, script', writer') /\ Closed(ws, script', writer', reader', heard', failed')
    BY <2>1, <2>2, <2>4
  <2> QED  BY <2>5 DEF Follower
<1>10. CASE Peek
  <2>1. /\ Reading /\ ComingOf(script, heard).does \in {"item", "end"}
        /\ reader' = Looked(reader)
        /\ writer' = writer /\ script' = script /\ heard' = heard /\ failed' = failed
    BY <1>10, ComingIs DEF Peek, MayRead, Looked
  <2>2. PICK ws : /\ Composed(ws, script, writer)
                  /\ Closed(ws, script, writer, reader, heard, None)
    BY <2>1, ReadingIsClosed
  <2>3. Closed(ws, script, writer, Looked(reader), heard, None)
    BY <2>1, <2>2, PeekKeeps
  <2>4. failed = None
    BY <2>1 DEF Reading
  <2>5. Composed(ws, script', writer') /\ Closed(ws, script', writer', reader', heard', failed')
    BY <2>1, <2>2, <2>3, <2>4
  <2> QED  BY <2>5 DEF Follower
<1>11. CASE UNCHANGED vars
  BY <1>11 DEF vars, Follower
<1>12. {item.type : item \in Items} \subseteq Types
  BY ItemFields
<1> QED  BY <1>1, <1>2, <1>3, <1>4, <1>6, <1>7, <1>8, <1>9, <1>10, <1>11, <1>12 DEF Next

(* What the invariant says of the state                                     *)
LEMMA FollowerTypes == Follower => TypeOK
<1> SUFFICES ASSUME Follower PROVE TypeOK
  OBVIOUS
<1>1. PICK ws : /\ Composed(ws, script, writer)
                /\ \/ Open(ws, script, writer, reader, heard, failed)
                   \/ Closed(ws, script, writer, reader, heard, failed)
  BY DEF Follower
<1>2. writer.bit_offset \in 1..8 /\ writer.last_byte \in Byte /\ writer.out \in Seq(Byte)
  BY <1>1, Fields DEF Composed
<1>3. reader # None => Closed(ws, script, writer, reader, heard, failed)
  BY <1>1 DEF Open
<1>4. ASSUME NEW r \in Reader, r.pos <= Len(r.buf)
      PROVE  r.bit_offset \in 1..8 /\ r.last_byte \in Byte /\ r.pos \in 0..Len(r.buf)
  <2>1. r.bit_offset \in 1..8 /\ r.last_byte \in Byte /\ r.pos \in Nat /\ r.buf \in Seq(Byte)
    BY DEF Reader
  <2>2. Len(r.buf) \in Nat
    BY <2>1
  <2> QED  BY <1>4, <2>1, <2>2
<1>5. reader # None => /\ reader.bit_offset \in 1..8 /\ reader.last_byte \in Byte
                       /\ reader.pos \in 0..Len(reader.buf) /\ reader.got = <<>>
  BY <1>3, <1>4 DEF Closed
<1>6. failed \in {None} \cup Failures
  BY <1>1 DEF Open, Closed, Failures
<1> QED  BY <1>2, <1>5, <1>6 DEF TypeOK

(* What was heard so far is what was written.                               *)
LEMMA FollowerReads == Follower => ReadsWhatWasWritten
<1> SUFFICES ASSUME Follower PROVE ReadsWhatWasWritten
  OBVIOUS
<1>1. PICK ws : /\ Composed(ws, script, writer)
                /\ \/ Open(ws, script, writer, reader, heard, failed)
                   \/ Closed(ws, script, writer, reader, heard, failed)
  BY DEF Follower
<1>2. failed \in {None, "refused"}
  BY <1>1 DEF Open, Closed
<1>3. failed # "what was written"
  BY <1>2, NoneAssumption DEF Failures
<1>4. \A k \in 1..Len(heard) : heard[k] = Told(script[k])
  <2>1. CASE heard = <<>>
    BY <2>1
  <2>2. CASE heard # <<>>
    BY <1>1, <2>2 DEF Open, Closed
  <2> QED  BY <2>1, <2>2
<1> QED  BY <1>3, <1>4 DEF ReadsWhatWasWritten, Told

(* A reader that went wrong was refused.                                    *)
LEMMA FollowerRefuses == Follower => OtherTypesAreRefused
BY NoneAssumption DEF Follower, Open, Closed, OtherTypesAreRefused, Failures

(* Where types are checked, next_is and the bits that are left tell what    *)
(* comes.                                                                   *)
LEMMA ClosedForetells ==
  ASSUME NEW ws, NEW calls, NEW w, NEW r, NEW told,
         Composed(ws, calls, w), Closed(ws, calls, w, r, told, None),
         ComingOf(calls, told).does \in {"item", "end"}, r.checked
  PROVE  Foretold(r, ComingOf(calls, told))
<1> DEFINE v == ws[Len(told)]
           coming == ComingOf(calls, told)
<1>1. /\ v \in SoundIn(v.mode) /\ v.mode \in Modes
      /\ r.checked = v.checked /\ r.buf = w.out /\ r.got = <<>> /\ Before(r, coming, v)
      /\ Len(told) < Len(calls) => coming \in Calls
      /\ Len(told) \in Nat /\ Len(calls) \in Nat /\ Len(told) <= Len(calls)
  BY ClosedFields DEF Closed, Before
<1>2. CASE coming.does = "item"
  <2> DEFINE item == coming.item
  <2>1. /\ item \in Items /\ (item.array => v.mode = "bytes") /\ AtItem(r, v, item)
        /\ Len(told) < Len(calls) /\ Holds(r.buf, w.ones, WriteItem(v, item))
    BY <1>1, <1>2, TypeHeld
  <2>2. coming = [does |-> "item", item |-> item]
    <3>1. coming \in Calls
      BY <1>1, <2>1
    <3> HIDE DEF coming
    <3> QED  BY <1>2, <3>1 DEF Calls
  <2> HIDE DEF item, v, coming
  <2>3. /\ v \in SoundIn(v.mode) /\ v.mode \in Modes /\ item \in Items
        /\ (item.array => v.mode = "bytes") /\ AtItem(r, v, item) /\ r.got = <<>>
        /\ r.checked = v.checked /\ Holds(r.buf, w.ones, WriteItem(v, item))
    BY <1>1, <2>1
  <2>4. Foretold(r, coming)
    BY <2>2, <2>3, ItemForetold, Zenon
  <2> QED  BY <2>4 DEF coming
<1>3. CASE coming.does = "end"
  <2>1. Len(told) = Len(calls)
    <3>1. coming \notin Calls
      BY <1>3 DEF Calls
    <3> QED  BY <1>1, <3>1
  <2>2. Ends(r.buf, w.ones, v) /\ AtLast(r, v) /\ coming = [does |-> "end"]
    BY <1>1, <1>3, <2>1, ClosedFields DEF Before
  <2> HIDE DEF v, coming
  <2>3. v \in SoundIn(v.mode) /\ v.mode \in Modes /\ r.got = <<>> /\ r.checked = v.checked
    BY <1>1
  <2>4. Foretold(r, coming)
    BY <2>2, <2>3, EndForetold, Zenon
  <2> QED  BY <2>4 DEF coming
<1> QED  BY <1>2, <1>3

(* The invariant tells what comes next.                                     *)
LEMMA FollowerForetells == Follower => ListsEndWhereTheyEnd
<1> SUFFICES ASSUME Follower, MayRead, reader.checked
             PROVE  Foretold(reader, Coming)
  BY DEF ListsEndWhereTheyEnd, Foretold, AtEnd
<1>1. Coming = ComingOf(script, heard) /\ Reading
  BY ComingIs DEF MayRead
<1>2. ComingOf(script, heard).does \in {"item", "end"}
  BY <1>1 DEF MayRead
<1>3. PICK ws : /\ Composed(ws, script, writer)
                /\ Closed(ws, script, writer, reader, heard, None)
  BY <1>1, ReadingIsClosed
<1>4. Foretold(reader, ComingOf(script, heard))
  BY <1>2, <1>3, ClosedForetells
<1> QED  BY <1>1, <1>4

(* The last of the writers is sound.                                        *)
LEMMA FollowerKeepsBits == Follower => WriterKeepsBits
BY SoundKeepsBits DEF Follower, Composed, WriterKeepsBits

(* Offsets, bytes and positions stay in range, whatever is written and      *)
(* however the reader looks around or is refused.                           *)
THEOREM TypesHold == Spec => []TypeOK
BY InitFollows, StepFollows, FollowerTypes, PTL DEF Spec

(* write_bits shifts and masks chunks of values into bytes, in five cases:  *)
(* however the lengths of the values fall across the bytes, those written   *)
(* and the one held back are the bits that were given, in their order - for *)
(* all values of all types, in both modes, with or without types.           *)
THEOREM WriterKeepsAllBits == Spec => []WriterKeepsBits
BY InitFollows, StepFollows, FollowerKeepsBits, PTL DEF Spec

(* Whatever calls wrote a message - values of all types and lengths, arrays *)
(* with any number of elements, the step to bit mode and type checks set    *)
(* anywhere - the same calls read the same values back, with any number of  *)
(* looks at the next type in between, and none of them fails.               *)
THEOREM MessagesComeBack == Spec => []ReadsWhatWasWritten
BY InitFollows, StepFollows, FollowerReads, PTL DEF Spec

(* Where types are checked, reading anything but what comes next fails, in  *)
(* both widths of a type and in the padding that flush added.               *)
THEOREM OthersAreRefused == Spec => []OtherTypesAreRefused
BY InitFollows, StepFollows, FollowerRefuses, PTL DEF Spec

(* next_is and the number of bits that are left, by which lists without a   *)
(* length are read, tell exactly whether another element follows.           *)
THEOREM ListsEnd == Spec => []ListsEndWhereTheyEnd
BY InitFollows, StepFollows, FollowerForetells, PTL DEF Spec
=============================================================================
