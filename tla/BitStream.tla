----------------------------- MODULE BitStream -----------------------------
(***************************************************************************)
(* BdWriter and BdReader (libbitdemon messaging/bd_writer.rs, bd_reader.rs, *)
(* bd_data_type.rs): the encoding of every message.  In byte mode values    *)
(* are whole bytes, in bit mode they follow each other bit by bit, lowest    *)
(* bit first; with type checking every value is preceded by its type, 8 or  *)
(* 5 bits long.  Both sides hold back the bits of an unfinished byte.       *)
(*                                                                         *)
(* A byte is the set of its bits that are one, so | is \cup and the masks   *)
(* and shifts of u8 are what they are in the code.  A value is the sequence *)
(* of its little-endian bytes, a string that of its characters (ASCII, not  *)
(* 0).  read_bits and write_bits work chunk by chunk, of 8 bits or fewer;   *)
(* PutChunk and GetChunk are one iteration each.                            *)
(*                                                                         *)
(* One message is written by any calls, then read.  A message starts in     *)
(* byte mode and may go on in bit mode; no caller goes back.                *)
(*                                                                         *)
(* Definitions marked MUTANT are plausible bugs; see SessionRegistry.       *)
(***************************************************************************)
EXTENDS Integers, Sequences

CONSTANTS
  Items,     \* bound: what is written, [type, array, elements]
  MaxCalls,  \* bound: calls to the writer, besides set_mode
  None

VARIABLES
  writer,  \* BdWriter
  script,  \* history: the calls made to the writer
  reader,  \* BdReader, or None while the message is being written
  heard,   \* history: what the calls to the reader returned
  failed   \* None, or how a call to the reader went wrong or was wrong

vars == <<writer, script, reader, heard, failed>>

ASSUME CallsAssumption == MaxCalls \in Nat

-----------------------------------------------------------------------------
(* Bytes                                                                    *)

Bits == 0..7
Byte == SUBSET Bits

ShiftLeft(byte, n) == {i \in Bits : i - n \in byte}
ShiftRight(byte, n) == {i \in Bits : i + n \in byte}
Low(n) == 0..(n - 1)  \* 0xFF >> (8 - n)

ByteOf(n) == {i \in Bits : (n \div 2^i) % 2 = 1}
LittleEndian(n) == [j \in 1..4 |-> ByteOf((n \div 256^(j - 1)) % 256)]

NumberOf(byte) ==
  LET bit(i) == IF i \in byte THEN 2^i ELSE 0
  IN  bit(0) + bit(1) + bit(2) + bit(3) + bit(4) + bit(5) + bit(6) + bit(7)
FromLittleEndian(bytes) ==
  LET byte(j) == NumberOf(bytes[j]) * 256^(j - 1)
  IN  byte(1) + byte(2) + byte(3) + byte(4)

-----------------------------------------------------------------------------
(* Types                                                                    *)

(* BdDataType, where a read or write function uses it                       *)
Tag == [bool |-> 1, i8 |-> 2, u8 |-> 3, i16 |-> 5, u16 |-> 6, i32 |-> 7,
        u32 |-> 8, i64 |-> 9, u64 |-> 10, f32 |-> 13, f64 |-> 14,
        str |-> 16, blob |-> 19]
Types == DOMAIN Tag

ARRAY_TYPE_OFFSET == 100

(* In bytes                                                                 *)
IntegerSize == [i8 |-> 1, u8 |-> 1, i16 |-> 2, u16 |-> 2, i32 |-> 4,
                u32 |-> 4, i64 |-> 8, u64 |-> 8]
FloatSize == [f32 |-> 4, f64 |-> 8]
Scalars == DOMAIN IntegerSize \cup DOMAIN FloatSize
Size(type) == IF type \in DOMAIN FloatSize THEN FloatSize[type]
              ELSE IntegerSize[type]

ToValue(type, array) == Tag[type] + IF array THEN ARRAY_TYPE_OFFSET ELSE 0

(* What from_value accepts                                                  *)
IsType(value) ==
  (IF value >= ARRAY_TYPE_OFFSET THEN value - ARRAY_TYPE_OFFSET ELSE value)
    \in 0..21 \cup {32}

NoType == 0

(* A length that fits its 32 bits                                           *)
IsU32(n) == n \div 65536 < 65536

(* A value of the type, as the caller gives it.  Strings hold no character   *)
(* 0, which would end them.                                                 *)
IsValue(type, value) ==
  CASE type = "bool" -> value \in {<<{}>>, <<{0}>>}
    [] type = "str"  -> \A i \in DOMAIN value : value[i] # {}
    [] type = "blob" -> IsU32(Len(value))
    [] OTHER         -> Len(value) = Size(type)

(* What can be written: there are arrays of integers and of strings only    *)
ASSUME ItemsAssumption ==
  \A item \in Items :
    /\ item.type \in Types /\ item.array \in BOOLEAN
    /\ item.elements \in Seq(Seq(Byte))
    /\ IF item.array THEN /\ item.type \in DOMAIN IntegerSize \cup {"str"}
                          /\ IsU32(Len(item.elements))
       ELSE Len(item.elements) = 1
    /\ \A i \in DOMAIN item.elements : IsValue(item.type, item.elements[i])

-----------------------------------------------------------------------------
(* BdWriter                                                                 *)

(* ones and total are history: the bits the writer was given so far         *)
NewWriter == [out |-> <<>>, bit_offset |-> 8, last_byte |-> {},
              mode |-> "bytes", checked |-> FALSE, ones |-> {}, total |-> 0]

Given(w, byte, n) == [w EXCEPT !.ones = @ \cup {w.total + i : i \in byte},
                               !.total = @ + n]

(* MUTANT *)
PutChunkShiftedBack(w, byte, in_bits) ==
  LET in_byte == byte \cap Low(in_bits)
      filled == w.last_byte \cup ShiftLeft(in_byte, w.bit_offset)
      end == w.bit_offset + in_bits
      given == Given(w, in_byte, in_bits)
  IN  IF w.bit_offset < 8
      THEN IF end < 8
           THEN [given EXCEPT !.last_byte = filled, !.bit_offset = end]
           ELSE IF end = 8
           THEN [given EXCEPT !.out = Append(@, filled), !.last_byte = {},
                              !.bit_offset = 8]
           ELSE [given EXCEPT
                   !.out = Append(@, filled), !.bit_offset = end - 8,
                   !.last_byte = ShiftRight(in_byte, w.bit_offset)]
      ELSE IF in_bits = 8 THEN [given EXCEPT !.out = Append(@, in_byte)]
      ELSE [given EXCEPT !.last_byte = in_byte, !.bit_offset = in_bits]

(* The chunk fills up the byte that is held back, if there is one (its offset *)
(* is 8 if not), or a part of it                                            *)
PutChunk(w, byte, in_bits) ==
  LET in_byte == byte \cap Low(in_bits)
      filled == w.last_byte \cup ShiftLeft(in_byte, w.bit_offset)
      end == w.bit_offset + in_bits
      given == Given(w, in_byte, in_bits)
  IN  IF w.bit_offset < 8
      THEN IF end < 8
           THEN [given EXCEPT !.last_byte = filled, !.bit_offset = end]
           ELSE IF end = 8
           THEN [given EXCEPT !.out = Append(@, filled), !.last_byte = {},
                              !.bit_offset = 8]
           ELSE [given EXCEPT
                   !.out = Append(@, filled), !.bit_offset = end - 8,
                   !.last_byte = ShiftRight(in_byte, 8 - w.bit_offset)]
      ELSE IF in_bits = 8 THEN [given EXCEPT !.out = Append(@, in_byte)]
      ELSE [given EXCEPT !.last_byte = in_byte, !.bit_offset = in_bits]

Chunks(count) == (count + 7) \div 8

WriteBits(w, bytes, count) ==
  LET n == Chunks(count)
      step[i \in 0..n] ==
        IF i = 0 THEN w
        ELSE PutChunk(step[i - 1], bytes[i], IF i < n THEN 8 ELSE count - 8 * (n - 1))
  IN  step[n]

Flush(w) == IF w.bit_offset = 8 THEN w
            ELSE [Given(w, {}, 8 - w.bit_offset) EXCEPT
                    !.out = Append(@, w.last_byte), !.bit_offset = 8]

PutByte(w, byte) == [Given(w, byte, 8) EXCEPT !.out = Append(@, byte)]

WriteBytes(w, bytes) ==
  LET step[i \in 0..Len(bytes)] ==
        IF i = 0 THEN w ELSE PutByte(step[i - 1], bytes[i])
  IN  IF w.mode = "bits" THEN WriteBits(w, bytes, 8 * Len(bytes))
      ELSE step[Len(bytes)]

WriteDataType(w, tag) == IF w.mode = "bytes" THEN WriteBytes(w, <<ByteOf(tag)>>)
                         ELSE WriteBits(w, <<ByteOf(tag)>>, 5)

Typed(w, type) == IF w.checked THEN WriteDataType(w, ToValue(type, FALSE)) ELSE w

WriteBool(w, value) == IF w.mode = "bytes" THEN WriteBytes(Typed(w, "bool"), value)
                       ELSE WriteBits(Typed(w, "bool"), value, 1)

WriteScalar(w, type, value) == WriteBytes(Typed(w, type), value)

WriteStr(w, value) == WriteBytes(WriteBytes(Typed(w, "str"), value), <<{}>>)

WriteBlob(w, value) ==
  WriteBytes(WriteScalar(Typed(w, "blob"), "u32", LittleEndian(Len(value))), value)

WriteArrayNumElements(w, n) ==
  WriteBytes(WriteBytes(WriteDataType(w, ToValue("u32", FALSE)), LittleEndian(0)),
             LittleEndian(n))

(* In byte mode only; the elements without their types                      *)
Element(type, value) == IF type = "str" THEN Append(value, {}) ELSE value

WriteArray(w, type, values) ==
  LET step[i \in 0..Len(values)] ==
        IF i = 0 THEN WriteArrayNumElements(WriteDataType(w, ToValue(type, TRUE)),
                                            Len(values))
        ELSE WriteBytes(step[i - 1], Element(type, values[i]))
  IN  step[Len(values)]

WriteValue(w, type, value) ==
  CASE type = "bool" -> WriteBool(w, value)
    [] type = "str"  -> WriteStr(w, value)
    [] type = "blob" -> WriteBlob(w, value)
    [] OTHER         -> WriteScalar(w, type, value)

WriteItem(w, item) == IF item.array THEN WriteArray(w, item.type, item.elements)
                      ELSE WriteValue(w, item.type, item.elements[1])

-----------------------------------------------------------------------------
(* BdReader; ok and got are what the last call returned                     *)
Reader == [buf : Seq(Byte), pos : Nat, bit_offset : 1..8, last_byte : Byte,
           cached : {None} \cup Nat, mode : {"bytes", "bits"}, checked : BOOLEAN,
           ok : BOOLEAN, got : Seq(Byte)]

(* How a call to the reader goes wrong, or is wrong                         *)
Failures == {"what was written", "took another", "refused"}

ASSUME NoneAssumption == None \notin Nat \cup Reader \cup Failures

NewReader(buf) == [buf |-> buf, pos |-> 0, bit_offset |-> 8, last_byte |-> {},
                   cached |-> None, mode |-> "bytes", checked |-> FALSE,
                   ok |-> TRUE, got |-> <<>>]

Fail(r) == [r EXCEPT !.ok = FALSE]

(* MUTANT *)
GetChunkWrappingEarly(r, bits_left) ==
  LET two == bits_left > 8 - r.bit_offset
      in_byte2 == r.buf[r.pos + 1]
      last == ShiftRight(r.last_byte, r.bit_offset)
      offset == r.bit_offset + bits_left
  IN  IF two /\ r.pos = Len(r.buf) THEN Fail(r)
      ELSE [r EXCEPT
              !.pos = IF two THEN @ + 1 ELSE @,
              !.last_byte = IF two THEN in_byte2 ELSE @,
              !.bit_offset = IF bits_left >= 8 THEN @
                             ELSE IF offset >= 8 THEN offset - 8 ELSE offset,
              !.got = Append(@, (IF two
                                 THEN last \cup ShiftLeft(in_byte2, 8 - r.bit_offset)
                                 ELSE last) \cap Low(bits_left))]

(* The rest of the last byte, and the next byte if that is not enough       *)
GetChunk(r, bits_left) ==
  LET two == bits_left > 8 - r.bit_offset
      in_byte2 == r.buf[r.pos + 1]
      last == ShiftRight(r.last_byte, r.bit_offset)
      offset == r.bit_offset + bits_left
  IN  IF two /\ r.pos = Len(r.buf) THEN Fail(r)
      ELSE [r EXCEPT
              !.pos = IF two THEN @ + 1 ELSE @,
              !.last_byte = IF two THEN in_byte2 ELSE @,
              !.bit_offset = IF bits_left >= 8 THEN @
                             ELSE IF offset > 8 THEN offset - 8 ELSE offset,
              !.got = Append(@, (IF two
                                 THEN last \cup ShiftLeft(in_byte2, 8 - r.bit_offset)
                                 ELSE last) \cap Low(bits_left))]

(* A call that failed stays failed                                          *)
ReadBits(r, count) ==
  LET n == Chunks(count)
      step[i \in 0..n] ==
        IF i = 0 THEN [r EXCEPT !.got = <<>>]
        ELSE LET before == step[i - 1]
             IN  IF before.ok THEN GetChunk(before, count - 8 * (i - 1)) ELSE before
  IN  IF r.ok THEN step[n] ELSE r

ReadBytes(r, n) ==
  IF ~r.ok THEN r
  ELSE IF r.mode = "bits" THEN ReadBits(r, 8 * n)
  ELSE IF r.pos + n > Len(r.buf) THEN Fail([r EXCEPT !.pos = Len(r.buf)])
  ELSE [r EXCEPT !.pos = @ + n, !.got = SubSeq(r.buf, r.pos + 1, r.pos + n)]

(* read_data_type, and the check that follows it everywhere                 *)
ReadDataType(r) ==
  IF r.cached # None
  THEN [r EXCEPT !.cached = None, !.got = <<ByteOf(r.cached)>>]
  ELSE LET read == IF r.mode = "bytes" THEN ReadBytes(r, 1) ELSE ReadBits(r, 5)
       IN  IF read.ok /\ ~IsType(NumberOf(read.got[1])) THEN Fail(read) ELSE read

(* MUTANT *)
ExpectAnyWidth(r, tag) ==
  LET read == ReadDataType(r)
  IN  IF ~read.ok \/ read.got = <<ByteOf(tag)>>
         \/ read.got = <<ByteOf(tag - 1)>> THEN read ELSE Fail(read)

Expect(r, tag) ==
  LET read == ReadDataType(r)
  IN  IF ~read.ok \/ read.got = <<ByteOf(tag)>> THEN read ELSE Fail(read)

Checked(r, type) == IF r.checked THEN Expect(r, ToValue(type, FALSE)) ELSE r

(* MUTANT *)
NextDataTypeForgotten(r) ==
  IF ~r.checked THEN [r EXCEPT !.got = <<ByteOf(NoType)>>]
  ELSE IF r.cached # None THEN [r EXCEPT !.got = <<ByteOf(r.cached)>>]
  ELSE ReadDataType(r)

NextDataType(r) ==
  IF ~r.checked THEN [r EXCEPT !.got = <<ByteOf(NoType)>>]
  ELSE IF r.cached # None THEN [r EXCEPT !.got = <<ByteOf(r.cached)>>]
  ELSE LET read == ReadDataType(r)
       IN  IF read.ok THEN [read EXCEPT !.cached = NumberOf(read.got[1])] ELSE read

(* next_is_bool to next_is_blob; an error counts as no, as it does for most *)
(* callers                                                                  *)
NextIs(r, type) == LET read == NextDataType(r)
                   IN  read.ok /\ read.got = <<ByteOf(ToValue(type, FALSE))>>

RemainingBits(r) == 8 * (Len(r.buf) - r.pos) + (8 - r.bit_offset)

ReadBool(r) == LET c == Checked(r, "bool")
               IN  IF r.mode = "bytes" THEN ReadBytes(c, 1) ELSE ReadBits(c, 1)

ReadScalar(r, type) == ReadBytes(Checked(r, type), Size(type))

(* Up to the character 0, or to the end in byte mode, with the last         *)
(* character taken for the 0                                                *)
ReadStrBytes(r) ==
  LET ends == {k \in r.pos + 1..Len(r.buf) : r.buf[k] = {}}
      end == IF ends = {} THEN Len(r.buf)
             ELSE CHOOSE k \in ends : \A j \in ends : k <= j
  IN  IF r.ok THEN [r EXCEPT !.pos = end, !.got = SubSeq(r.buf, r.pos + 1, end - 1)]
      ELSE r

ReadStrBits(r) ==
  LET step[k \in 0..Len(r.buf) + 1] ==
        IF k = 0 THEN r ELSE ReadBits(step[k - 1], 8)
      Ends(k) == ~step[k].ok \/ step[k].got = <<{}>>
      end == CHOOSE k \in 1..Len(r.buf) + 1 : Ends(k) /\ \A j \in 1..k - 1 : ~Ends(j)
  IN  [step[end] EXCEPT !.got = [k \in 1..end - 1 |-> step[k].got[1]]]

ReadStr(r) == LET c == Checked(r, "str")
              IN  IF ~c.ok THEN c
                  ELSE IF r.mode = "bits" THEN ReadStrBits(c) ELSE ReadStrBytes(c)

ReadBlob(r) == LET size == ReadScalar(Checked(r, "blob"), "u32")
               IN  IF size.ok THEN ReadBytes(size, FromLittleEndian(size.got)) ELSE size

(* The type, the total size, which is ignored, and the number of elements   *)
ReadArrayNumElements(r) == ReadBytes(ReadBytes(Expect(r, ToValue("u32", FALSE)), 4), 4)

ReadElement(r, type) == IF type = "str" THEN ReadStrBytes(r) ELSE ReadBytes(r, Size(type))

ReadArray(r, type) ==
  LET size == ReadArrayNumElements(Expect(r, ToValue(type, TRUE)))
      n == FromLittleEndian(size.got)
      step[i \in 0..n] == IF i = 0 THEN size ELSE ReadElement(step[i - 1], type)
  IN  IF r.mode = "bits" THEN Fail(r)
      ELSE IF size.ok THEN [step[n] EXCEPT !.got = [i \in 1..n |-> step[i].got]]
      ELSE size

ReadValue(r, type) == CASE type = "bool" -> ReadBool(r)
                        [] type = "str"  -> ReadStr(r)
                        [] type = "blob" -> ReadBlob(r)
                        [] OTHER         -> ReadScalar(r, type)

(* got is the sequence of the elements, of one if this is no array          *)
ReadItem(r, type, array) == IF array THEN ReadArray(r, type)
                            ELSE [ReadValue(r, type) EXCEPT !.got = <<@>>]

-----------------------------------------------------------------------------
(* Writing a message                                                        *)

Init == /\ writer = NewWriter
        /\ script = <<>>
        /\ reader = None
        /\ heard = <<>>
        /\ failed = None

Call(call, w) == /\ reader = None
                 /\ script' = Append(script, call)
                 /\ writer' = w
                 /\ UNCHANGED <<reader, heard, failed>>

MayCall == Len(script) < IF writer.mode = "bits" THEN MaxCalls + 1 ELSE MaxCalls

(* set_mode                                                                 *)
GoOnInBits == /\ writer.mode = "bytes"
              /\ Call([does |-> "bits"], [writer EXCEPT !.mode = "bits"])

(* set_type_checked; in bit mode write_type_checked_bit tells the reader,   *)
(* in byte mode both sides have agreed on it                                *)
CheckTypes(on) ==
  LET w == [writer EXCEPT !.checked = on]
      bit == <<IF on THEN ByteOf(1) ELSE {}>>
  IN  /\ MayCall
      /\ Call([does |-> "check", on |-> on],
              IF w.mode = "bits" THEN WriteBits(w, bit, 1) ELSE w)

(* An array in bit mode is refused                                          *)
Write(item) == /\ MayCall
               /\ item.array => writer.mode = "bytes"
               /\ Call([does |-> "item", item |-> item], WriteItem(writer, item))

(* The writer is dropped, which flushes it                                  *)
Finish == /\ reader = None
          /\ writer' = Flush(writer)
          /\ reader' = NewReader(writer'.out)
          /\ UNCHANGED <<script, heard, failed>>

-----------------------------------------------------------------------------
(* Reading it: what was written comes next, or nothing more                 *)

Reading == reader # None /\ failed = None
Coming == IF Len(heard) < Len(script) THEN script[Len(heard) + 1]
          ELSE [does |-> "end"]
NextDoes(what) == Reading /\ Coming.does = what
AtEnd == Coming.does = "end"
MayRead == Reading /\ Coming.does \in {"item", "end"}

Hear(r, value) == /\ reader' = [r EXCEPT !.got = <<>>]
                  /\ heard' = Append(heard, value)
                  /\ failed' = IF r.ok THEN None ELSE "what was written"
                  /\ UNCHANGED <<writer, script>>

FollowMode == /\ NextDoes("bits")
              /\ Hear([reader EXCEPT !.mode = "bits"], "bits")

(* read_type_checked_bit                                                    *)
FollowCheck ==
  /\ NextDoes("check")
  /\ IF reader.mode = "bytes" THEN Hear([reader EXCEPT !.checked = Coming.on], Coming.on)
     ELSE LET r == ReadBits(reader, 1)
              on == r.got # <<{}>>
          IN  Hear([r EXCEPT !.checked = on], on)

ReadNext == /\ NextDoes("item")
            /\ LET r == ReadItem(reader, Coming.item.type, Coming.item.array)
               IN  Hear(r, r.got)

(* A handler that expects another type                                      *)
ReadOther(type, array) ==
  /\ MayRead /\ reader.checked
  /\ NextDoes("item") => <<Coming.item.type, Coming.item.array>> # <<type, array>>
  /\ reader' = [ReadItem(reader, type, array) EXCEPT !.got = <<>>]
  /\ failed' = IF reader'.ok THEN "took another" ELSE "refused"
  /\ UNCHANGED <<writer, script, heard>>

(* next_is_..., at a value or where there may be one                        *)
Peek == /\ MayRead
        /\ reader' = [NextDataType(reader) EXCEPT !.ok = TRUE, !.got = <<>>]
        /\ UNCHANGED <<writer, script, heard, failed>>

Next == \/ GoOnInBits
        \/ \E on \in BOOLEAN : CheckTypes(on)
        \/ \E item \in Items : Write(item)
        \/ Finish
        \/ FollowMode \/ FollowCheck \/ ReadNext
        \/ \E type \in {item.type : item \in Items}, array \in BOOLEAN :
             ReadOther(type, array)
        \/ Peek

Spec == Init /\ [][Next]_vars

-----------------------------------------------------------------------------
(* Offsets stay within 1..8, 8 for no byte held back, and bytes are bytes.  *)
TypeOK ==
  /\ writer.bit_offset \in 1..8 /\ writer.last_byte \in Byte
  /\ writer.out \in Seq(Byte)
  /\ reader # None => /\ reader.bit_offset \in 1..8
                      /\ reader.last_byte \in Byte
                      /\ reader.pos \in 0..Len(reader.buf)
                      /\ reader.got = <<>>
  /\ failed \in {None} \cup Failures

KeepsBits(w) ==
  LET held == IF w.bit_offset = 8 THEN 0 ELSE w.bit_offset
      n == Len(w.out)
  IN  /\ w.total = 8 * n + held
      /\ \A j \in 1..n, i \in Bits : i \in w.out[j] <=> 8 * (j - 1) + i \in w.ones
      /\ \A i \in Low(held) : i \in w.last_byte <=> 8 * n + i \in w.ones
      /\ held > 0 => w.last_byte \subseteq Low(held)

(* However the lengths of the values fall across the bytes, the bytes       *)
(* written and the byte held back are exactly the bits that were given, in  *)
(* their order, and nothing more.                                           *)
WriterKeepsBits == KeepsBits(writer)

(* Reading with the calls that wrote the message, with any look at the next *)
(* type in between, returns what was written and never fails.               *)
ReadsWhatWasWritten ==
  /\ failed # "what was written"
  /\ \A k \in 1..Len(heard) :
       heard[k] = CASE script[k].does = "bits"  -> "bits"
                    [] script[k].does = "check" -> script[k].on
                    [] script[k].does = "item"  -> script[k].item.elements

(* With type checking, a call for anything but what comes next fails: no    *)
(* value is taken for one of another type, an array for its element, or     *)
(* the padding at the end of the message for a value.                       *)
OtherTypesAreRefused == failed # "took another"

(* Lists that have no length are read while another element seems to follow *)
(* - the next type is its, or as many bits are left as it takes: both say so *)
(* exactly while there is one, also from a type looked up before and in the *)
(* padding.                                                                 *)
ListsEndWhereTheyEnd ==
  MayRead /\ reader.checked =>
    /\ \A type \in Types :
         NextIs(reader, type) <=> /\ ~AtEnd
                                  /\ Coming.item.type = type /\ ~Coming.item.array
    /\ AtEnd => RemainingBits(reader) < 8
    /\ reader.cached = None /\ ~AtEnd /\ Coming.item.type \in Scalars =>
         RemainingBits(reader) >= 5 + 8 * Size(Coming.item.type)
=============================================================================
