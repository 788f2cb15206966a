---------------------------- MODULE MCBitStream ----------------------------
(* Values of every width and kind, with bits at both ends of their bytes;   *)
(* the types left out differ from one of these in their number only.        *)
EXTENDS BitStream

Value(type, value) == [type |-> type, array |-> FALSE, elements |-> <<value>>]
Array(type, values) == [type |-> type, array |-> TRUE, elements |-> values]

A == ByteOf(65)
B == ByteOf(197)

MCItems ==
  {Value("bool", <<{0}>>), Value("u8", <<B>>), Value("i8", <<B>>),
   Value("u16", <<B, A>>), Value("f32", <<{}, B, {7}, A>>),
   Value("u64", [i \in 1..8 |-> IF i = 8 THEN B ELSE {i}]),
   Value("str", <<>>), Value("str", <<A, B>>),
   Value("blob", <<>>), Value("blob", <<B, {}>>),
   Array("u8", <<>>), Array("u16", <<<<B, A>>, <<{}, B>>>>),
   Array("str", <<<<A>>, <<>>>>)}
=============================================================================
