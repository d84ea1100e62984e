------------------------- MODULE BlockOption_proofs -------------------------
(***************************************************************************)
(* What the encoders write the decoders read, for every block number, flag *)
(* and size, across the two halves of the library.                         *)
(***************************************************************************)
EXTENDS BlockOption, TLAPS

LEMMA MaxNumBound == MaxNum \in Nat /\ MaxNum < 256 * 4096
BY SMT DEF MaxNum

LEMMA EncodedBytes ==
    ASSUME NEW num \in 0..MaxNum, NEW more \in {0, 1}, NEW x \in 0..7
    PROVE  /\ Encoded(num, more, x) \in Buffers
           /\ Len(Encoded(num, more, x)) \in 1..3
           /\ Encoded(num, more, x)[Len(Encoded(num, more, x))] = (16 * num + 8 * more + x) % 256
<1> DEFINE v == 16 * num + 8 * more + x
<1>1. v \in Nat /\ v < 256 * (256 * 256)
  BY MaxNumBound, SMT
<1>2. CASE num >= 4096
  <2>1. Encoded(num, more, x) = <<(v \div 256) \div 256, (v \div 256) % 256, v % 256>>
    BY <1>2, SMT DEF Encoded
  <2>2. (v \div 256) \div 256 \in Bytes /\ (v \div 256) % 256 \in Bytes /\ v % 256 \in Bytes
    BY <1>1, SMT DEF Bytes
  <2>3. 256 * (256 * ((v \div 256) \div 256) + ((v \div 256) % 256)) + (v % 256) = v
    BY <1>1, SMT
  <2> QED BY <2>1, <2>2, <2>3, SMT DEF Buffers
<1>3. CASE num < 4096 /\ num >= 16
  <2>1. Encoded(num, more, x) = <<v \div 256, v % 256>>
    BY <1>3, SMT DEF Encoded
  <2>2. v \div 256 \in Bytes /\ v % 256 \in Bytes
    BY <1>1, <1>3, SMT DEF Bytes
  <2>3. 256 * (v \div 256) + (v % 256) = v
    BY <1>1, SMT
  <2> QED BY <2>1, <2>2, <2>3, SMT DEF Buffers
<1>4. CASE num < 16
  <2>1. Encoded(num, more, x) = <<v>>
    BY <1>4, MaxNumBound, SMT DEF Encoded
  <2>2. v \in Bytes /\ v % 256 = v
    BY <1>4, SMT DEF Bytes
  <2> QED BY <2>1, <2>2, SMT DEF Buffers
<1> QED BY <1>2, <1>3, <1>4, MaxNumBound, SMT

LEMMA EncodedValue ==
    ASSUME NEW num \in 0..MaxNum, NEW more \in {0, 1}, NEW x \in 0..7
    PROVE  ReadInt32BE(Encoded(num, more, x)) = 16 * num + 8 * more + x
<1> DEFINE v == 16 * num + 8 * more + x
<1>1. v \in Nat /\ v < 256 * (256 * 256)
  BY MaxNumBound, SMT
<1>2. CASE num >= 4096
  <2>1. Encoded(num, more, x) = <<(v \div 256) \div 256, (v \div 256) % 256, v % 256>>
    BY <1>2, SMT DEF Encoded
  <2>2. (v \div 256) \div 256 \in Bytes /\ (v \div 256) % 256 \in Bytes /\ v % 256 \in Bytes
    BY <1>1, SMT DEF Bytes
  <2>3. 256 * (256 * ((v \div 256) \div 256) + ((v \div 256) % 256)) + (v % 256) = v
    BY <1>1, SMT
  <2> QED BY <2>1, <2>2, <2>3, SMT DEF ReadInt32BE
<1>3. CASE num < 4096 /\ num >= 16
  <2>1. Encoded(num, more, x) = <<v \div 256, v % 256>>
    BY <1>3, SMT DEF Encoded
  <2>2. v \div 256 \in Bytes /\ v % 256 \in Bytes
    BY <1>1, <1>3, SMT DEF Bytes
  <2>3. 256 * (v \div 256) + (v % 256) = v
    BY <1>1, SMT
  <2> QED BY <2>1, <2>2, <2>3, SMT DEF ReadInt32BE
<1>4. CASE num < 16
  <2>1. Encoded(num, more, x) = <<v>>
    BY <1>4, MaxNumBound, SMT DEF Encoded
  <2>2. v \in Bytes /\ v % 256 = v
    BY <1>4, SMT DEF Bytes
  <2> QED BY <2>1, <2>2, SMT DEF ReadInt32BE
<1> QED BY <1>2, <1>3, <1>4, MaxNumBound, SMT

LEMMA ParseEncoded ==
    ASSUME NEW num \in 0..MaxNum, NEW more \in {0, 1}, NEW x \in 0..7
    PROVE  /\ ParseBlockOption(Encoded(num, more, x)) = [num |-> num, more |-> more, size |-> x]
           /\ x # 7 => ParseBlock2(Encoded(num, more, x))
                          = [num |-> num, more |-> more, size |-> ExponentToByteSize(x)]
<1>1. PICK v : v = 16 * num + 8 * more + x
  OBVIOUS
<1>2. PICK buf : buf = Encoded(num, more, x)
  OBVIOUS
<1>3. Len(buf) \in 1..3 /\ ReadInt32BE(buf) = v /\ buf[Len(buf)] = v % 256
  <2>1. Len(buf) \in 1..3
    BY <1>2, EncodedBytes, ZenonT(60)
  <2>2. ReadInt32BE(buf) = v
    BY <1>1, <1>2, EncodedValue
  <2>3. buf[Len(buf)] = v % 256
    BY <1>1, <1>2, EncodedBytes, ZenonT(60)
  <2> QED BY <2>1, <2>2, <2>3
<1>4. /\ v \div 16 = num /\ (v \div 8) % 2 = more /\ v % 8 = x
      /\ (v % 256) % 8 = x /\ ((v % 256) \div 8) % 2 = more
  BY <1>1, MaxNumBound, SMT
<1>5. ParseBlockOption(buf) = [num |-> num, more |-> more, size |-> x]
  BY <1>3, <1>4, SMT DEF ParseBlockOption
<1>6. ASSUME x # 7
      PROVE  ParseBlock2(buf) = [num |-> num, more |-> more, size |-> ExponentToByteSize(x)]
  <2>1. buf[Len(buf)] % 8 = x /\ (buf[Len(buf)] \div 8) % 2 = more /\ ReadInt32BE(buf) \div 16 = num
    BY <1>3, <1>4
  <2>2. Len(buf) # 0 /\ ~(Len(buf) > 3) /\ ~(buf[Len(buf)] % 8 = 7)
    BY <1>3, <1>6, <2>1, SMTT(40)
  <2> QED BY <2>1, <2>2 DEF ParseBlock2
<1> QED BY <1>2, <1>5, <1>6

LEMMA ExponentInverse ==
    ASSUME NEW x \in 0..7
    PROVE  /\ ByteSizeToExponent(ExponentToByteSize(x)) = x
           /\ ExponentToByteSize(x) \in Nat \ {0}
<1>1. \A y \in 0..7 : ExponentToByteSize(y) = ExponentToByteSize(x) => y = x
  BY DEF ExponentToByteSize
<1>2. ExponentToByteSize(x) \in Nat \ {0}
  BY DEF ExponentToByteSize
<1> HIDE DEF ExponentToByteSize
<1> QED BY <1>1, <1>2 DEF ByteSizeToExponent

(***************************************************************************)
(* The state SegmentedTransmission writes into Block1 (block.ts) is the    *)
(* one the server reads there, and the client reads in its echo.           *)
(***************************************************************************)
THEOREM Block1RoundTrip ==
    ASSUME NEW b \in Blocks
    PROVE  ParseBlockOption(GenerateBlockOption(b)) = b
<1>1. b.num \in 0..MaxNum /\ b.more \in {0, 1} /\ b.size \in 0..7
  BY DEF Blocks
<1>2. GenerateBlockOption(b) = Encoded(b.num, b.more, b.size)
  BY <1>1, MaxNumBound, SMT DEF GenerateBlockOption
<1>3. b = [num |-> b.num, more |-> b.more, size |-> b.size]
  BY DEF Blocks
<1> QED BY <1>1, <1>2, <1>3, ParseEncoded

(***************************************************************************)
(* The block the server serves is the block the client takes note of, and  *)
(* the block the client asks for next is the one the server serves         *)
(* (helpers.ts).                                                           *)
(***************************************************************************)
THEOREM Block2RoundTrip ==
    ASSUME NEW b \in SizedBlocks
    PROVE  ParseBlock2(CreateBlock2(b)) = b
<1>1. b.num \in 0..MaxNum /\ b.more \in {0, 1}
  BY DEF SizedBlocks
<1>2. PICK x \in 0..6 : b.size = ExponentToByteSize(x)
  <2>1. b.size \in {ExponentToByteSize(x) : x \in 0..6}
    BY SMT DEF SizedBlocks, ExponentToByteSize
  <2> QED BY <2>1
<1>3. CreateBlock2(b) = Encoded(b.num, b.more, x)
  BY <1>1, <1>2, ExponentInverse, MaxNumBound, SMT DEF CreateBlock2
<1>4. b = [num |-> b.num, more |-> b.more, size |-> ExponentToByteSize(x)]
  BY <1>2 DEF SizedBlocks
<1>5. x # 7
  BY SMT
<1>6. ParseBlock2(Encoded(b.num, b.more, x))
        = [num |-> b.num, more |-> b.more, size |-> ExponentToByteSize(x)]
  BY <1>1, <1>5, ParseEncoded
<1> QED BY <1>3, <1>4, <1>6

(***************************************************************************)
(* Either decoder reads the other half's options: the same number and      *)
(* flag, and the size in bytes that the exponent stands for.               *)
(***************************************************************************)
THEOREM DecodersAgree ==
    ASSUME NEW b \in Blocks, b.size # 7
    PROVE  ParseBlock2(GenerateBlockOption(b))
               = [b EXCEPT !.size = ExponentToByteSize(b.size)]
<1>1. b.num \in 0..MaxNum /\ b.more \in {0, 1} /\ b.size \in 0..7
  BY DEF Blocks
<1>2. GenerateBlockOption(b) = Encoded(b.num, b.more, b.size)
  BY <1>1, MaxNumBound, SMT DEF GenerateBlockOption
<1>3. [b EXCEPT !.size = ExponentToByteSize(b.size)]
        = [num |-> b.num, more |-> b.more, size |-> ExponentToByteSize(b.size)]
  BY DEF Blocks
<1> QED BY <1>1, <1>2, <1>3, ParseEncoded
=============================================================================
