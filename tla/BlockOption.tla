----------------------------- MODULE BlockOption -----------------------------
(***************************************************************************)
(* The Block1 and Block2 options (src/lib/block.ts, src/lib/helpers.ts):   *)
(* a block number of up to 20 bits, a "more" flag and a size exponent in   *)
(* one to three bytes.  The two halves of the library have each their own  *)
(* encoder and decoder: those of block.ts keep the exponent, those of      *)
(* helpers.ts the size in bytes.  A buffer is a sequence of bytes.         *)
(***************************************************************************)
EXTENDS Integers, Sequences

CONSTANT None         \* null, undefined, or an exception

MaxNum == 1048575     \* TwoPowTwenty

Blocks == [num : 0..MaxNum, more : {0, 1}, size : 0..7]
SizedBlocks == [num : 0..MaxNum, more : {0, 1}, size : {16, 32, 64, 128, 256, 512, 1024}]

Bytes == 0..255
Buffers == Seq(Bytes)

\* exponentToByteSize: 2^(x + 4).
ExponentToByteSize(x) == <<16, 32, 64, 128, 256, 512, 1024, 2048>>[x + 1]

\* byteSizeToExponent, of a size that some exponent stands for.
ByteSizeToExponent(s) == CHOOSE x \in 0..7 : ExponentToByteSize(x) = s

\* The bytes of a block state: as few as hold it.
Encoded(num, more, x) ==
    LET value == 16 * num + 8 * more + x
    IN  IF num >= 4096 THEN <<(value \div 256) \div 256, (value \div 256) % 256, value % 256>>
        ELSE IF num >= 16 THEN <<value \div 256, value % 256>>
        ELSE <<value>>

\* generateBlockOption; None: it throws.
GenerateBlockOption(b) ==
    IF b.num > MaxNum THEN None ELSE Encoded(b.num, b.more, b.size)

\* createBlock2, of a size that is a block size.
CreateBlock2(b) ==
    IF b.num > MaxNum THEN None
    ELSE Encoded(b.num, b.more, ByteSizeToExponent(b.size))

\* readInt32BE of a buffer padded to four bytes.
ReadInt32BE(buf) ==
    IF Len(buf) = 1 THEN buf[1]
    ELSE IF Len(buf) = 2 THEN 256 * buf[1] + buf[2]
    ELSE 256 * (256 * buf[1] + buf[2]) + buf[3]

\* parseBlockOption; None: it throws.
ParseBlockOption(buf) ==
    IF Len(buf) \notin 1..3 THEN None
    ELSE [num |-> ReadInt32BE(buf) \div 16, more |-> (ReadInt32BE(buf) \div 8) % 2, size |-> ReadInt32BE(buf) % 8]

\* parseBlock2.  An empty option has size zero, not sixteen.
ParseBlock2(buf) ==
    IF Len(buf) = 0 THEN [num |-> 0, more |-> 0, size |-> 0]
    ELSE IF Len(buf) > 3 \/ buf[Len(buf)] % 8 = 7 THEN None
    ELSE [num |-> ReadInt32BE(buf) \div 16, more |-> (buf[Len(buf)] \div 8) % 2,
          size |-> ExponentToByteSize(buf[Len(buf)] % 8)]
=============================================================================
