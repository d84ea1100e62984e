-------------------------- MODULE Blockwise_proofs --------------------------
(***************************************************************************)
(* Proofs about Blockwise, for every choice of its constants.              *)
(***************************************************************************)
EXTENDS Blockwise, BlockOption_proofs, FiniteSetTheorems, SequenceTheorems, WellFoundedInduction

BlockSizes == {16, 32, 64, 128, 256, 512, 1024}

\* No two requests share what identifies them to the server.
DistinctTokens == \A q, r \in Requests : Token[q] = Token[r] => q = r

Bodies == UNION {[D -> Pieces] : D \in SUBSET Nat}
Executions == [token : Tokens, first : BOOLEAN, body : Bodies]

\* TypeOK, in the form the provers use.
Typed ==
    /\ client \in [Requests -> ClientRecords]
    /\ byMid \subseteq Mids
    /\ byToken \in [Tokens -> Requests \cup {None}]
    /\ thrown \in BOOLEAN
    /\ requests \subseteq DatagramRecords
    /\ replies \subseteq ReplyRecords
    /\ block1Cache \in [Tokens -> Bodies]
    /\ block2Cache \in [Tokens -> [version : Versions, format : BOOLEAN] \cup {None}]
    /\ answered \subseteq Mids
    /\ waiting \subseteq WaitingRecords
    /\ version \in Versions
    /\ bodies \in Seq(Executions)

\* The n-th block of r's payload, and its option.
PieceOf(r, n) == IF Upload[r] = 0 THEN Nothing ELSE Slice(r, Upload[r], n * Size(r), Size(r))

Option1(r, n) ==
    GenerateBlockOption([num |-> n, more |-> IF n < LastNum(r) THEN 1 ELSE 0,
                         size |-> Exponent[r]])

FromUpload(r, block1) ==
    \/ block1 = None
    \/ /\ Upload[r] > 0
       /\ \E n \in 0..LastNum(r) : block1 = Option1(r, n)

\* Where a segmented upload is.
AtBlock(r, c, n) ==
    /\ c.num = n /\ c.last = n * Size(r)
    /\ c.current = Smaller(n * Size(r) + Size(r), Upload[r])

Segments(r, c) ==
    /\ FromUpload(r, c.block1)
    /\ c.segmented =>
        /\ Upload[r] > Size(r) /\ c.mids > 0
        /\ \E n \in 0..LastNum(r) : AtBlock(r, c, n)

ClientsSegment == \A r \in Requests : Segments(r, client[r])

\* A datagram of r: a block of its payload with that block's option, or, when
\* it asks for a later block of the response, perhaps nothing.
IsOf(r, m) ==
    /\ m.token = Token[r]
    /\ FromUpload(r, m.block1)
    /\ \E n \in 0..LastNum(r) :
        /\ \/ m.block1 = IF Upload[r] = 0 THEN None ELSE Option1(r, n)
           \/ ~IsFirst(m) /\ m.block1 = None
        /\ \/ m.payload = PieceOf(r, n)
           \/ ~IsFirst(m) /\ m.payload = Nothing

DatagramsSound == \A m \in requests : \E r \in Requests : IsOf(r, m)

\* An option that announces more blocks announces one with a number.
Announces(block2) ==
    block2 # None /\ ParseBlock2(block2).more = 1 =>
        ParseBlock2(block2) \in SizedBlocks /\ ParseBlock2(block2).num < MaxNum

RepliesSound == \A m \in replies : Announces(m.block2)

\* What is cached under r's token are blocks of r, each at its place.
BlocksOf(r, data) ==
    \A i \in DOMAIN data : \E n \in 0..LastNum(r) :
        i = n * Size(r) /\ data[i] \in {PieceOf(r, n), Nothing}

CacheSound == \A r \in Requests : BlocksOf(r, block1Cache[Token[r]])

IInv == Typed /\ ClientsSegment /\ DatagramsSound /\ RepliesSound /\ CacheSound /\ BodiesIntact
-----------------------------------------------------------------------------
\* Multiples of a block size.

LEMMA Multiples ==
    ASSUME NEW s \in BlockSizes, NEW n \in Nat, NEW k \in Nat
    PROVE  /\ n * s \in Nat /\ (n + 1) * s = n * s + s
           /\ n * s = k * s => n = k
           /\ n < k => n * s + s <= k * s
           /\ (n * s) \div s = n
<1>1. CASE s = 16
  BY <1>1, SMT
<1>2. CASE s = 32
  BY <1>2, SMT
<1>3. CASE s = 64
  BY <1>3, SMT
<1>4. CASE s = 128
  BY <1>4, SMT
<1>5. CASE s = 256
  BY <1>5, SMT
<1>6. CASE s = 512
  BY <1>6, SMT
<1>7. CASE s = 1024
  BY <1>7, SMT
<1> QED BY <1>1, <1>2, <1>3, <1>4, <1>5, <1>6, <1>7 DEF BlockSizes

\* The number of the last block of u bytes.
LEMMA LastBlock ==
    ASSUME NEW s \in BlockSizes, NEW u \in Nat \ {0}
    PROVE  /\ (u - 1) \div s \in Nat
           /\ ((u - 1) \div s) * s < u /\ u <= ((u - 1) \div s) * s + s
<1>1. CASE s = 16
  BY <1>1, SMT
<1>2. CASE s = 32
  BY <1>2, SMT
<1>3. CASE s = 64
  BY <1>3, SMT
<1>4. CASE s = 128
  BY <1>4, SMT
<1>5. CASE s = 256
  BY <1>5, SMT
<1>6. CASE s = 512
  BY <1>6, SMT
<1>7. CASE s = 1024
  BY <1>7, SMT
<1> QED BY <1>1, <1>2, <1>3, <1>4, <1>5, <1>6, <1>7 DEF BlockSizes

LEMMA SizeOf ==
    ASSUME NEW r \in Requests
    PROVE  /\ Size(r) \in BlockSizes /\ Size(r) \in Nat \ {0}
           /\ Upload[r] \in Nat /\ Exponent[r] \in 0..6
           /\ Upload[r] <= MaxNum * Size(r)
           /\ Token[r] \in Tokens
<1>1. Exponent[r] \in 0..6 /\ Upload[r] \in Nat
  BY BlockwiseAssumption
<1>2. ExponentToByteSize(Exponent[r]) \in BlockSizes
  BY <1>1, SMT DEF ExponentToByteSize, BlockSizes
<1> QED BY <1>1, <1>2, BlockwiseAssumption DEF Size, BlockSizes, Tokens

\* The last block of a request's payload, and those before it.
LEMMA LastOf ==
    ASSUME NEW r \in Requests
    PROVE  /\ LastNum(r) \in Nat /\ LastNum(r) <= MaxNum
           /\ Upload[r] > 0 => LastNum(r) * Size(r) < Upload[r]
           /\ Upload[r] <= LastNum(r) * Size(r) + Size(r)
           /\ \A n \in Nat : n < LastNum(r) => n * Size(r) + Size(r) < Upload[r]
<1>1. Size(r) \in BlockSizes /\ Size(r) \in Nat \ {0} /\ Upload[r] \in Nat
  BY SizeOf
<1>2. CASE Upload[r] = 0
  <2>1. LastNum(r) = 0
    BY <1>2 DEF LastNum
  <2> QED BY <1>1, <1>2, <2>1, MaxNumBound, SMT
<1>3. CASE Upload[r] # 0
  <2> DEFINE L == (Upload[r] - 1) \div Size(r)
  <2>1. LastNum(r) = L
    BY <1>3 DEF LastNum
  <2>2. L \in Nat /\ L * Size(r) < Upload[r] /\ Upload[r] <= L * Size(r) + Size(r)
    BY <1>1, <1>3, LastBlock
  <2> HIDE DEF L
  <2>3. ASSUME NEW n \in Nat, n < L PROVE n * Size(r) + Size(r) < Upload[r]
    <3>1. n * Size(r) \in Nat /\ L * Size(r) \in Nat
      BY <1>1, <2>2, Multiples
    <3>2. n * Size(r) + Size(r) <= L * Size(r)
      BY <1>1, <2>2, <2>3, Multiples
    <3> QED BY <1>1, <2>2, <3>1, <3>2
  <2>4. L <= MaxNum
    <3>1. CASE L > MaxNum
      <4>1. MaxNum * Size(r) + Size(r) < Upload[r]
        BY <2>2, <2>3, <3>1, MaxNumBound
      <4>2. Upload[r] <= MaxNum * Size(r) /\ MaxNum * Size(r) \in Nat
        BY <1>1, SizeOf, Multiples, MaxNumBound
      <4> QED BY <1>1, <4>1, <4>2
    <3> QED BY <2>2, <3>1, MaxNumBound
  <2> QED BY <1>3, <2>1, <2>2, <2>3, <2>4
<1> QED BY <1>1, <1>2, <1>3
-----------------------------------------------------------------------------
\* Options and pieces.

LEMMA ReadTyped ==
    ASSUME NEW buf, \A i \in 1..Len(buf) : buf[i] \in 0..255, Len(buf) \in 1..3
    PROVE  ReadInt32BE(buf) \in Nat
<1>1. CASE Len(buf) = 1
  BY <1>1 DEF ReadInt32BE
<1>2. CASE Len(buf) = 2
  <2> 1 \in 1..Len(buf) /\ 2 \in 1..Len(buf)
    BY <1>2
  <2>1. PICK x \in 0..255, y \in 0..255 : x = buf[1] /\ y = buf[2]
    BY Zenon
  <2>2. ReadInt32BE(buf) = 256 * x + y
    BY <1>2, <2>1 DEF ReadInt32BE
  <2> QED BY <2>2
<1>3. CASE Len(buf) = 3
  <2> 1 \in 1..Len(buf) /\ 2 \in 1..Len(buf) /\ 3 \in 1..Len(buf)
    BY <1>3
  <2>1. PICK x \in 0..255, y \in 0..255, z \in 0..255 : x = buf[1] /\ y = buf[2] /\ z = buf[3]
    BY Zenon
  <2>2. ReadInt32BE(buf) = 256 * (256 * x + y) + z
    BY <1>3, <2>1 DEF ReadInt32BE
  <2> QED BY <2>2
<1> QED BY <1>1, <1>2, <1>3

LEMMA BytesOf ==
    ASSUME NEW buf \in Buffers
    PROVE  /\ Len(buf) \in Nat
           /\ \A i \in 1..Len(buf) : buf[i] \in 0..255
           /\ Len(buf) \in 1..3 => ReadInt32BE(buf) \in Nat
<1>1. buf \in Seq(Bytes)
  BY DEF Buffers
<1>2. Len(buf) \in Nat /\ \A i \in 1..Len(buf) : buf[i] \in Bytes
  BY <1>1, LenProperties, ElementOfSeq
<1>3. \A i \in 1..Len(buf) : buf[i] \in 0..255
  BY <1>2 DEF Bytes
<1> QED BY <1>2, <1>3, ReadTyped

\* An option that is read is a block of some size, or an empty one.
LEMMA ParseTyped ==
    ASSUME NEW buf \in Buffers, ParseBlock2(buf) # None
    PROVE  /\ ParseBlock2(buf).num \in Nat /\ ParseBlock2(buf).more \in {0, 1}
           /\ ParseBlock2(buf).size \in BlockSizes \cup {0}
           /\ ParseBlock2(buf) = [num |-> ParseBlock2(buf).num, more |-> ParseBlock2(buf).more,
                                  size |-> ParseBlock2(buf).size]
<1>0. PICK p : p = ParseBlock2(buf)
  OBVIOUS
<1>2. PICK n : n = Len(buf)
  OBVIOUS
<1>3. PICK w : w = buf[n]
  OBVIOUS
<1>4. PICK v : v = ReadInt32BE(buf)
  OBVIOUS
<1>5. n \in Nat /\ (n # 0 => w \in 0..255) /\ (n \in 1..3 => v \in Nat)
  <2>1. Len(buf) \in Nat /\ (Len(buf) \in 1..3 => ReadInt32BE(buf) \in Nat)
    BY BytesOf
  <2>2. n # 0 => n \in 1..n
    BY <1>2, <2>1
  <2>3. \A i \in 1..Len(buf) : buf[i] \in 0..255
    BY BytesOf
  <2> QED BY <1>2, <1>3, <1>4, <2>1, <2>2, <2>3
<1>6. p = IF n = 0 THEN [num |-> 0, more |-> 0, size |-> 0]
          ELSE IF n > 3 \/ w % 8 = 7 THEN None
          ELSE [num |-> v \div 16, more |-> (w \div 8) % 2, size |-> ExponentToByteSize(w % 8)]
  BY <1>0, <1>2, <1>3, <1>4, Zenon DEF ParseBlock2
<1>7. p # None
  BY <1>0
<1> DEFINE Goal == /\ p.num \in Nat /\ p.more \in {0, 1} /\ p.size \in BlockSizes \cup {0}
                   /\ p = [num |-> p.num, more |-> p.more, size |-> p.size]
<1>8. ASSUME n = 0 PROVE Goal
  <2>1. p = [num |-> 0, more |-> 0, size |-> 0]
    BY <1>6, <1>8, Zenon
  <2> QED BY <2>1
<1>9. ASSUME n # 0 PROVE Goal
  <2>1. n <= 3 /\ w % 8 # 7
    BY <1>5, <1>6, <1>7, <1>9
  <2>2. p = [num |-> v \div 16, more |-> (w \div 8) % 2, size |-> ExponentToByteSize(w % 8)]
    BY <1>5, <1>6, <1>9, <2>1
  <2>3. v \div 16 \in Nat /\ (w \div 8) % 2 \in {0, 1} /\ w % 8 \in 0..6
    BY <1>5, <1>9, <2>1
  <2>4. ExponentToByteSize(w % 8) \in BlockSizes
    BY <2>3, SMT DEF ExponentToByteSize, BlockSizes
  <2> QED BY <2>2, <2>3, <2>4
<1> QED BY <1>0, <1>8, <1>9

LEMMA NoneApart == None \notin Requests /\ None \notin Buffers /\ None \notin SizedBlocks
<1>1. None \notin [num : Nat, more : Nat, size : Nat]
  BY BlockwiseAssumption
<1>2. SizedBlocks \subseteq [num : Nat, more : Nat, size : Nat]
  BY MaxNumBound, SMT DEF SizedBlocks
<1> QED BY <1>1, <1>2, BlockwiseAssumption

\* The option of a block that is served.
LEMMA ServedOption ==
    ASSUME NEW b \in SizedBlocks
    PROVE  CreateBlock2(b) \in Buffers /\ ParseBlock2(CreateBlock2(b)) = b
<1>1. b.num \in 0..MaxNum /\ b.more \in {0, 1}
  BY DEF SizedBlocks
<1>2. PICK x \in 0..6 : b.size = ExponentToByteSize(x)
  <2>1. b.size \in {ExponentToByteSize(x) : x \in 0..6}
    BY SMT DEF SizedBlocks, ExponentToByteSize
  <2> QED BY <2>1
<1>3. x \in 0..7 /\ ByteSizeToExponent(b.size) = x
  BY <1>2, ExponentInverse
<1>4. CreateBlock2(b) = Encoded(b.num, b.more, x)
  BY <1>1, <1>3, MaxNumBound DEF CreateBlock2
<1>5. CreateBlock2(b) \in Buffers
  <2>1. PICK n \in 0..MaxNum, more \in {0, 1} : n = b.num /\ more = b.more
    BY <1>1
  <2>2. Encoded(n, more, x) \in Buffers
    BY <1>3, EncodedBytes, Zenon
  <2> QED BY <1>4, <2>1, <2>2
<1> QED BY <1>5, Block2RoundTrip

\* The n-th block's option is read as it was written.
LEMMA Option1Read ==
    ASSUME NEW r \in Requests, NEW n \in 0..LastNum(r)
    PROVE  /\ Option1(r, n) \in Buffers
           /\ ParseBlockOption(Option1(r, n))
                = [num |-> n, more |-> IF n < LastNum(r) THEN 1 ELSE 0, size |-> Exponent[r]]
<1> DEFINE more == IF n < LastNum(r) THEN 1 ELSE 0
           b == [num |-> n, more |-> more, size |-> Exponent[r]]
<1>1. n \in 0..MaxNum /\ Exponent[r] \in 0..7 /\ more \in {0, 1}
  BY LastOf, SizeOf, MaxNumBound
<1>2. b \in Blocks
  BY <1>1 DEF Blocks
<1>3. Option1(r, n) = GenerateBlockOption(b)
  BY DEF Option1
<1>4. GenerateBlockOption(b) = Encoded(n, more, Exponent[r])
  BY <1>1, MaxNumBound DEF GenerateBlockOption
<1>5. ParseBlockOption(Option1(r, n)) = b
  BY <1>2, <1>3, Block1RoundTrip
<1>6. Option1(r, n) \in Buffers
  <2>1. Encoded(n, more, Exponent[r]) \in Buffers
    BY <1>1, EncodedBytes, ZenonT(40)
  <2> QED BY <1>3, <1>4, <2>1
<1> QED BY <1>5, <1>6

LEMMA SliceTyped ==
    ASSUME NEW of \in Requests \cup Versions, NEW length \in Nat,
           NEW from \in Nat, NEW size \in Nat
    PROVE  Slice(of, length, from, size) \in Pieces /\ Nothing \in Pieces
BY DEF Slice, Smaller, Piece, Pieces, Nothing

\* A piece that is not empty, and how long it is.
LEMMA PieceTyped ==
    ASSUME NEW r \in Requests, NEW n \in 0..LastNum(r)
    PROVE  /\ PieceOf(r, n) \in Pieces
           /\ Length(Nothing) = 0
           /\ n < LastNum(r) => Length(PieceOf(r, n)) = Size(r)
           /\ Upload[r] > 0 => Length(PieceOf(r, n)) > 0
<1>1. Size(r) \in BlockSizes /\ Size(r) \in Nat \ {0} /\ Upload[r] \in Nat /\ LastNum(r) \in Nat
  BY SizeOf, LastOf
<1>2. n \in Nat /\ n * Size(r) \in Nat
  BY <1>1, Multiples
<1>3. PieceOf(r, n) \in Pieces
  BY <1>1, <1>2, SliceTyped DEF PieceOf
<1>4. Length(Nothing) = 0
  BY DEF Length, Nothing, Piece
<1>5. ASSUME n < LastNum(r) PROVE Length(PieceOf(r, n)) = Size(r)
  <2>1. n * Size(r) + Size(r) < Upload[r]
    BY <1>2, <1>5, LastOf
  <2>2. PieceOf(r, n) = Piece(r, n * Size(r), n * Size(r) + Size(r))
    BY <1>1, <1>2, <2>1 DEF PieceOf, Slice, Smaller
  <2> QED BY <1>1, <1>2, <2>2 DEF Piece, Length
<1>6. ASSUME Upload[r] > 0 PROVE Length(PieceOf(r, n)) > 0
  <2>1. CASE n < LastNum(r)
    BY <1>1, <1>5, <2>1
  <2>2. CASE n = LastNum(r)
    <3>1. n * Size(r) < Upload[r]
      BY <1>6, <2>2, LastOf
    <3>2. PieceOf(r, n) = Piece(r, n * Size(r), Smaller(n * Size(r) + Size(r), Upload[r]))
      BY <1>6 DEF PieceOf, Slice
    <3> QED BY <1>1, <1>2, <3>1, <3>2 DEF Smaller, Piece, Length
  <2> QED BY <1>1, <2>1, <2>2
<1> QED BY <1>3, <1>4, <1>5, <1>6
-----------------------------------------------------------------------------
\* What OutMessage.end makes of a representation.

LEMMA VersionOf ==
    ASSUME NEW v \in Versions
    PROVE  Representations[v] \in 1..(16 * MaxNum)
<1>1. Representations \in Seq(1..(16 * MaxNum)) /\ v \in 1..Len(Representations)
  BY BlockwiseAssumption DEF Versions
<1> QED BY <1>1, ElementOfSeq, Zenon

LEMMA FewBlocks ==
    ASSUME NEW s \in BlockSizes, NEW u \in 1..(16 * MaxNum)
    PROVE  (u - 1) \div s \in Nat /\ (u - 1) \div s < MaxNum
<1>1. CASE s = 16
  BY <1>1, MaxNumBound, SMT
<1>2. CASE s = 32
  BY <1>2, MaxNumBound, SMT
<1>3. CASE s = 64
  BY <1>3, MaxNumBound, SMT
<1>4. CASE s = 128
  BY <1>4, MaxNumBound, SMT
<1>5. CASE s = 256
  BY <1>5, MaxNumBound, SMT
<1>6. CASE s = 512
  BY <1>6, MaxNumBound, SMT
<1>7. CASE s = 1024
  BY <1>7, MaxNumBound, SMT
<1> QED BY <1>1, <1>2, <1>3, <1>4, <1>5, <1>6, <1>7 DEF BlockSizes

EndSound(a) ==
    /\ a.code \in Codes /\ a.block2 \in Buffers \cup {None}
    /\ a.payload \in Pieces /\ a.served \in BOOLEAN
    /\ Announces(a.block2)

LEMMA ServedSound ==
    ASSUME NEW v \in Versions, NEW size \in BlockSizes, NEW num \in Nat,
           num <= (Representations[v] - 1) \div size
    PROVE  EndSound(ServedBlock(v, num, size))
<1> DEFINE last == (Representations[v] - 1) \div size
           b == [num |-> num, more |-> IF num < last THEN 1 ELSE 0, size |-> size]
<1>1. last \in Nat /\ last < MaxNum /\ Representations[v] \in Nat
  BY VersionOf, FewBlocks, MaxNumBound
<1>2. num \in 0..MaxNum /\ num < MaxNum
  BY <1>1, MaxNumBound
<1>3. b \in SizedBlocks
  BY <1>2 DEF SizedBlocks, BlockSizes
<1>4. CreateBlock2(b) \in Buffers /\ ParseBlock2(CreateBlock2(b)) = b
  BY <1>3, ServedOption
<1>5. Slice(v, Representations[v], num * size, size) \in Pieces
  BY <1>1, Multiples, SliceTyped DEF BlockSizes
<1> DEFINE a == ServedBlock(v, num, size)
<1>6. /\ a.code = "content" /\ a.served = TRUE /\ a.block2 = CreateBlock2(b)
      /\ a.payload = Slice(v, Representations[v], num * size, size)
  BY DEF ServedBlock
<1>7. b.num = num
  OBVIOUS
<1> HIDE DEF a, b
<1>8. Announces(a.block2)
  BY <1>2, <1>3, <1>4, <1>6, <1>7 DEF Announces
<1>9. EndSound(a)
  BY <1>4, <1>5, <1>6, <1>8 DEF EndSound, Codes
<1> QED BY <1>9 DEF a

LEMMA EndIsSound ==
    ASSUME NEW v \in Versions, NEW block2 \in Buffers \cup {None}
    PROVE  EndSound(End(block2, v))
<1>1. MaxBlock2 \in BlockSizes
  <2>1. \A x \in 0..6 : ExponentToByteSize(x) \in BlockSizes
    BY SMT DEF ExponentToByteSize, BlockSizes
  <2> QED BY <2>1, BlockwiseAssumption
<1>2. Representations[v] \in Nat /\ Representations[v] > 0 /\ Nothing \in Pieces
  <2>1. Nothing \in Pieces
    BY DEF Pieces, Nothing, Piece
  <2> QED BY <2>1, VersionOf, MaxNumBound
<1>3. EndSound(Refusal)
  BY <1>2 DEF EndSound, Refusal, Codes, Announces
<1>4. EndSound(EmptyBlock(v))
  <2> DEFINE b == [num |-> 0, more |-> 1, size |-> 16]
  <2>1. b \in SizedBlocks
    BY MaxNumBound DEF SizedBlocks
  <2>2. ExponentToByteSize(0) = 16 /\ 0 \in 0..7
    BY DEF ExponentToByteSize
  <2>3. ByteSizeToExponent(16) = 0
    BY <2>2, ExponentInverse
  <2>4. CreateBlock2(b) = Encoded(0, 1, 0)
    BY <2>3, MaxNumBound DEF CreateBlock2
  <2>5. CreateBlock2(b) \in Buffers /\ ParseBlock2(CreateBlock2(b)) = b
    BY <2>1, ServedOption
  <2>6. Slice(v, Representations[v], 0, 0) \in Pieces
    BY <1>2, SliceTyped
  <2>7. 0 < MaxNum
    BY SMT DEF MaxNum
  <2>8. Announces(Encoded(0, 1, 0))
    BY <2>1, <2>4, <2>5, <2>7 DEF Announces
  <2> QED BY <2>4, <2>5, <2>6, <2>8 DEF EndSound, EmptyBlock, Codes
<1>5. CASE block2 = None
  <2>1. CASE Representations[v] < MaxBlock2
    <3>1. End(block2, v) = [code |-> "content", block2 |-> None, served |-> FALSE,
                            payload |-> Piece(v, 0, Representations[v])]
      BY <1>5, <2>1 DEF End
    <3>2. Piece(v, 0, Representations[v]) \in Pieces
      BY <1>2 DEF Piece, Pieces
    <3> QED BY <3>1, <3>2 DEF EndSound, Codes, Announces
  <2>2. CASE ~(Representations[v] < MaxBlock2)
    <3>1. End(block2, v) = ServedBlock(v, 0, MaxBlock2)
      BY <1>5, <2>2 DEF End
    <3>2. 0 <= (Representations[v] - 1) \div MaxBlock2
      BY <1>1, VersionOf, FewBlocks
    <3> QED BY <1>1, <3>1, <3>2, ServedSound
  <2> QED BY <2>1, <2>2
<1>6. CASE block2 # None
  <2> DEFINE asked == ParseBlock2(block2)
             size == Smaller(asked.size, MaxBlock2)
  <2>1. CASE asked = None
    BY <1>3, <1>6, <2>1 DEF End
  <2>2. CASE asked # None
    <3>1. asked.num \in Nat /\ asked.size \in BlockSizes \cup {0}
      BY <1>6, <2>2, ParseTyped
    <3>2. size \in BlockSizes \cup {0}
      BY <1>1, <3>1 DEF Smaller, BlockSizes
    <3>3. End(block2, v) = IF size = 0 THEN EmptyBlock(v)
                           ELSE IF asked.num > (Representations[v] - 1) \div size THEN Refusal
                           ELSE ServedBlock(v, asked.num, size)
      BY <1>6, <2>2, Zenon DEF End
    <3> HIDE DEF asked, size
    <3>4. CASE size = 0
      BY <1>4, <3>3, <3>4
    <3>5. CASE size # 0
      <4>1. size \in BlockSizes
        BY <3>2, <3>5
      <4>2. (Representations[v] - 1) \div size \in Nat
        BY <4>1, VersionOf, FewBlocks
      <4>3. CASE asked.num > (Representations[v] - 1) \div size
        BY <1>3, <3>3, <3>5, <4>3
      <4>4. CASE ~(asked.num > (Representations[v] - 1) \div size)
        <5>1. asked.num <= (Representations[v] - 1) \div size
          BY <3>1, <4>2, <4>4
        <5>2. EndSound(ServedBlock(v, asked.num, size))
          BY <3>1, <4>1, <5>1, ServedSound
        <5> QED BY <3>3, <3>5, <4>4, <5>2
      <4> QED BY <4>3, <4>4
    <3> QED BY <3>4, <3>5
  <2> QED BY <2>1, <2>2
<1> QED BY <1>5, <1>6
-----------------------------------------------------------------------------
\* The client.

\* SendNext from the n-th block on sends the n-th block.
LEMMA SendNextSound ==
    ASSUME NEW r \in Requests, NEW c \in ClientRecords, Upload[r] > Size(r),
           NEW n \in 0..LastNum(r), c.current = n * Size(r)
    PROVE  /\ SendNext(r, c) \in ClientRecords
           /\ SendNext(r, c).mids = c.mids /\ SendNext(r, c).resends = c.resends
           /\ SendNext(r, c).segmented = c.segmented /\ SendNext(r, c).block2 = c.block2
           /\ AtBlock(r, SendNext(r, c), n)
           /\ SendNext(r, c).block1 = Option1(r, n)
           /\ SendNext(r, c).payload = PieceOf(r, n)
<1> DEFINE piece == Slice(r, Upload[r], c.current, Size(r))
           d == SendNext(r, c)
<1>1. Size(r) \in BlockSizes /\ Size(r) \in Nat \ {0} /\ Upload[r] \in Nat /\ LastNum(r) \in Nat
  BY SizeOf, LastOf
<1>2. n \in Nat /\ n * Size(r) \in Nat /\ (n * Size(r)) \div Size(r) = n
  BY <1>1, Multiples
<1>3. piece = PieceOf(r, n)
  BY <1>1 DEF PieceOf
<1>4. piece \in Pieces /\ piece.to = Smaller(n * Size(r) + Size(r), Upload[r])
  <2>1. piece \in Pieces
    BY <1>1, <1>2, SliceTyped
  <2>2. piece.to = Smaller(n * Size(r) + Size(r), Upload[r])
    BY DEF Slice, Piece
  <2> QED BY <2>1, <2>2
<1>5. n < LastNum(r) <=> n * Size(r) + Size(r) < Upload[r]
  <2>1. CASE n < LastNum(r)
    BY <1>2, <2>1, LastOf
  <2>2. CASE n = LastNum(r)
    BY <1>1, <1>2, <2>2, LastOf
  <2> QED BY <1>1, <2>1, <2>2
<1>6. UpdateBlockState(r, c) = [c EXCEPT !.num = n, !.block1 = Option1(r, n)]
  BY <1>2, <1>5 DEF UpdateBlockState, Option1
<1>7. d = [c EXCEPT !.num = n, !.block1 = Option1(r, n), !.payload = piece, !.armed = TRUE,
                    !.last = n * Size(r), !.current = piece.to]
  BY <1>6 DEF SendNext, ClientRecords
<1>8. Option1(r, n) \in Buffers
  BY Option1Read
<1>9. piece.to \in Nat
  BY <1>4 DEF Pieces
<1> HIDE DEF d, piece
<1>10. d \in ClientRecords
  BY <1>2, <1>4, <1>7, <1>8, <1>9 DEF ClientRecords
<1>11. /\ d.mids = c.mids /\ d.resends = c.resends /\ d.segmented = c.segmented
       /\ d.block2 = c.block2 /\ d.num = n /\ d.last = n * Size(r) /\ d.current = piece.to
       /\ d.block1 = Option1(r, n) /\ d.payload = piece
  BY <1>7 DEF ClientRecords
<1>12. AtBlock(r, d, n)
  BY <1>4, <1>11 DEF AtBlock
<1> QED BY <1>3, <1>10, <1>11, <1>12 DEF d

LEMMA MadeSound ==
    ASSUME NEW r \in Requests
    PROVE  /\ Made(r) \in ClientRecords /\ Made(r).mids = 1 /\ Made(r).current = 0
           /\ Made(r).segmented = FALSE /\ Made(r).block2 = EarlyBlock2[r]
           /\ Upload[r] = 0 => Made(r).block1 = None /\ Made(r).payload = Nothing
           /\ Upload[r] > 0 /\ Upload[r] <= Size(r) =>
                /\ LastNum(r) = 0 /\ Made(r).block1 = Option1(r, 0)
                /\ Made(r).payload = PieceOf(r, 0)
<1> DEFINE b == [num |-> 0, more |-> 0, size |-> Exponent[r]]
           option == IF Upload[r] = 0 THEN None ELSE GenerateBlockOption(b)
           payload == IF Upload[r] = 0 THEN Nothing ELSE Piece(r, 0, Upload[r])
<1>1. /\ Size(r) \in BlockSizes /\ Size(r) \in Nat \ {0} /\ Upload[r] \in Nat
      /\ LastNum(r) \in Nat /\ Exponent[r] \in 0..7
  BY SizeOf, LastOf
<1>2. GenerateBlockOption(b) \in Buffers
  <2>1. b.num = 0 /\ b.more = 0 /\ b.size = Exponent[r]
    OBVIOUS
  <2>2. GenerateBlockOption(b) = Encoded(0, 0, Exponent[r])
    BY <2>1, MaxNumBound DEF GenerateBlockOption
  <2>3. 0 \in 0..MaxNum /\ 0 \in {0, 1}
    BY MaxNumBound
  <2>4. Encoded(0, 0, Exponent[r]) \in Buffers
    BY <1>1, <2>3, EncodedBytes, ZenonT(40)
  <2> QED BY <2>2, <2>4
<1>3. payload \in Pieces
  BY <1>1 DEF Pieces, Piece, Nothing
<1>4. EarlyBlock2[r] \in Buffers \cup {None}
  BY BlockwiseAssumption
<1>5. Made(r) = [Unsent(r) EXCEPT !.state = "open", !.mids = 1, !.armed = TRUE,
                                  !.payload = payload, !.block1 = option]
  BY DEF Made
<1>6. Unsent(r) \in ClientRecords
  BY <1>4, BlockwiseAssumption, EmptySeq
     DEF Unsent, ClientRecords, Nothing, Piece, Pieces, MaxResends
<1>7. option \in Buffers \cup {None} /\ 1 \in 0..MaxMids
  BY <1>2, BlockwiseAssumption
<1> HIDE DEF option, payload
<1>8. Made(r) \in ClientRecords
  BY <1>3, <1>5, <1>6, <1>7 DEF ClientRecords
<1>9. /\ Made(r).mids = 1 /\ Made(r).current = 0 /\ Made(r).segmented = FALSE
      /\ Made(r).block2 = EarlyBlock2[r] /\ Made(r).block1 = option /\ Made(r).payload = payload
  BY <1>5 DEF Unsent
<1>10. ASSUME Upload[r] > 0, Upload[r] <= Size(r)
       PROVE  LastNum(r) = 0 /\ option = Option1(r, 0) /\ payload = PieceOf(r, 0)
  <2>1. LastNum(r) = 0
    <3>1. CASE LastNum(r) > 0
      <4>1. 0 * Size(r) + Size(r) < Upload[r] /\ 0 * Size(r) = 0
        BY <1>1, <3>1, LastOf
      <4> QED BY <1>1, <1>10, <4>1
    <3> QED BY <1>1, <3>1
  <2>2. option = Option1(r, 0)
    BY <1>1, <1>10, <2>1 DEF option, Option1
  <2>3. PieceOf(r, 0) = Piece(r, 0, Smaller(Size(r), Upload[r]))
    <3>1. 0 * Size(r) = 0 /\ 0 + Size(r) = Size(r)
      BY <1>1
    <3> QED BY <1>10, <3>1 DEF PieceOf, Slice
  <2>4. Smaller(Size(r), Upload[r]) = Upload[r]
    BY <1>1, <1>10 DEF Smaller
  <2> QED BY <1>10, <2>1, <2>2, <2>3, <2>4 DEF payload
<1>11. Upload[r] = 0 => option = None /\ payload = Nothing
  BY DEF option, payload
<1> QED BY <1>8, <1>9, <1>10, <1>11

LEMMA DatagramSound ==
    ASSUME NEW r \in Requests, NEW c \in ClientRecords, c.mids > 0,
           IsOf(r, Datagram(r, c))
    PROVE  Datagram(r, c) \in DatagramRecords /\ Mid(r, c.mids) \in Mids
<1>1. Token[r] \in Tokens
  BY SizeOf
<1>2. c.mids \in 1..MaxMids
  BY BlockwiseAssumption DEF ClientRecords
<1> QED BY <1>1, <1>2 DEF Datagram, DatagramRecords, ClientRecords, Mid, Mids

\* A datagram that carries a block, and one that asks for a later one.
LEMMA BlockDatagram ==
    ASSUME NEW r \in Requests, NEW c, NEW n \in 0..LastNum(r),
           c.payload = PieceOf(r, n),
           c.block1 = IF Upload[r] = 0 THEN None ELSE Option1(r, n)
    PROVE  IsOf(r, Datagram(r, c))
<1>1. Upload[r] \in Nat
  BY SizeOf
<1>2. FromUpload(r, c.block1)
  BY <1>1 DEF FromUpload
<1> QED BY <1>2 DEF IsOf, Datagram

LEMMA NextDatagram ==
    ASSUME NEW r \in Requests, NEW c, FromUpload(r, c.block1), c.payload = Nothing,
           c.block2 # None, ParseBlock2(c.block2) # None, ~(ParseBlock2(c.block2).num < 1)
    PROVE  IsOf(r, Datagram(r, c))
<1> DEFINE m == Datagram(r, c)
<1>1. ~IsFirst(m) /\ m.payload = Nothing /\ m.token = Token[r] /\ m.block1 = c.block1
  BY DEF IsFirst, Datagram
<1>2. Upload[r] \in Nat /\ LastNum(r) \in Nat
  BY SizeOf, LastOf
<1>3. FromUpload(r, m.block1)
  BY <1>1
<1>4. \E n \in 0..LastNum(r) :
        m.block1 = (IF Upload[r] = 0 THEN None ELSE Option1(r, n)) \/ m.block1 = None
  <2>1. CASE m.block1 = None
    <3>1. 0 \in 0..LastNum(r)
      BY <1>2
    <3> QED BY <2>1, <3>1
  <2>2. CASE m.block1 # None
    <3>1. Upload[r] > 0 /\ \E n \in 0..LastNum(r) : m.block1 = Option1(r, n)
      BY <1>3, <2>2 DEF FromUpload
    <3> QED BY <1>2, <3>1
  <2> QED BY <2>1, <2>2
<1> HIDE DEF m
<1>5. IsOf(r, m)
  BY <1>1, <1>3, <1>4, Zenon DEF IsOf
<1> QED BY <1>5 DEF m

LEMMA NextBlockSound ==
    ASSUME NEW m, MoreToCome(m), Announces(m.block2)
    PROVE  /\ NextBlock2(m) \in Buffers /\ NextBlock2(m) # None
           /\ ParseBlock2(NextBlock2(m)) # None /\ ~(ParseBlock2(NextBlock2(m)).num < 1)
           /\ ParseBlock2(NextBlock2(m)).num = ParseBlock2(m.block2).num + 1
           /\ ParseBlock2(NextBlock2(m)).size = ParseBlock2(m.block2).size
<1> DEFINE b == ParseBlock2(m.block2)
           next == [b EXCEPT !.more = 0, !.num = @ + 1]
<1>1. b \in SizedBlocks /\ b.num < MaxNum
  BY DEF MoreToCome, Announces
<1>2. next \in SizedBlocks /\ next.num = b.num + 1 /\ b.num \in Nat /\ next.size = b.size
  <2>1. PICK x \in SizedBlocks : x = b
    BY <1>1
  <2>2. x.num \in 0..MaxNum /\ x.num < MaxNum
    BY <1>1, <2>1 DEF SizedBlocks
  <2>3. x.num + 1 \in 0..MaxNum
    BY <2>2, MaxNumBound
  <2>4. next = [x EXCEPT !.more = 0, !.num = x.num + 1]
    BY <2>1
  <2> HIDE DEF b, next
  <2>5. next \in SizedBlocks /\ next.num = x.num + 1 /\ next.size = x.size
    <3>1. next = [num |-> x.num + 1, more |-> 0, size |-> x.size] /\ x.size \in BlockSizes
      BY <2>4, ZenonT(60) DEF SizedBlocks, BlockSizes
    <3> QED BY <2>3, <3>1 DEF SizedBlocks, BlockSizes
  <2> QED BY <2>1, <2>2, <2>5
<1>3. NextBlock2(m) = CreateBlock2(next)
  BY DEF NextBlock2
<1>5. ParseBlock2(m.block2) = b
  OBVIOUS
<1> HIDE DEF b, next
<1>4. CreateBlock2(next) \in Buffers /\ ParseBlock2(CreateBlock2(next)) = next
  BY <1>2, ServedOption
<1> QED BY <1>2, <1>3, <1>4, <1>5, NoneApart

\* What a step of the client has to show.
LEMMA ClientKeeps ==
    ASSUME IInv, NEW r \in Requests, NEW c \in ClientRecords, Segments(r, c),
           client' = [client EXCEPT ![r] = c],
           NEW D, D \subseteq DatagramRecords, \A m \in D : IsOf(r, m),
           requests' = requests \cup D,
           byMid' \subseteq Mids, byToken' \in [Tokens -> Requests \cup {None}],
           thrown' \in BOOLEAN, UNCHANGED serverVars
    PROVE  IInv'
<1>1. Typed'
  BY DEF IInv, Typed, serverVars
<1>2. ClientsSegment'
  <2>1. ASSUME NEW q \in Requests PROVE Segments(q, client'[q])
    BY DEF IInv, Typed, ClientsSegment
  <2> QED BY <2>1 DEF ClientsSegment
<1>3. DatagramsSound'
  BY DEF IInv, DatagramsSound
<1>4. (RepliesSound /\ CacheSound /\ BodiesIntact)'
  BY DEF IInv, serverVars, RepliesSound, CacheSound, BodiesIntact
<1> QED BY <1>1, <1>2, <1>3, <1>4 DEF IInv

\* The request of a reply is one of the requests.
LEMMA FoundSound ==
    ASSUME IInv, NEW m \in replies, NEW r \in Requests, Arrives(m, r)
    PROVE  /\ client[r] \in ClientRecords /\ Segments(r, client[r])
           /\ client[r].mids + 1 \in 0..MaxMids /\ m \in ReplyRecords
           /\ Announces(m.block2) /\ MidsAfter(m) \subseteq Mids
<1>1. client[r] \in ClientRecords /\ m \in ReplyRecords /\ byMid \subseteq Mids
  BY DEF IInv, Typed
<1>2. client[r].mids + 1 \in 0..MaxMids
  BY <1>1, BlockwiseAssumption, SMTT(40) DEF Arrives, ClientRecords
<1>3. Segments(r, client[r]) /\ Announces(m.block2)
  BY DEF IInv, ClientsSegment, RepliesSound
<1> QED BY <1>1, <1>2, <1>3 DEF MidsAfter

LEMMA RequestKeeps ==
    ASSUME IInv, NEW r \in Requests, Request(r)
    PROVE  IInv'
<1> DEFINE long == [Made(r) EXCEPT !.segmented = TRUE]
           c == IF Upload[r] > Size(r) THEN SendNext(r, long) ELSE Made(r)
<1>1. Size(r) \in BlockSizes /\ Size(r) \in Nat \ {0} /\ Upload[r] \in Nat /\ LastNum(r) \in Nat
  BY SizeOf, LastOf
<1>2. c \in ClientRecords /\ c.mids = 1 /\ Segments(r, c) /\ IsOf(r, Datagram(r, c))
  <2>1. CASE Upload[r] > Size(r)
    <3>1. long \in ClientRecords /\ long.current = 0 /\ long.mids = 1
      BY MadeSound, ZenonT(60) DEF ClientRecords
    <3>2. 0 \in 0..LastNum(r) /\ 0 * Size(r) = 0
      BY <1>1
    <3> DEFINE d == SendNext(r, long)
    <3> HIDE DEF long
    <3>3. /\ d \in ClientRecords /\ d.mids = 1 /\ AtBlock(r, d, 0)
          /\ d.block1 = Option1(r, 0) /\ d.payload = PieceOf(r, 0)
      BY <2>1, <3>1, <3>2, SendNextSound
    <3> HIDE DEF d
    <3>4. Segments(r, d)
      BY <1>1, <2>1, <3>2, <3>3 DEF Segments, FromUpload
    <3>5. IsOf(r, Datagram(r, d))
      BY <1>1, <2>1, <3>2, <3>3, BlockDatagram
    <3>6. c = d
      BY <2>1 DEF d, long
    <3> QED BY <3>3, <3>4, <3>5, <3>6
  <2>2. CASE ~(Upload[r] > Size(r))
    <3>1. c = Made(r)
      BY <2>2
    <3>2. 0 \in 0..LastNum(r)
      BY <1>1
    <3>3. /\ Made(r).payload = PieceOf(r, 0)
          /\ Made(r).block1 = IF Upload[r] = 0 THEN None ELSE Option1(r, 0)
      <4>1. CASE Upload[r] = 0
        BY <4>1, MadeSound DEF PieceOf
      <4>2. CASE Upload[r] # 0
        <5>1. Upload[r] > 0 /\ Upload[r] <= Size(r)
          BY <1>1, <2>2, <4>2
        <5> QED BY <4>2, <5>1, MadeSound
      <4> QED BY <4>1, <4>2
    <3>4. FromUpload(r, Made(r).block1)
      BY <1>1, <3>2, <3>3 DEF FromUpload
    <3>5. IsOf(r, Datagram(r, Made(r)))
      BY <3>2, <3>3, BlockDatagram
    <3>6. Segments(r, Made(r))
      BY <3>4, MadeSound DEF Segments
    <3> QED BY <3>1, <3>5, <3>6, MadeSound
  <2> QED BY <2>1, <2>2
<1>3. /\ client' = [client EXCEPT ![r] = c]
      /\ requests' = requests \cup {Datagram(r, c)}
      /\ byMid' = (byMid \ {Mid(r, client[r].mids)}) \cup {Mid(r, c.mids)}
      /\ byToken' = [byToken EXCEPT ![Token[r]] = r]
      /\ thrown' = thrown /\ UNCHANGED serverVars
  BY DEF Request, Sends
<1> HIDE DEF c
<1>4. Datagram(r, c) \in DatagramRecords /\ Mid(r, c.mids) \in Mids
  BY <1>2, DatagramSound
<1>5. byMid' \subseteq Mids /\ byToken' \in [Tokens -> Requests \cup {None}] /\ thrown' \in BOOLEAN
  BY <1>3, <1>4 DEF IInv, Typed
<1> DEFINE D == {Datagram(r, c)}
<1>6. D \subseteq DatagramRecords /\ (\A m \in D : IsOf(r, m)) /\ requests' = requests \cup D
  BY <1>2, <1>3, <1>4
<1> HIDE DEF D
<1> QED BY <1>2, <1>3, <1>5, <1>6, ClientKeeps

\* A step of the client that sends nothing.
LEMMA SilentKeeps ==
    ASSUME IInv, NEW r \in Requests, NEW c \in ClientRecords, Segments(r, c),
           client' = [client EXCEPT ![r] = c], requests' = requests,
           byMid' \subseteq Mids, byToken' \in [Tokens -> Requests \cup {None}],
           thrown' \in BOOLEAN, UNCHANGED serverVars
    PROVE  IInv'
<1> DEFINE D == {}
<1>1. D \subseteq DatagramRecords /\ (\A m \in D : IsOf(r, m)) /\ requests' = requests \cup D
  OBVIOUS
<1> HIDE DEF D
<1> QED BY <1>1, ClientKeeps

LEMMA EmptyKeeps ==
    ASSUME IInv, NEW m \in replies, ReceiveEmpty(m)
    PROVE  IInv'
<1>1. PICK r : r = m.mid[1]
  OBVIOUS
<1>2. r \in Requests
  BY <1>1 DEF ReceiveEmpty, IInv, Typed, Mids
<1>3. client[r] \in ClientRecords /\ Segments(r, client[r])
  BY <1>2 DEF IInv, Typed, ClientsSegment
<1> DEFINE c == [client[r] EXCEPT !.armed = FALSE]
<1>4. c \in ClientRecords /\ Segments(r, c)
  BY <1>3 DEF ClientRecords, Segments, AtBlock
<1>5. client' = [client EXCEPT ![r] = c]
  BY <1>1 DEF ReceiveEmpty
<1> HIDE DEF c
<1>6. /\ requests' = requests /\ byMid' \subseteq Mids
      /\ byToken' \in [Tokens -> Requests \cup {None}] /\ thrown' \in BOOLEAN
      /\ UNCHANGED serverVars
  BY DEF ReceiveEmpty, IInv, Typed
<1> QED BY <1>2, <1>4, <1>5, <1>6, SilentKeeps

LEMMA TimeoutKeeps ==
    ASSUME IInv, NEW r \in Requests, Timeout(r)
    PROVE  IInv'
<1>1. client[r] \in ClientRecords /\ Segments(r, client[r])
  BY DEF IInv, Typed, ClientsSegment
<1> DEFINE c == [client[r] EXCEPT !.armed = FALSE, !.state = "failed"]
<1>2. c \in ClientRecords /\ Segments(r, c)
  BY <1>1 DEF ClientRecords, Segments, AtBlock
<1>3. client' = [client EXCEPT ![r] = c]
  BY DEF Timeout, IInv, Typed
<1> HIDE DEF c
<1>4. /\ requests' = requests /\ byMid' \subseteq Mids /\ thrown' \in BOOLEAN
      /\ byToken' \in [Tokens -> Requests \cup {None}] /\ UNCHANGED serverVars
  BY DEF Timeout, IInv, Typed
<1> QED BY <1>2, <1>3, <1>4, SilentKeeps

\* The state of an upload that goes on or back to the n-th block.
LEMMA UploadingAt ==
    ASSUME IInv, NEW m \in replies, NEW r \in Requests, Arrives(m, r), Uploading(m, r)
    PROVE  /\ Upload[r] > Size(r) /\ client[r].mids > 0
           /\ \E n \in 0..LastNum(r) : client[r].last = n * Size(r)
           /\ \E n \in 0..LastNum(r) : client[r].current = n * Size(r)
<1>1. /\ Size(r) \in BlockSizes /\ Size(r) \in Nat \ {0}
      /\ Upload[r] \in Nat /\ LastNum(r) \in Nat
  BY SizeOf, LastOf
<1>2. Upload[r] > Size(r) /\ client[r].mids > 0 /\ \E n \in 0..LastNum(r) : AtBlock(r, client[r], n)
  BY FoundSound DEF Uploading, Segments
<1>3. PICK n \in 0..LastNum(r) : AtBlock(r, client[r], n)
  BY <1>2
<1>4. n \in Nat /\ n * Size(r) \in Nat /\ (n + 1) * Size(r) = n * Size(r) + Size(r)
  BY <1>1, Multiples
<1>5. client[r].current < Upload[r]
  <2>1. Upload[r] - client[r].current > 0 /\ client[r].current \in Nat
    BY FoundSound DEF Uploading, Remaining, ClientRecords
  <2> QED BY <1>1, <2>1
<1>6. n * Size(r) + Size(r) < Upload[r] /\ client[r].current = n * Size(r) + Size(r)
  BY <1>1, <1>3, <1>4, <1>5 DEF AtBlock, Smaller
<1>7. n # LastNum(r)
  BY <1>1, <1>4, <1>6, LastOf
<1>8. n + 1 \in 0..LastNum(r)
  BY <1>1, <1>4, <1>7
<1> QED BY <1>2, <1>3, <1>4, <1>6, <1>8 DEF AtBlock

\* A block that is sent again, or the next one.
LEMMA SegmentKeeps ==
    ASSUME IInv, NEW r \in Requests, NEW c \in ClientRecords, NEW n \in 0..LastNum(r),
           c.mids > 0, Upload[r] > Size(r), c.block1 = Option1(r, n),
           c.payload = PieceOf(r, n), AtBlock(r, c, n),
           client' = [client EXCEPT ![r] = c], requests' = requests \cup {Datagram(r, c)},
           byMid' \subseteq Mids \cup {Mid(r, c.mids)}, byToken' = byToken, thrown' = thrown,
           UNCHANGED serverVars
    PROVE  IInv'
<1>1. Upload[r] # 0 /\ Upload[r] > 0
  BY SizeOf
<1>2. IsOf(r, Datagram(r, c))
  BY <1>1, BlockDatagram
<1>3. Segments(r, c)
  BY <1>1 DEF Segments, FromUpload
<1>4. Datagram(r, c) \in DatagramRecords /\ Mid(r, c.mids) \in Mids
  BY <1>2, DatagramSound
<1> DEFINE D == {Datagram(r, c)}
<1>5. D \subseteq DatagramRecords /\ (\A m \in D : IsOf(r, m)) /\ requests' = requests \cup D
  BY <1>2, <1>4
<1>6. byMid' \subseteq Mids /\ byToken' \in [Tokens -> Requests \cup {None}] /\ thrown' \in BOOLEAN
  BY <1>4 DEF IInv, Typed
<1> HIDE DEF D
<1> QED BY <1>3, <1>5, <1>6, ClientKeeps

LEMMA ContinueKeeps ==
    ASSUME IInv, NEW m \in replies, ReceiveContinue(m)
    PROVE  IInv'
<1>1. PICK r \in Requests :
        /\ Arrives(m, r) /\ Uploading(m, r)
        /\ Sends(r, ReceiveACK(r, NewMid(client[r])))
        /\ UNCHANGED <<byToken, thrown, serverVars>>
  BY DEF ReceiveContinue
<1>2. client[r] \in ClientRecords /\ client[r].mids + 1 \in 0..MaxMids
  BY <1>1, FoundSound
<1>3. PICK n \in 0..LastNum(r) : client[r].current = n * Size(r)
  BY <1>1, UploadingAt
<1>4. Upload[r] > Size(r) /\ client[r].mids > 0
  BY <1>1, UploadingAt
<1> DEFINE b == NewMid(client[r])
           s == SendNext(r, b)
           c == ReceiveACK(r, b)
<1>5. b \in ClientRecords /\ b.current = n * Size(r) /\ b.mids > 0
  BY <1>2, <1>3, <1>4, SMTT(40) DEF NewMid, ClientRecords
<1> HIDE DEF b
<1>6. /\ s \in ClientRecords /\ s.mids > 0 /\ s.block1 = Option1(r, n)
      /\ s.payload = PieceOf(r, n) /\ AtBlock(r, s, n)
  BY <1>4, <1>5, SendNextSound
<1>7. c = [s EXCEPT !.resends = 0]
  BY DEF ReceiveACK
<1> HIDE DEF s, c
<1>8. /\ c \in ClientRecords /\ c.mids > 0 /\ c.block1 = Option1(r, n)
      /\ c.payload = PieceOf(r, n) /\ AtBlock(r, c, n)
  BY <1>6, <1>7 DEF ClientRecords, AtBlock, MaxResends
<1>9. /\ client' = [client EXCEPT ![r] = c] /\ requests' = requests \cup {Datagram(r, c)}
      /\ byMid' \subseteq Mids \cup {Mid(r, c.mids)}
  BY <1>1 DEF Sends, IInv, Typed, b, c
<1>10. byToken' = byToken /\ thrown' = thrown /\ UNCHANGED serverVars
  BY <1>1
<1> QED BY <1>4, <1>8, <1>9, <1>10, SegmentKeeps

LEMMA StaleKeeps ==
    ASSUME IInv, NEW m \in replies, ReceiveStale(m)
    PROVE  IInv'
<1>1. PICK r \in Requests :
        /\ Arrives(m, r) /\ Uploading(m, r)
        /\ IF client[r].resends < MaxResends
           THEN /\ client' = [client EXCEPT ![r] = ResendPreviousPacket(r, @)]
                /\ requests' = requests \cup {Datagram(r, client'[r])}
                /\ UNCHANGED thrown
           ELSE /\ client' = [client EXCEPT ![r].armed = FALSE]
                /\ thrown' = TRUE
                /\ UNCHANGED requests
        /\ UNCHANGED <<byMid, byToken, serverVars>>
  BY DEF ReceiveStale
<1>2. client[r] \in ClientRecords /\ Segments(r, client[r]) /\ client \in [Requests -> ClientRecords]
  BY <1>1, FoundSound DEF IInv, Typed
<1>3. byMid' \subseteq Mids /\ byToken' = byToken /\ UNCHANGED serverVars
  BY <1>1 DEF IInv, Typed
<1>4. CASE client[r].resends < MaxResends
  <2>1. PICK n \in 0..LastNum(r) : client[r].last = n * Size(r)
    BY <1>1, UploadingAt
  <2>2. Upload[r] > Size(r) /\ client[r].mids > 0
    BY <1>1, UploadingAt
  <2> DEFINE b == [client[r] EXCEPT !.current = client[r].last]
             s == SendNext(r, b)
             c == ResendPreviousPacket(r, client[r])
  <2>3. b \in ClientRecords /\ b.current = n * Size(r) /\ b.mids > 0 /\ b.resends = client[r].resends
    BY <1>2, <2>1, <2>2 DEF ClientRecords
  <2>4. c = [s EXCEPT !.resends = @ + 1]
    BY DEF ResendPreviousPacket
  <2> HIDE DEF b
  <2>5. /\ s \in ClientRecords /\ s.mids > 0 /\ s.block1 = Option1(r, n)
        /\ s.payload = PieceOf(r, n) /\ AtBlock(r, s, n) /\ s.resends < MaxResends
    BY <1>4, <2>2, <2>3, SendNextSound
  <2> HIDE DEF s
  <2>6. /\ c \in ClientRecords /\ c.mids > 0 /\ c.block1 = Option1(r, n)
        /\ c.payload = PieceOf(r, n) /\ AtBlock(r, c, n)
    BY <2>4, <2>5 DEF ClientRecords, AtBlock, MaxResends
  <2>7. client' = [client EXCEPT ![r] = c] /\ thrown' = thrown
    BY <1>1, <1>4
  <2> HIDE DEF c
  <2>8. client'[r] = c
    BY <1>2, <2>7
  <2>9. requests' = requests \cup {Datagram(r, c)}
    BY <1>1, <1>4, <2>8
  <2> QED BY <1>3, <2>2, <2>6, <2>7, <2>9, SegmentKeeps
<1>5. CASE ~(client[r].resends < MaxResends)
  <2> DEFINE c == [client[r] EXCEPT !.armed = FALSE]
  <2>1. c \in ClientRecords /\ Segments(r, c)
    BY <1>2 DEF ClientRecords, Segments, AtBlock
  <2>2. client' = [client EXCEPT ![r] = c] /\ thrown' = TRUE /\ requests' = requests
    BY <1>1, <1>5
  <2>3. byToken' \in [Tokens -> Requests \cup {None}] /\ thrown' \in BOOLEAN
    BY <1>3, <2>2 DEF IInv, Typed
  <2> HIDE DEF c
  <2> QED BY <1>3, <2>1, <2>2, <2>3, SilentKeeps
<1> QED BY <1>4, <1>5

LEMMA SettledSound ==
    ASSUME IInv, NEW m \in replies, NEW r \in Requests, Arrives(m, r)
    PROVE  /\ Settled(m, r) \in ClientRecords /\ Segments(r, Settled(m, r))
           /\ Settled(m, r).mids = client[r].mids
           /\ Settled(m, r).response = client[r].response
<1>1. client[r] \in ClientRecords /\ Segments(r, client[r])
  BY FoundSound
<1>2. PICK ends \in BOOLEAN : ends = (m.block1 # None /\ client[r].segmented)
  OBVIOUS
<1>3. Settled(m, r) = [client[r] EXCEPT !.armed = FALSE, !.segmented = @ /\ ~ends,
                                        !.block1 = IF ends THEN None ELSE @]
  BY <1>2 DEF Settled
<1>4. CASE ends
  <2>1. Settled(m, r) = [client[r] EXCEPT !.armed = FALSE, !.segmented = FALSE, !.block1 = None]
    BY <1>1, <1>3, <1>4 DEF ClientRecords
  <2> QED BY <1>1, <2>1, ZenonT(60) DEF ClientRecords, Segments, FromUpload
<1>5. CASE ~ends
  <2>1. Settled(m, r) = [client[r] EXCEPT !.armed = FALSE]
    BY <1>1, <1>3, <1>5 DEF ClientRecords
  <2> QED BY <1>1, <2>1 DEF ClientRecords, Segments, AtBlock
<1> QED BY <1>4, <1>5

LEMMA BlockKeeps ==
    ASSUME IInv, NEW m \in replies, ReceiveBlock(m)
    PROVE  IInv'
<1> DEFINE C(r) == [NewMid(Settled(m, r)) EXCEPT
                       !.total = Append(@, m.payload), !.payload = Nothing,
                       !.block2 = NextBlock2(m), !.armed = TRUE]
<1>1. PICK r \in Requests :
        /\ Arrives(m, r) /\ MoreToCome(m)
        /\ client' = [client EXCEPT ![r] = C(r)]
        /\ requests' = requests \cup {Datagram(r, C(r))}
        /\ byMid' = (MidsAfter(m) \ {Mid(r, client[r].mids)}) \cup {Mid(r, C(r).mids)}
        /\ UNCHANGED <<byToken, thrown, serverVars>>
  BY DEF ReceiveBlock
<1>2. PICK b \in ClientRecords :
        /\ b = Settled(m, r) /\ Segments(r, b) /\ b.mids = client[r].mids
  BY <1>1, SettledSound
<1>3. /\ b.mids + 1 \in 0..MaxMids /\ m.payload \in Pieces /\ Announces(m.block2)
      /\ MidsAfter(m) \subseteq Mids
  BY <1>1, <1>2, FoundSound DEF ReplyRecords
<1>4. PICK next \in Buffers : next = NextBlock2(m) /\ next # None
                              /\ ParseBlock2(next) # None /\ ~(ParseBlock2(next).num < 1)
  BY <1>1, <1>3, NextBlockSound
<1>5. PICK total \in Seq(Pieces) : total = Append(b.total, m.payload)
  <2>1. b.total \in Seq(Pieces)
    BY DEF ClientRecords
  <2> QED BY <1>3, <2>1, AppendProperties
<1>6. Nothing \in Pieces
  BY DEF Pieces, Nothing, Piece
<1> DEFINE c == C(r)
<1>7. c = [b EXCEPT !.mids = b.mids + 1, !.total = total, !.payload = Nothing,
                    !.block2 = next, !.armed = TRUE]
  BY <1>2, <1>4, <1>5 DEF NewMid, ClientRecords
<1> HIDE DEF c
<1>8. c \in ClientRecords
  BY <1>3, <1>6, <1>7 DEF ClientRecords
<1>9. /\ c.mids = b.mids + 1 /\ c.block1 = b.block1 /\ c.payload = Nothing /\ c.block2 = next
      /\ c.segmented = b.segmented /\ c.num = b.num /\ c.last = b.last /\ c.current = b.current
  BY <1>7 DEF ClientRecords
<1>10. b.mids \in Nat /\ c.mids > 0
  BY <1>3, <1>9 DEF ClientRecords
<1>11. Segments(r, c)
  BY <1>2, <1>9, <1>10 DEF Segments, AtBlock
<1>12. FromUpload(r, c.block1)
  BY <1>11 DEF Segments
<1>13. IsOf(r, Datagram(r, c))
  BY <1>4, <1>9, <1>12, NextDatagram
<1>14. Datagram(r, c) \in DatagramRecords /\ Mid(r, c.mids) \in Mids
  BY <1>8, <1>10, <1>13, DatagramSound
<1> DEFINE D == {Datagram(r, c)}
<1>15. D \subseteq DatagramRecords /\ (\A d \in D : IsOf(r, d)) /\ requests' = requests \cup D
  BY <1>1, <1>13, <1>14 DEF c
<1>16. /\ byMid' \subseteq Mids /\ byToken' \in [Tokens -> Requests \cup {None}]
       /\ thrown' \in BOOLEAN /\ UNCHANGED serverVars
  BY <1>1, <1>3, <1>14 DEF IInv, Typed, c
<1>17. client' = [client EXCEPT ![r] = c]
  BY <1>1 DEF c
<1> HIDE DEF D
<1> QED BY <1>8, <1>11, <1>15, <1>16, <1>17, ClientKeeps

LEMMA ResponseKeeps ==
    ASSUME IInv, NEW m \in replies, ReceiveResponse(m)
    PROVE  IInv'
<1> DEFINE C(r) == [Settled(m, r) EXCEPT
                       !.total = IF m.block2 # None THEN <<>> ELSE @,
                       !.response = IF @ # None THEN @
                           ELSE [code |-> m.code, body |-> Body(m, r), format |-> m.format]]
<1>1. PICK r \in Requests :
        /\ Arrives(m, r)
        /\ client' = [client EXCEPT ![r] = C(r)]
        /\ byMid' = MidsAfter(m)
        /\ byToken' = IF client[r].response # None THEN byToken
                      ELSE [byToken EXCEPT ![Token[r]] = None]
        /\ UNCHANGED <<thrown, requests, serverVars>>
  BY DEF ReceiveResponse
<1>2. PICK b \in ClientRecords :
        /\ b = Settled(m, r) /\ Segments(r, b) /\ b.response = client[r].response
  BY <1>1, SettledSound
<1>3. /\ client[r] \in ClientRecords /\ m \in ReplyRecords /\ MidsAfter(m) \subseteq Mids
      /\ m.payload \in Pieces /\ m.code \in Codes /\ m.format \in BOOLEAN
  BY <1>1, FoundSound DEF ReplyRecords
<1>4. Body(m, r) \in Seq(Pieces)
  <2>1. client[r].total \in Seq(Pieces)
    BY <1>3 DEF ClientRecords
  <2>2. <<>> \in Seq(Pieces) /\ <<m.payload>> = Append(<<>>, m.payload)
    BY EmptySeq
  <2>3. Append(client[r].total, m.payload) \in Seq(Pieces) /\ <<m.payload>> \in Seq(Pieces)
    BY <1>3, <2>1, <2>2, AppendProperties
  <2> QED BY <2>3 DEF Body
<1>5. PICK total \in Seq(Pieces) : total = IF m.block2 # None THEN <<>> ELSE b.total
  <2>1. b.total \in Seq(Pieces) /\ <<>> \in Seq(Pieces)
    BY EmptySeq DEF ClientRecords
  <2> QED BY <2>1
<1>6. PICK response \in ResponseRecords \cup {None} :
        response = IF b.response # None THEN b.response
                   ELSE [code |-> m.code, body |-> Body(m, r), format |-> m.format]
  <2>1. [code |-> m.code, body |-> Body(m, r), format |-> m.format] \in ResponseRecords
    BY <1>3, <1>4 DEF ResponseRecords
  <2>2. b.response \in ResponseRecords \cup {None}
    BY DEF ClientRecords
  <2> QED BY <2>1, <2>2
<1> DEFINE c == C(r)
<1>7. c = [b EXCEPT !.total = total, !.response = response]
  BY <1>2, <1>5, <1>6 DEF ClientRecords
<1> HIDE DEF c
<1>8. c \in ClientRecords /\ Segments(r, c)
  BY <1>2, <1>7 DEF ClientRecords, Segments, AtBlock
<1>9. client' = [client EXCEPT ![r] = c]
  BY <1>1 DEF c
<1>10. byToken' \in [Tokens -> Requests \cup {None}]
  BY <1>1 DEF IInv, Typed
<1>11. /\ requests' = requests /\ byMid' \subseteq Mids /\ thrown' \in BOOLEAN
       /\ UNCHANGED serverVars
  BY <1>1, <1>3 DEF IInv, Typed
<1> QED BY <1>8, <1>9, <1>10, <1>11, SilentKeeps
-----------------------------------------------------------------------------
\* A whole upload.

LEMMA LeastNatural ==
    ASSUME NEW T, T \subseteq Nat, T # {}
    PROVE  \E x \in T : \A y \in T : x <= y
<1> DEFINE R == OpToRel(<, Nat)
<1>1. IsWellFoundedOn(R, Nat)
  BY NatLessThanWellFounded
<1>2. \A x, y \in Nat : <<x, y>> \in R <=> x < y
  BY DEF OpToRel
<1> HIDE DEF R
<1>3. PICK x \in T : \A y \in T : ~(<<y, x>> \in R)
  BY <1>1, WFMin
<1>4. ASSUME NEW y \in T PROVE x <= y
  <2>1. ~(y < x) /\ x \in Nat /\ y \in Nat
    BY <1>2, <1>3, Zenon
  <2> QED BY <2>1
<1> QED BY <1>4

\* A datagram with a Block1 option has a block's number, and its bytes or none.
LEMMA BlockOf ==
    ASSUME NEW r \in Requests, NEW m, IsOf(r, m), m.block1 # None
    PROVE  \E n \in 0..LastNum(r) :
              /\ ByteIndex(m) = n * Size(r) /\ Upload[r] > 0
              /\ IsLast(m) <=> n = LastNum(r)
              /\ m.payload \in {PieceOf(r, n), Nothing}
              /\ IsFirst(m) => m.payload = PieceOf(r, n)
<1>1. Upload[r] \in Nat /\ LastNum(r) \in Nat
  BY SizeOf, LastOf
<1>2. Upload[r] > 0
  BY DEF IsOf, FromUpload
<1>3. PICK n \in 0..LastNum(r) :
        /\ m.block1 = Option1(r, n)
        /\ m.payload = PieceOf(r, n) \/ (~IsFirst(m) /\ m.payload = Nothing)
  BY <1>2 DEF IsOf
<1>4. ParseBlockOption(m.block1)
        = [num |-> n, more |-> IF n < LastNum(r) THEN 1 ELSE 0, size |-> Exponent[r]]
  BY <1>3, Option1Read
<1>5. ByteIndex(m) = n * Size(r)
  BY <1>4 DEF ByteIndex, Size
<1>6. IsLast(m) <=> n = LastNum(r)
  BY <1>1, <1>4 DEF IsLast
<1> QED BY <1>2, <1>3, <1>5, <1>6

LEMMA StoredSound ==
    ASSUME DistinctTokens, IInv, NEW m \in requests, NEW r \in Requests, IsOf(r, m),
           m.block1 # None
    PROVE  /\ Stored(m) \in Bodies /\ BlocksOf(r, Stored(m))
           /\ DOMAIN Stored(m) = DOMAIN block1Cache[m.token] \cup {ByteIndex(m)}
           /\ Stored(m)[ByteIndex(m)] = m.payload
<1> DEFINE cached == block1Cache[m.token]
           at == ByteIndex(m)
           data == Stored(m)
<1>1. m.token = Token[r] /\ Token[r] \in Tokens
  BY SizeOf DEF IsOf
<1>2. PICK D \in SUBSET Nat : cached \in [D -> Pieces]
  <2>1. cached \in Bodies
    BY <1>1 DEF IInv, Typed
  <2> HIDE DEF cached
  <2> QED BY <2>1 DEF Bodies
<1>3. BlocksOf(r, cached)
  BY <1>1 DEF IInv, CacheSound
<1>4. PICK n \in 0..LastNum(r) : at = n * Size(r) /\ m.payload \in {PieceOf(r, n), Nothing}
  BY BlockOf
<1>5. at \in Nat /\ m.payload \in Pieces
  <2>1. Size(r) \in BlockSizes /\ n \in Nat
    BY SizeOf, LastOf
  <2> QED BY <1>4, <2>1, Multiples DEF IInv, Typed, DatagramRecords
<1>6. data = [i \in DOMAIN cached \cup {at} |-> IF i = at THEN m.payload ELSE cached[i]]
  BY DEF Stored
<1> HIDE DEF cached, at, data
<1>7. data \in [D \cup {at} -> Pieces] /\ D \cup {at} \in SUBSET Nat
  BY <1>2, <1>5, <1>6
<1>8. data \in Bodies
  BY <1>7 DEF Bodies
<1>9. BlocksOf(r, data)
  BY <1>3, <1>4, <1>6 DEF BlocksOf
<1>10. DOMAIN data = DOMAIN cached \cup {at} /\ data[at] = m.payload
  BY <1>6
<1> QED BY <1>8, <1>9, <1>10 DEF cached, at, data

(***************************************************************************)
(* Blocks in line up to the last one are all the blocks: the block before  *)
(* each of them is the one with the number before.                         *)
(***************************************************************************)
LEMMA AllBlocks ==
    ASSUME NEW r \in Requests, NEW data, BlocksOf(r, data), Contiguous(data), Upload[r] > 0,
           LastNum(r) * Size(r) \in DOMAIN data,
           data[LastNum(r) * Size(r)] = PieceOf(r, LastNum(r))
    PROVE  \A n \in 0..LastNum(r) : n * Size(r) \in DOMAIN data
                                    /\ data[n * Size(r)] = PieceOf(r, n)
<1> DEFINE L == LastNum(r)
           s == Size(r)
           Present(n) == n * s \in DOMAIN data /\ data[n * s] = PieceOf(r, n)
           T == {k \in 0..L : \A n \in k..L : Present(n)}
<1>1. s \in BlockSizes /\ s \in Nat \ {0} /\ L \in Nat
  BY SizeOf, LastOf
<1>2. Present(L)
  OBVIOUS
<1>3. L \in T
  <2>1. \A n \in L..L : n = L
    BY <1>1
  <2> QED BY <1>1, <1>2, <2>1
<1>4. PICK k \in T : \A y \in T : k <= y
  <2>1. T \subseteq Nat /\ T # {}
    BY <1>1, <1>3
  <2> QED BY <2>1, LeastNatural
<1>5. k \in 0..L /\ \A n \in k..L : Present(n)
  OBVIOUS
<1> HIDE DEF T
<1>6. k = 0
  <2>1. SUFFICES ASSUME k # 0 PROVE FALSE
    OBVIOUS
  <2>2. k \in Nat /\ k > 0 /\ k - 1 \in 0..L
    BY <1>1, <1>5, <2>1
  <2>3. k * s \in Nat /\ k * s # 0
    <3>1. 0 * s = 0 /\ k * s \in Nat
      BY <1>1, <2>2, Multiples
    <3> QED BY <1>1, <2>1, <2>2, <3>1, Multiples
  <2>4. k * s \in DOMAIN data
    BY <1>1, <1>5
  <2>5. PICK j \in DOMAIN data : j < k * s /\ j + Length(data[j]) = k * s
    BY <2>3, <2>4 DEF Contiguous
  <2>6. PICK n \in 0..L : j = n * s /\ data[j] \in {PieceOf(r, n), Nothing}
    BY DEF BlocksOf
  <2>7. n \in Nat /\ n * s \in Nat
    BY <1>1, Multiples
  <2>8. data[j] = PieceOf(r, n)
    BY <2>3, <2>5, <2>6, <2>7, PieceTyped
  <2>9. n < k
    <3>1. CASE k < n
      BY <1>1, <2>2, <2>3, <2>5, <2>6, <2>7, <3>1, Multiples
    <3>2. CASE k = n
      BY <2>3, <2>5, <2>6, <3>2
    <3> QED BY <2>2, <2>7, <3>1, <3>2
  <2>10. Length(data[j]) = s
    BY <1>1, <1>5, <2>2, <2>7, <2>8, <2>9, PieceTyped
  <2>11. n + 1 = k
    <3>1. (n + 1) * s = k * s
      BY <1>1, <2>5, <2>6, <2>7, <2>10, Multiples
    <3>2. n + 1 \in Nat
      BY <2>7
    <3> QED BY <1>1, <2>2, <3>1, <3>2, Multiples
  <2>12. Present(n)
    BY <2>6, <2>8
  <2>13. \A i \in n..L : Present(i)
    <3>1. \A i \in n..L : i = n \/ i \in k..L
      BY <1>1, <2>2, <2>7, <2>11
    <3> HIDE DEF Present
    <3> QED BY <1>5, <2>12, <3>1
  <2>14. n \in T
    BY <2>13 DEF T
  <2> QED BY <1>4, <2>2, <2>7, <2>9, <2>14
<1> QED BY <1>5, <1>6

\* A complete upload, ended by a block that is not empty, is the whole payload.
LEMMA StoredWhole ==
    ASSUME DistinctTokens, IInv, NEW m \in requests, NEW r \in Requests, IsOf(r, m),
           m.block1 # None, IsFirst(m), Complete(m)
    PROVE  Stored(m) = Whole(r)
<1>1. Size(r) \in BlockSizes /\ LastNum(r) \in Nat
  BY SizeOf, LastOf
<1>2. PICK data : data = Stored(m)
  OBVIOUS
<1>3. IsLast(m) /\ Contiguous(data)
  BY <1>2 DEF Complete
<1>4. Upload[r] > 0 /\ ByteIndex(m) = LastNum(r) * Size(r) /\ m.payload = PieceOf(r, LastNum(r))
  BY <1>3, BlockOf
<1>5. /\ data \in Bodies /\ BlocksOf(r, data) /\ ByteIndex(m) \in DOMAIN data
      /\ data[ByteIndex(m)] = m.payload
  BY <1>2, StoredSound
<1>6. \A n \in 0..LastNum(r) : n * Size(r) \in DOMAIN data /\ data[n * Size(r)] = PieceOf(r, n)
  BY <1>3, <1>4, <1>5, AllBlocks
<1>7. DOMAIN data = Offsets(r)
  BY <1>5, <1>6 DEF Offsets, BlocksOf
<1>8. \A i \in Offsets(r) : data[i] = Slice(r, Upload[r], i, Size(r))
  BY <1>4, <1>6 DEF Offsets, PieceOf
<1>9. data = [i \in DOMAIN data |-> data[i]]
  BY <1>5 DEF Bodies
<1> QED BY <1>2, <1>4, <1>7, <1>8, <1>9 DEF Whole
-----------------------------------------------------------------------------
\* The server.

LEMMA ReplyTyped ==
    ASSUME NEW type \in {"ack", "con", "non"}, NEW mid \in Mids \cup {NoMid},
           NEW token \in Tokens, NEW code \in Codes
    PROVE  /\ Reply(type, mid, token, code, Nothing) \in ReplyRecords
           /\ Reply(type, mid, token, code, Nothing).block2 = None
<1>1. Nothing \in Pieces
  BY DEF Pieces, Nothing, Piece
<1> QED BY <1>1 DEF Reply, ReplyRecords

LEMMA ResponseTyped ==
    ASSUME NEW p \in WaitingRecords, NEW v \in Versions, NEW format \in BOOLEAN
    PROVE  Response(p, v, format) \in ReplyRecords /\ Announces(Response(p, v, format).block2)
<1>1. PICK a : a = End(p.block2, v)
  OBVIOUS
<1>2. EndSound(a)
  BY <1>1, EndIsSound DEF WaitingRecords
<1> DEFINE type == IF p.acked THEN "con" ELSE "ack"
           mid == IF p.acked THEN NoMid ELSE p.mid
           x == Response(p, v, format)
<1>3. type \in {"ack", "con", "non"} /\ mid \in Mids \cup {NoMid} /\ p.token \in Tokens
  BY DEF WaitingRecords
<1>4. x = [type |-> type, mid |-> mid, token |-> p.token, code |-> a.code, block1 |-> None,
           block2 |-> a.block2, payload |-> a.payload, format |-> format]
  <2>1. x = [Reply(type, mid, p.token, a.code, a.payload)
                EXCEPT !.block2 = a.block2, !.format = format]
    BY <1>1, Zenon DEF Response
  <2> HIDE DEF x, type, mid
  <2> QED BY <2>1 DEF Reply
<1> HIDE DEF x, type, mid
<1>5. x \in ReplyRecords
  BY <1>2, <1>3, <1>4 DEF ReplyRecords, EndSound
<1>6. x.block2 = a.block2
  BY <1>4
<1> QED BY <1>2, <1>5, <1>6 DEF EndSound, x

LEMMA ResponseObjectTyped ==
    ASSUME NEW m \in DatagramRecords
    PROVE  /\ ResponseObject(m) \in WaitingRecords
           /\ [ResponseObject(m) EXCEPT !.lost = TRUE] \in WaitingRecords
           /\ ResponseObject(m).mid = m.mid /\ ResponseObject(m).token = m.token
BY DEF ResponseObject, WaitingRecords, DatagramRecords

Block2Entries == [version : Versions, format : BOOLEAN] \cup {None}

LEMMA EntryTyped ==
    ASSUME NEW p, NEW v \in Versions, NEW format \in BOOLEAN,
           NEW cache \in [Tokens -> Block2Entries]
    PROVE  Entry(p, v, format, cache) \in [Tokens -> Block2Entries]
<1>1. [version |-> v, format |-> format] \in Block2Entries
  BY DEF Block2Entries
<1>2. PICK x : x = (IF End(p.block2, v).served THEN [version |-> v, format |-> format]
                    ELSE cache[p.token])
  OBVIOUS
<1>3. Entry(p, v, format, cache) = [cache EXCEPT ![p.token] = x]
  BY <1>2 DEF Entry
<1>4. p.token \in Tokens => x \in Block2Entries
  BY <1>1, <1>2
<1> QED BY <1>3, <1>4

LEMMA KeptTyped ==
    ASSUME IInv, NEW m
    PROVE  Kept(m) \in [Tokens -> Block2Entries]
<1>1. block2Cache \in [Tokens -> Block2Entries] /\ None \in Block2Entries
  BY DEF IInv, Typed, Block2Entries
<1> QED BY <1>1 DEF Kept

\* What a step of the server has to show.
LEMMA ServerKeeps ==
    ASSUME IInv, NEW R, R \subseteq ReplyRecords, \A x \in R : Announces(x.block2),
           replies' = replies \cup R,
           block1Cache' \in [Tokens -> Bodies], CacheSound',
           block2Cache' \in [Tokens -> Block2Entries], answered' \subseteq Mids,
           waiting' \subseteq WaitingRecords, version' \in Versions,
           bodies' \in Seq(Executions), BodiesIntact', UNCHANGED clientVars
    PROVE  IInv'
<1>1. Typed'
  BY DEF IInv, Typed, clientVars, Block2Entries
<1>2. (ClientsSegment /\ DatagramsSound)'
  BY DEF IInv, clientVars, ClientsSegment, DatagramsSound
<1>3. RepliesSound'
  BY DEF IInv, RepliesSound
<1> QED BY <1>1, <1>2, <1>3 DEF IInv

\* Replies aside, nothing that the invariant is about.
LEMMA UnchangedCache ==
    ASSUME IInv, UNCHANGED <<block1Cache, bodies>>
    PROVE  /\ block1Cache' \in [Tokens -> Bodies] /\ CacheSound'
           /\ bodies' \in Seq(Executions) /\ BodiesIntact'
BY DEF IInv, Typed, CacheSound, BodiesIntact

\* One token's blocks are replaced.
LEMMA ReplacedCache ==
    ASSUME DistinctTokens, IInv, NEW r \in Requests, NEW f \in Bodies, BlocksOf(r, f),
           block1Cache' = [block1Cache EXCEPT ![Token[r]] = f]
    PROVE  block1Cache' \in [Tokens -> Bodies] /\ CacheSound'
<1>1. block1Cache \in [Tokens -> Bodies] /\ CacheSound /\ Token[r] \in Tokens
  BY SizeOf DEF IInv, Typed
<1>2. block1Cache' \in [Tokens -> Bodies]
  BY <1>1
<1>3. ASSUME NEW q \in Requests PROVE BlocksOf(q, block1Cache'[Token[q]])
  <2>1. Token[q] \in Tokens
    BY SizeOf
  <2>2. CASE Token[q] = Token[r]
    <3>1. q = r
      BY <2>2 DEF DistinctTokens
    <3> QED BY <1>1, <3>1
  <2>3. CASE Token[q] # Token[r]
    BY <1>1, <2>1, <2>3 DEF CacheSound
  <2> QED BY <2>2, <2>3
<1> QED BY <1>2, <1>3 DEF CacheSound

LEMMA NoBlocks == ASSUME NEW r PROVE <<>> \in Bodies /\ BlocksOf(r, <<>>)
<1>1. <<>> \in [{} -> Pieces] /\ DOMAIN <<>> = {}
  BY EmptySeq
<1> QED BY <1>1 DEF Bodies, BlocksOf

\* The upload of a block's token is continued or forgotten.
LEMMA CacheStep ==
    ASSUME DistinctTokens, IInv, NEW m \in requests, m.block1 # None,
           \/ block1Cache' = [block1Cache EXCEPT ![m.token] = Stored(m)]
           \/ block1Cache' = Uploaded(m)
    PROVE  block1Cache' \in [Tokens -> Bodies] /\ CacheSound'
<1>1. PICK r \in Requests : IsOf(r, m)
  BY DEF IInv, DatagramsSound
<1>2. m.token = Token[r]
  BY <1>1 DEF IsOf
<1>3. Stored(m) \in Bodies /\ BlocksOf(r, Stored(m))
  BY <1>1, StoredSound
<1>4. <<>> \in Bodies /\ BlocksOf(r, <<>>)
  BY NoBlocks
<1>5. \/ block1Cache' = [block1Cache EXCEPT ![Token[r]] = Stored(m)]
      \/ block1Cache' = [block1Cache EXCEPT ![Token[r]] = <<>>]
  BY <1>2 DEF Uploaded
<1> QED BY <1>3, <1>4, <1>5, ReplacedCache

LEMMA ServeKeeps ==
    ASSUME IInv, NEW m \in requests, Serve(m)
    PROVE  IInv'
<1>1. m \in DatagramRecords
  BY DEF IInv, Typed
<1>2. PICK entry \in [version : Versions, format : BOOLEAN] : entry = block2Cache[m.token]
  <2>1. m.token \in Tokens /\ block2Cache[m.token] # None
    BY <1>1 DEF Serve, FromCache, DatagramRecords
  <2> QED BY <2>1 DEF IInv, Typed
<1>3. PICK p \in WaitingRecords : p = ResponseObject(m) /\ p.mid = m.mid
  BY <1>1, ResponseObjectTyped
<1>4. entry.version \in Versions /\ entry.format \in BOOLEAN
  OBVIOUS
<1>5. /\ replies' = replies \cup {Response(p, entry.version, entry.format)}
      /\ answered' \subseteq answered \cup {p.mid}
      /\ block2Cache' = Entry(p, entry.version, entry.format, block2Cache)
      /\ UNCHANGED <<clientVars, block1Cache, waiting, version, bodies>>
  BY <1>2, <1>3 DEF Serve, Sent
<1> DEFINE R == {Response(p, entry.version, entry.format)}
<1>6. R \subseteq ReplyRecords /\ \A x \in R : Announces(x.block2)
  BY <1>4, ResponseTyped
<1>7. block2Cache' \in [Tokens -> Block2Entries]
  <2>1. block2Cache \in [Tokens -> Block2Entries]
    BY DEF IInv, Typed, Block2Entries
  <2> QED BY <1>4, <1>5, <2>1, EntryTyped
<1>8. answered' \subseteq Mids /\ waiting' \subseteq WaitingRecords /\ version' \in Versions
  BY <1>1, <1>3, <1>5 DEF IInv, Typed, DatagramRecords
<1>9. replies' = replies \cup R /\ UNCHANGED clientVars /\ UNCHANGED <<block1Cache, bodies>>
  BY <1>5
<1> HIDE DEF R
<1> QED BY <1>6, <1>7, <1>8, <1>9, UnchangedCache, ServerKeeps

LEMMA StoreKeeps ==
    ASSUME DistinctTokens, IInv, NEW m \in requests, Store(m)
    PROVE  IInv'
<1>1. m \in DatagramRecords
  BY DEF IInv, Typed
<1>2. m.token \in Tokens /\ m.mid \in Mids /\ m.block1 \in Buffers
  BY <1>1 DEF DatagramRecords, Store
<1> DEFINE reply == Reply("ack", m.mid, m.token, "continue", Nothing)
           x == [reply EXCEPT !.block1 = m.block1]
           R == {x}
<1>3. reply \in ReplyRecords /\ reply.block2 = None
  BY <1>2, ReplyTyped DEF Codes
<1> HIDE DEF reply
<1>4. x \in ReplyRecords /\ x.block2 = None
  BY <1>2, <1>3 DEF ReplyRecords
<1>5. R \subseteq ReplyRecords /\ \A y \in R : Announces(y.block2)
  BY <1>4 DEF Announces
<1>6. block1Cache' \in [Tokens -> Bodies] /\ CacheSound'
  BY CacheStep DEF Store
<1>7. bodies' \in Seq(Executions) /\ BodiesIntact'
  BY DEF Store, IInv, Typed, BodiesIntact
<1>8. block2Cache' \in [Tokens -> Block2Entries]
  BY KeptTyped DEF Store
<1>9. answered' \subseteq Mids /\ waiting' \subseteq WaitingRecords /\ version' \in Versions
  BY <1>2 DEF Store, IInv, Typed
<1>10. replies' = replies \cup R /\ UNCHANGED clientVars
  BY DEF Store, reply
<1> HIDE DEF R
<1> QED BY <1>5, <1>6, <1>7, <1>8, <1>9, <1>10, ServerKeeps

LEMMA RefuseKeeps ==
    ASSUME DistinctTokens, IInv, NEW m \in requests, Refuse(m)
    PROVE  IInv'
<1>1. m \in DatagramRecords
  BY DEF IInv, Typed
<1>2. m.token \in Tokens /\ m.mid \in Mids
  BY <1>1 DEF DatagramRecords
<1> DEFINE x == Reply("non", m.mid, m.token, "error", Nothing)
           R == {x}
<1>3. R \subseteq ReplyRecords /\ \A y \in R : Announces(y.block2)
  BY <1>2, ReplyTyped DEF Codes, Announces
<1>4. block1Cache' \in [Tokens -> Bodies] /\ CacheSound'
  BY CacheStep DEF Refuse
<1>5. bodies' \in Seq(Executions) /\ BodiesIntact'
  BY DEF Refuse, IInv, Typed, BodiesIntact
<1>6. block2Cache' \in [Tokens -> Block2Entries]
  BY KeptTyped DEF Refuse
<1>7. answered' \subseteq Mids /\ waiting' \subseteq WaitingRecords /\ version' \in Versions
  BY <1>1, ResponseObjectTyped DEF Refuse, IInv, Typed
<1>8. replies' = replies \cup R /\ UNCHANGED clientVars
  BY DEF Refuse
<1> HIDE DEF R
<1> QED BY <1>3, <1>4, <1>5, <1>6, <1>7, <1>8, ServerKeeps

\* What a request that is executed brings, and how it is remembered.
LEMMA ExecutionSound ==
    ASSUME DistinctTokens, IInv, NEW m \in requests, Execute(m)
    PROVE  bodies' \in Seq(Executions) /\ BodiesIntact'
<1>1. m \in DatagramRecords /\ m.token \in Tokens /\ m.payload \in Pieces
  BY DEF IInv, Typed, DatagramRecords
<1>2. PICK r \in Requests : IsOf(r, m)
  BY DEF IInv, DatagramsSound
<1>3. Token[r] = m.token /\ Upload[r] \in Nat
  BY <1>2, SizeOf DEF IsOf
<1>4. Payload(m) \in Bodies
  <2>1. CASE m.block1 = None
    <3>1. [i \in {0} |-> m.payload] \in [{0} -> Pieces] /\ {0} \in SUBSET Nat
      BY <1>1
    <3>2. [i \in {0} |-> m.payload] \in Bodies
      BY <3>1, Zenon DEF Bodies
    <3> QED BY <2>1, <3>2 DEF Payload
  <2>2. CASE m.block1 # None
    BY <1>2, <2>2, StoredSound DEF Payload
  <2> QED BY <2>1, <2>2
<1>5. IsFirst(m) => Payload(m) = Whole(r)
  <2>1. SUFFICES ASSUME IsFirst(m) PROVE Payload(m) = Whole(r)
    OBVIOUS
  <2>2. CASE m.block1 = None
    <3>1. PICK n \in 0..LastNum(r) :
             /\ m.block1 = IF Upload[r] = 0 THEN None ELSE Option1(r, n)
             /\ m.payload = PieceOf(r, n)
      BY <1>2, <2>1 DEF IsOf
    <3>2. Upload[r] = 0
      BY <2>2, <3>1, Option1Read, NoneApart
    <3>3. m.payload = Nothing /\ LastNum(r) = 0
      BY <3>1, <3>2 DEF PieceOf, LastNum
    <3>4. Offsets(r) = {0}
      <4>1. 0 * Size(r) = 0
        BY SizeOf
      <4>2. \A i \in 0..0 : i = 0
        OBVIOUS
      <4> QED BY <3>3, <4>1, <4>2 DEF Offsets
    <3> QED BY <2>2, <3>2, <3>3, <3>4 DEF Payload, Whole
  <2>3. CASE m.block1 # None
    BY <1>2, <2>1, <2>3, StoredWhole DEF Payload, Execute
  <2> QED BY <2>2, <2>3
<1> DEFINE e == [token |-> m.token, first |-> IsFirst(m), body |-> Payload(m)]
<1>6. IsFirst(m) \in BOOLEAN
  BY DEF IsFirst
<1>7. e \in Executions
  BY <1>1, <1>4, <1>6 DEF Executions
<1>8. bodies' = Append(bodies, e) /\ bodies \in Seq(Executions)
  BY DEF Execute, IInv, Typed
<1>9. e.first => Token[r] = e.token /\ e.body = Whole(r)
  BY <1>3, <1>5
<1> HIDE DEF e
<1>10. /\ bodies' \in Seq(Executions) /\ Len(bodies') = Len(bodies) + 1
       /\ \A i \in 1..Len(bodies) : bodies'[i] = bodies[i]
       /\ bodies'[Len(bodies) + 1] = e /\ Len(bodies) \in Nat
  BY <1>7, <1>8, AppendProperties, LenProperties
<1>11. ASSUME NEW i \in 1..Len(bodies'), bodies'[i].first
       PROVE  \E q \in Requests : Token[q] = bodies'[i].token /\ bodies'[i].body = Whole(q)
  <2>1. CASE i \in 1..Len(bodies)
    <3>1. bodies'[i] = bodies[i]
      BY <1>10, <2>1
    <3> QED BY <1>11, <2>1, <3>1 DEF IInv, BodiesIntact
  <2>2. CASE i = Len(bodies) + 1
    BY <1>9, <1>10, <1>11, <2>2
  <2> QED BY <1>10, <2>1, <2>2
<1> QED BY <1>10, <1>11 DEF BodiesIntact

LEMMA ExecuteKeeps ==
    ASSUME DistinctTokens, IInv, NEW m \in requests, Execute(m)
    PROVE  IInv'
<1>1. m \in DatagramRecords /\ m.mid \in Mids /\ version \in Versions
  BY DEF IInv, Typed, DatagramRecords
<1>2. PICK p \in WaitingRecords : p = ResponseObject(m) /\ p.mid = m.mid
  BY <1>1, ResponseObjectTyped
<1>3. bodies' \in Seq(Executions) /\ BodiesIntact'
  BY ExecutionSound
<1>4. block1Cache' \in [Tokens -> Bodies] /\ CacheSound'
  <2>1. CASE m.block1 = None
    <3>1. block1Cache' = block1Cache
      BY <2>1 DEF Execute, Uploaded
    <3> QED BY <3>1 DEF IInv, Typed, CacheSound
  <2>2. CASE m.block1 # None
    BY <2>2, CacheStep DEF Execute
  <2> QED BY <2>1, <2>2
<1>5. UNCHANGED <<clientVars, version>>
  BY DEF Execute
<1>6. CASE /\ Sent(p, version, TRUE)
           /\ block2Cache' = Entry(p, version, TRUE, Kept(m))
           /\ UNCHANGED waiting
  <2> DEFINE R == {Response(p, version, TRUE)}
  <2>1. R \subseteq ReplyRecords /\ (\A x \in R : Announces(x.block2)) /\ replies' = replies \cup R
    BY <1>1, <1>6, ResponseTyped DEF Sent
  <2>2. block2Cache' \in [Tokens -> Block2Entries]
    BY <1>1, <1>6, KeptTyped, EntryTyped
  <2>3. answered' \subseteq Mids /\ waiting' \subseteq WaitingRecords /\ version' \in Versions
    BY <1>1, <1>2, <1>5, <1>6 DEF Sent, IInv, Typed
  <2> HIDE DEF R
  <2> QED BY <1>3, <1>4, <1>5, <2>1, <2>2, <2>3, ServerKeeps
<1>7. CASE /\ waiting' = waiting \cup {p}
           /\ block2Cache' = Kept(m)
           /\ UNCHANGED <<replies, answered>>
  <2> DEFINE R == {}
  <2>1. R \subseteq ReplyRecords /\ (\A x \in R : Announces(x.block2)) /\ replies' = replies \cup R
    BY <1>7
  <2>2. block2Cache' \in [Tokens -> Block2Entries]
    BY <1>7, KeptTyped
  <2>3. answered' \subseteq Mids /\ waiting' \subseteq WaitingRecords /\ version' \in Versions
    BY <1>1, <1>5, <1>7 DEF IInv, Typed
  <2> HIDE DEF R
  <2> QED BY <1>3, <1>4, <1>5, <2>1, <2>2, <2>3, ServerKeeps
<1> QED BY <1>2, <1>6, <1>7 DEF Execute

LEMMA AnswerKeeps ==
    ASSUME IInv, NEW p \in waiting, Answer(p)
    PROVE  IInv'
<1>1. p \in WaitingRecords /\ version \in Versions /\ p.mid \in Mids
  BY DEF IInv, Typed, WaitingRecords
<1> DEFINE R == {Response(p, version, TRUE)}
<1>2. R \subseteq ReplyRecords /\ (\A x \in R : Announces(x.block2)) /\ replies' = replies \cup R
  BY <1>1, ResponseTyped DEF Answer, Sent
<1>3. block2Cache' \in [Tokens -> Block2Entries]
  <2>1. block2Cache \in [Tokens -> Block2Entries]
    BY DEF IInv, Typed, Block2Entries
  <2> QED BY <1>1, <2>1, EntryTyped DEF Answer
<1>4. answered' \subseteq Mids /\ waiting' \subseteq WaitingRecords /\ version' \in Versions
  BY <1>1 DEF Answer, Sent, IInv, Typed
<1>5. UNCHANGED clientVars /\ UNCHANGED <<block1Cache, bodies>>
  BY DEF Answer
<1> HIDE DEF R
<1> QED BY <1>2, <1>3, <1>4, <1>5, UnchangedCache, ServerKeeps

LEMMA AckTimerKeeps ==
    ASSUME IInv, NEW p \in waiting, AckTimer(p)
    PROVE  IInv'
<1>1. p \in WaitingRecords /\ p.mid \in Mids /\ p.token \in Tokens
  BY DEF IInv, Typed, WaitingRecords
<1> DEFINE R == {Reply("ack", p.mid, p.token, "empty", Nothing)}
<1>2. R \subseteq ReplyRecords /\ (\A x \in R : Announces(x.block2)) /\ replies' = replies \cup R
  BY <1>1, ReplyTyped DEF AckTimer, Codes, Announces
<1>3. [p EXCEPT !.acked = TRUE] \in WaitingRecords
  BY <1>1 DEF WaitingRecords
<1>4. /\ block2Cache' \in [Tokens -> Block2Entries] /\ answered' \subseteq Mids
      /\ waiting' \subseteq WaitingRecords /\ version' \in Versions
  BY <1>3 DEF AckTimer, IInv, Typed, Block2Entries
<1>5. UNCHANGED clientVars /\ UNCHANGED <<block1Cache, bodies>>
  BY DEF AckTimer
<1> HIDE DEF R
<1> QED BY <1>2, <1>4, <1>5, UnchangedCache, ServerKeeps

LEMMA ExpireKeeps ==
    ASSUME DistinctTokens, IInv, NEW t \in Tokens, Expire(t)
    PROVE  IInv'
<1>1. PICK r \in Requests : t = Token[r]
  BY DEF Tokens
<1>2. <<>> \in Bodies /\ BlocksOf(r, <<>>)
  BY NoBlocks
<1>3. block1Cache' \in [Tokens -> Bodies] /\ CacheSound'
  BY <1>1, <1>2, ReplacedCache DEF Expire
<1> DEFINE R == {}
<1>4. R \subseteq ReplyRecords /\ (\A x \in R : Announces(x.block2)) /\ replies' = replies \cup R
  BY DEF Expire
<1>5. /\ block2Cache' \in [Tokens -> Block2Entries] /\ answered' \subseteq Mids
      /\ waiting' \subseteq WaitingRecords /\ version' \in Versions
      /\ bodies' \in Seq(Executions) /\ BodiesIntact' /\ UNCHANGED clientVars
  BY DEF Expire, IInv, Typed, Block2Entries, BodiesIntact
<1> HIDE DEF R
<1> QED BY <1>3, <1>4, <1>5, ServerKeeps

LEMMA ChangeKeeps == ASSUME IInv, Change PROVE IInv'
<1> DEFINE R == {}
<1>1. R \subseteq ReplyRecords /\ (\A x \in R : Announces(x.block2)) /\ replies' = replies \cup R
  BY DEF Change
<1>2. version' \in Versions
  BY DEF Change, IInv, Typed, Versions
<1>3. /\ block2Cache' \in [Tokens -> Block2Entries] /\ answered' \subseteq Mids
      /\ waiting' \subseteq WaitingRecords /\ UNCHANGED clientVars
      /\ UNCHANGED <<block1Cache, bodies>>
  BY DEF Change, IInv, Typed, Block2Entries
<1> HIDE DEF R
<1> QED BY <1>1, <1>2, <1>3, UnchangedCache, ServerKeeps
-----------------------------------------------------------------------------
LEMMA InitHolds == Init => IInv
<1> SUFFICES ASSUME Init PROVE IInv
  OBVIOUS
<1>1. <<>> \in Bodies /\ <<>> \in Seq(Executions) /\ Len(<<>>) = 0
  BY NoBlocks, EmptySeq
<1>2. \A r \in Requests : Unsent(r) \in ClientRecords /\ Segments(r, Unsent(r))
  <2>1. ASSUME NEW r \in Requests PROVE Unsent(r) \in ClientRecords
    <3>1. EarlyBlock2[r] \in Buffers \cup {None}
      BY BlockwiseAssumption
    <3> QED BY <3>1, BlockwiseAssumption, EmptySeq
           DEF Unsent, ClientRecords, Nothing, Piece, Pieces, MaxResends
  <2>2. ASSUME NEW r \in Requests PROVE Segments(r, Unsent(r))
    BY DEF Unsent, Segments, FromUpload
  <2> QED BY <2>1, <2>2
<1>3. 1 \in Versions
  BY BlockwiseAssumption, LenProperties DEF Versions
<1>4. Typed
  BY <1>1, <1>2, <1>3 DEF Init, Typed
<1>5. ClientsSegment
  BY <1>2 DEF Init, ClientsSegment
<1>6. DatagramsSound /\ RepliesSound
  BY DEF Init, DatagramsSound, RepliesSound
<1>7. CacheSound
  <2>1. ASSUME NEW r \in Requests PROVE BlocksOf(r, block1Cache[Token[r]])
    BY SizeOf, NoBlocks DEF Init
  <2> QED BY <2>1 DEF CacheSound
<1>8. BodiesIntact
  BY <1>1 DEF Init, BodiesIntact
<1> QED BY <1>4, <1>5, <1>6, <1>7, <1>8 DEF IInv

LEMMA StepHolds == ASSUME DistinctTokens, IInv, [Next]_vars PROVE IInv'
<1>1. ASSUME NEW r \in Requests, Request(r) \/ Timeout(r) PROVE IInv'
  BY <1>1, RequestKeeps, TimeoutKeeps
<1>2. ASSUME NEW m \in replies,
             \/ ReceiveEmpty(m) \/ ReceiveContinue(m) \/ ReceiveStale(m)
             \/ ReceiveBlock(m) \/ ReceiveResponse(m)
      PROVE  IInv'
  BY <1>2, EmptyKeeps, ContinueKeeps, StaleKeeps, BlockKeeps, ResponseKeeps
<1>3. ASSUME NEW m \in requests, Serve(m) \/ Store(m) \/ Refuse(m) \/ Execute(m) PROVE IInv'
  BY <1>3, ServeKeeps, StoreKeeps, RefuseKeeps, ExecuteKeeps
<1>4. ASSUME NEW p \in waiting, Answer(p) \/ AckTimer(p) PROVE IInv'
  BY <1>4, AnswerKeeps, AckTimerKeeps
<1>5. ASSUME NEW t \in Tokens, Expire(t) PROVE IInv'
  BY <1>5, ExpireKeeps
<1>6. ASSUME Change PROVE IInv'
  BY <1>6, ChangeKeeps
<1>7. ASSUME UNCHANGED vars PROVE IInv'
  <2>1. UNCHANGED serverVars /\ UNCHANGED clientVars
    BY <1>7 DEF vars
  <2> QED BY <2>1 DEF serverVars, clientVars, IInv, Typed, ClientsSegment, DatagramsSound,
                 RepliesSound, CacheSound, BodiesIntact
<1> QED BY <1>1, <1>2, <1>3, <1>4, <1>5, <1>6, <1>7 DEF Next, ClientNext, ServerNext

LEMMA IInvHolds == ASSUME DistinctTokens PROVE Spec => []IInv
<1>1. IInv /\ [Next]_vars => IInv'
  BY StepHolds
<1> QED BY <1>1, InitHolds, PTL DEF Spec

(***************************************************************************)
(* Requests, datagrams, caches and bodies are what their names say: no     *)
(* counter passes its bound and no option is written that cannot be read.  *)
(***************************************************************************)
THEOREM TypeCorrect == ASSUME DistinctTokens PROVE Spec => []TypeOK
<1>1. IInv => TypeOK
  <2> SUFFICES ASSUME IInv PROVE TypeOK
    OBVIOUS
  <2>1. \A f \in Bodies : IsBody(f)
    <3> TAKE f \in Bodies
    <3>1. PICK D \in SUBSET Nat : f \in [D -> Pieces]
      BY DEF Bodies
    <3> QED BY <3>1 DEF IsBody
  <2>2. DOMAIN block1Cache = Tokens /\ \A t \in Tokens : IsBody(block1Cache[t])
    BY <2>1 DEF IInv, Typed
  <2>3. \A i \in 1..Len(bodies) : bodies[i] \in Executions
    BY ElementOfSeq DEF IInv, Typed
  <2>4. \A i \in 1..Len(bodies) :
          /\ bodies[i].token \in Tokens /\ bodies[i].first \in BOOLEAN
          /\ IsBody(bodies[i].body)
    BY <2>1, <2>3 DEF Executions
  <2> QED BY <2>2, <2>4 DEF IInv, Typed, TypeOK
<1> QED BY <1>1, IInvHolds, PTL

(***************************************************************************)
(* Whatever is lost, repeated, reordered or forgotten, an application is   *)
(* handed whole payloads only, of the request it is told of, as long as no *)
(* two requests share a token.                                             *)
(***************************************************************************)
THEOREM PayloadsIntact == ASSUME DistinctTokens PROVE Spec => []BodiesIntact
<1>1. IInv => BodiesIntact
  BY DEF IInv
<1> QED BY <1>1, IInvHolds, PTL
-----------------------------------------------------------------------------
(***************************************************************************)
(* What datagrams, blocks and executions have to do with each other: the   *)
(* n-th message id of an upload carries its n-th block until the request   *)
(* has been executed, and asks for later blocks of the response after.     *)
(***************************************************************************)
Executed(r) == \E i \in 1..Len(bodies) : bodies[i].token = Token[r] /\ bodies[i].first

\* A reply finds the request it is for.
Linked ==
    /\ \A x \in byMid : x[2] = client[x[1]].mids
    /\ \A t \in Tokens : byToken[t] # None =>
          Token[byToken[t]] = t /\ client[byToken[t]].state # "new"
    /\ \A m \in requests : m.token = Token[m.mid[1]]
    /\ \A m \in replies : m.mid # NoMid => m.token = Token[m.mid[1]]
    /\ \A p \in waiting : p.token = Token[p.mid[1]]

\* A datagram that carries a block of the payload; c is its request's state.
FirstSound(m, c) ==
    LET r == m.mid[1]
        n == m.mid[2] - 1
    IN  /\ n \in 0..LastNum(r)
        /\ m.block1 = IF Upload[r] = 0 THEN None ELSE Option1(r, n)
        /\ m.payload = PieceOf(r, n)
        /\ c.state # "new"
        /\ c.segmented => n <= c.num

\* One that asks for a later block of the response.
LaterSound(m) ==
    LET r == m.mid[1]
    IN  /\ Executed(r)
        /\ m.block1 # None => Upload[r] > 0 /\ m.block1 = Option1(r, LastNum(r))

SortedOne(m, c) == IF IsFirst(m) THEN FirstSound(m, c) ELSE LaterSound(m)
Sorted == \A m \in requests : SortedOne(m, client[m.mid[1]])

\* How far a request is: one block for each message id until it is executed.
Progress(r, c) ==
    /\ c.state = "new" => c = Unsent(r)
    /\ c.block1 # None =>
          Upload[r] > 0 /\ c.block1 = Option1(r, IF c.segmented THEN c.num ELSE LastNum(r))
    /\ ~Executed(r) => c.block2 = EarlyBlock2[r]
    /\ c.segmented /\ ~Executed(r) => c.mids = c.num + 1
    /\ c.segmented /\ Executed(r) => c.num = LastNum(r)

Progressing == \A r \in Requests : Progress(r, client[r])

\* The blocks before the last of an executed request have been acknowledged.
ExecutedSound ==
    \A r \in Requests : Executed(r) =>
        /\ \A n \in 1..LastNum(r) : Mid(r, n) \in answered
        /\ \E m \in requests : IsFirst(m) /\ m.mid = Mid(r, LastNum(r) + 1)

\* What is cached has been acknowledged, and the first block is not cached
\* again when the request has been executed.
CacheLinked ==
    \A r \in Requests :
        /\ \A n \in 0..LastNum(r) :
              n < LastNum(r) /\ n * Size(r) \in DOMAIN block1Cache[Token[r]] => Mid(r, n + 1) \in answered
        /\ Executed(r) /\ LastNum(r) > 0 => 0 \notin DOMAIN block1Cache[Token[r]]

\* Who is answered with content has been executed.
ReplySound(m) ==
    /\ m.code = "content" => \A r \in Requests : Token[r] = m.token => Executed(r)
    /\ m.block2 # None => m.code = "content"
    /\ m.block1 # None => /\ m.code = "continue" /\ m.mid \in answered
                          /\ \E d \in requests : d.mid = m.mid /\ d.block1 = m.block1

ContentSound ==
    /\ \A m \in replies : ReplySound(m)
    /\ \A p \in waiting : ~p.lost => \A r \in Requests : Token[r] = p.token => Executed(r)

OnceEach == \A r \in Uploads : \A i, j \in FirstsOf(Token[r]) : i = j

Confirmed(r, c) ==
    c.segmented =>
        \A n \in 0..(c.num - 1) :
            \E m \in requests : /\ m.token = Token[r] /\ m.mid \in answered
                                /\ m.payload = PieceOf(r, n)

JInv ==
    /\ Linked /\ Sorted /\ Progressing /\ ExecutedSound /\ CacheLinked
    /\ ContentSound /\ OnceEach
    /\ \A r \in Requests : Confirmed(r, client[r])
-----------------------------------------------------------------------------
\* A step of the client concerns one request, r, which comes to c.
LEMMA ClientLinks ==
    ASSUME IInv, JInv, NEW r \in Requests, NEW c \in ClientRecords,
           client' = [client EXCEPT ![r] = c], c.state # "new",
           Progress(r, c), Confirmed(r, c),
           c.segmented /\ client[r].state # "new" =>
               client[r].segmented /\ client[r].num <= c.num,
           NEW D, D \subseteq DatagramRecords,
           \A m \in D : m.mid[1] = r /\ m.token = Token[r] /\ SortedOne(m, c),
           requests' = requests \cup D,
           \A x \in byMid' : (x[1] = r => x[2] = c.mids) /\ (x[1] # r => x \in byMid),
           byToken' \in [Tokens -> Requests \cup {None}],
           \A t \in Tokens : byToken'[t] \in {byToken[t], None} \/ (byToken'[t] = r /\ Token[r] = t),
           UNCHANGED serverVars
    PROVE  JInv'
<1>0. client \in [Requests -> ClientRecords] /\ requests \subseteq DatagramRecords /\ byMid \subseteq Mids
  BY DEF IInv, Typed
<1>1. /\ client'[r] = c /\ \A q \in Requests : q # r => client'[q] = client[q]
      /\ byMid' \subseteq byMid' /\ UNCHANGED <<replies, block1Cache, answered, waiting, bodies>>
  BY <1>0 DEF serverVars
<1>2. \A q : Executed(q)' <=> Executed(q)
  BY <1>1 DEF Executed
<1>3. Linked'
  <2>1. ASSUME NEW x \in byMid' PROVE x[2] = client'[x[1]].mids
    <3>1. CASE x[1] = r
      BY <1>1, <3>1
    <3>2. CASE x[1] # r
      <4>1. x \in byMid /\ x[1] \in Requests
        BY <1>0, <3>2 DEF Mids
      <4> QED BY <1>1, <3>2, <4>1 DEF JInv, Linked
    <3> QED BY <3>1, <3>2
  <2>2. ASSUME NEW t \in Tokens, byToken'[t] # None
        PROVE  Token[byToken'[t]] = t /\ client'[byToken'[t]].state # "new"
    <3>1. CASE byToken'[t] = r /\ Token[r] = t
      BY <1>1, <3>1
    <3>2. CASE byToken'[t] = byToken[t]
      <4>1. Token[byToken[t]] = t /\ client[byToken[t]].state # "new"
        BY <2>2, <3>2 DEF JInv, Linked
      <4>2. byToken'[t] \in Requests
        BY <2>2
      <4> QED BY <1>1, <3>2, <4>1, <4>2
    <3> QED BY <2>2, <3>1, <3>2
  <2>3. \A m \in requests' : m.token = Token[m.mid[1]]
    BY DEF JInv, Linked
  <2> QED BY <1>1, <2>1, <2>2, <2>3 DEF JInv, Linked
<1>4. Sorted'
  <2>1. ASSUME NEW m \in requests' PROVE SortedOne(m, client'[m.mid[1]])
    <3>1. CASE m \in D
      BY <1>1, <3>1
    <3>2. CASE m \in requests
      <4>1. m.mid[1] \in Requests /\ SortedOne(m, client[m.mid[1]])
        BY <1>0, <3>2 DEF JInv, Sorted, DatagramRecords, Mids
      <4>2. CASE m.mid[1] # r
        BY <1>1, <4>1, <4>2
      <4>3. CASE m.mid[1] = r /\ ~IsFirst(m)
        BY <1>1, <4>1, <4>3 DEF SortedOne
      <4>4. CASE m.mid[1] = r /\ IsFirst(m)
        <5>1. FirstSound(m, client[r])
          BY <4>1, <4>4 DEF SortedOne
        <5>2. m.mid[2] - 1 \in Int /\ client[r].num \in Nat /\ c.num \in Nat
          <6>1. m.mid[2] \in 1..MaxMids
            BY <1>0, <3>2 DEF DatagramRecords, Mids
          <6>2. m.mid[2] - 1 \in Int
            BY <6>1
          <6>3. client[r] \in ClientRecords
            BY <1>0
          <6> QED BY <6>2, <6>3 DEF ClientRecords
        <5>3. FirstSound(m, c)
          BY <4>4, <5>1, <5>2 DEF FirstSound
        <5> QED BY <1>1, <4>4, <5>3 DEF SortedOne
      <4> QED BY <4>2, <4>3, <4>4
    <3> QED BY <3>1, <3>2
  <2>2. \A m, d : SortedOne(m, d)' <=> SortedOne(m, d')
    BY <1>2 DEF SortedOne, LaterSound, FirstSound
  <2> QED BY <2>1, <1>2 DEF Sorted, SortedOne, LaterSound, FirstSound
<1>5. Progressing'
  <2>1. \A q \in Requests : Progress(q, client'[q])
    BY <1>1 DEF JInv, Progressing
  <2> QED BY <1>2, <2>1 DEF Progressing, Progress
<1>6. ExecutedSound' /\ CacheLinked' /\ OnceEach'
  <2>1. requests \subseteq requests'
    OBVIOUS
  <2> QED BY <1>1, <1>2, <2>1 DEF JInv, ExecutedSound, CacheLinked, OnceEach, FirstsOf, ExecutionsOf
<1>7. ContentSound'
  <2>1. \A m \in replies : ReplySound(m)'
    BY <1>1, <1>2 DEF JInv, ContentSound, ReplySound
  <2> QED BY <1>1, <1>2, <2>1 DEF JInv, ContentSound
<1>8. (\A q \in Requests : Confirmed(q, client[q]))'
  <2>1. \A q \in Requests : Confirmed(q, client'[q])
    BY <1>1 DEF JInv
  <2> QED BY <1>1, <2>1 DEF Confirmed
<1> QED BY <1>3, <1>4, <1>5, <1>6, <1>7, <1>8 DEF JInv

\* A step of the client that sends nothing.
LEMMA SilentLinks ==
    ASSUME IInv, JInv, NEW r \in Requests, NEW c \in ClientRecords,
           client' = [client EXCEPT ![r] = c], c.state # "new",
           Progress(r, c), c.mids = client[r].mids, c.num = client[r].num,
           c.segmented => client[r].segmented,
           requests' = requests, byMid' \subseteq byMid,
           byToken' \in [Tokens -> Requests \cup {None}],
           \A t \in Tokens : byToken'[t] \in {byToken[t], None},
           UNCHANGED serverVars
    PROVE  JInv'
<1> DEFINE D == {}
<1>1. /\ D \subseteq DatagramRecords /\ requests' = requests \cup D
      /\ \A m \in D : m.mid[1] = r /\ m.token = Token[r] /\ SortedOne(m, c)
  OBVIOUS
<1> HIDE DEF D
<1>2. Confirmed(r, c)
  BY DEF JInv, Confirmed
<1>3. \A x \in byMid' : (x[1] = r => x[2] = c.mids) /\ (x[1] # r => x \in byMid)
  BY DEF JInv, Linked
<1>4. client[r].num <= c.num
  BY DEF IInv, Typed, ClientRecords
<1> QED BY <1>1, <1>2, <1>3, <1>4, ClientLinks

\* The request of a reply has been made, and the reply carries its token.
LEMMA FoundLinked ==
    ASSUME IInv, JInv, NEW m \in replies, NEW r \in Requests, Arrives(m, r)
    PROVE  m.token = Token[r] /\ client[r].state # "new"
<1>1. m \in ReplyRecords /\ byMid \subseteq Mids
  BY DEF IInv, Typed
<1>2. CASE m.mid \in byMid
  <2>1. m.mid[1] = r /\ m.mid \in Mids
    BY <1>1, <1>2 DEF Arrives, Found
  <2>2. m.mid # NoMid
    <3>1. PICK q \in Requests, n \in 1..MaxMids : m.mid = <<q, n>>
      BY <2>1 DEF Mids
    <3> QED BY <3>1 DEF NoMid
  <2>3. m.token = Token[r] /\ m.mid[2] = client[r].mids
    BY <1>2, <2>1, <2>2 DEF JInv, Linked
  <2>4. client[r].mids # 0
    BY <2>1, <2>3 DEF Mids
  <2>5. client[r].state # "new"
    <3>1. client[r].state = "new" => client[r] = Unsent(r)
      BY DEF JInv, Progressing, Progress
    <3>2. Unsent(r).mids = 0
      BY DEF Unsent
    <3> QED BY <2>4, <3>1, <3>2
  <2> QED BY <2>3, <2>5
<1>3. CASE m.mid \notin byMid
  <2>1. byToken[m.token] = r /\ m.token \in Tokens
    BY <1>1, <1>3 DEF Arrives, Found, ReplyRecords
  <2> QED BY <2>1, NoneApart DEF JInv, Linked
<1> QED BY <1>2, <1>3

\* A new message id takes the place of the one before.
LEMMA MidReplaced ==
    ASSUME IInv, JInv, NEW r \in Requests, NEW n, NEW M, M \subseteq byMid,
           byMid' = (M \ {Mid(r, client[r].mids)}) \cup {Mid(r, n)}
    PROVE  \A x \in byMid' : (x[1] = r => x[2] = n) /\ (x[1] # r => x \in byMid)
<1> TAKE x \in byMid'
<1>1. CASE x = Mid(r, n)
  BY <1>1 DEF Mid
<1>2. CASE x # Mid(r, n)
  <2>1. x \in byMid /\ x # Mid(r, client[r].mids) /\ x[2] = client[x[1]].mids
    BY <1>2 DEF JInv, Linked
  <2>2. PICK q \in Requests, k \in 1..MaxMids : x = <<q, k>>
    BY <2>1 DEF IInv, Typed, Mids
  <2> QED BY <2>1, <2>2 DEF Mid
<1> QED BY <1>1, <1>2

LEMMA RequestLinks ==
    ASSUME IInv, JInv, NEW r \in Requests, Request(r)
    PROVE  JInv'
<1> DEFINE long == [Made(r) EXCEPT !.segmented = TRUE]
           c == IF Upload[r] > Size(r) THEN SendNext(r, long) ELSE Made(r)
<1>1. Size(r) \in Nat \ {0} /\ Upload[r] \in Nat /\ LastNum(r) \in Nat /\ 0 * Size(r) = 0
      /\ 0 \in 0..LastNum(r)
  BY SizeOf, LastOf
<1>2. ~Executed(r)
  <2>1. client[r].state = "new"
    BY DEF Request
  <2>2. ~\E m \in requests : IsFirst(m) /\ m.mid = Mid(r, LastNum(r) + 1)
    BY <2>1 DEF JInv, Sorted, SortedOne, FirstSound, Mid
  <2> QED BY <2>2 DEF JInv, ExecutedSound
<1>3. /\ c \in ClientRecords /\ c.mids = 1 /\ c.state = "open" /\ c.block2 = EarlyBlock2[r]
      /\ c.payload = PieceOf(r, 0)
      /\ c.block1 = IF Upload[r] = 0 THEN None ELSE Option1(r, 0)
      /\ c.segmented => c.num = 0
      /\ ~c.segmented /\ Upload[r] > 0 => LastNum(r) = 0
  <2>0. Made(r).state = "open"
    BY DEF Made, Unsent
  <2>1. CASE Upload[r] > Size(r)
    <3>1. long \in ClientRecords /\ long.current = 0 /\ long.mids = 1
          /\ long.block2 = EarlyBlock2[r] /\ long.segmented /\ long.state = "open"
      BY <2>0, MadeSound, ZenonT(60) DEF ClientRecords
    <3> DEFINE d == SendNext(r, long)
    <3> HIDE DEF long
    <3>2. /\ d \in ClientRecords /\ d.mids = 1 /\ AtBlock(r, d, 0) /\ d.segmented
          /\ d.block1 = Option1(r, 0) /\ d.payload = PieceOf(r, 0) /\ d.block2 = EarlyBlock2[r]
      BY <1>1, <2>1, <3>1, SendNextSound
    <3>3. d.state = "open"
      BY <3>1 DEF SendNext, UpdateBlockState, ClientRecords
    <3> HIDE DEF d
    <3>4. c = d
      BY <2>1 DEF d, long
    <3>5. Upload[r] # 0
      BY <1>1, <2>1
    <3> HIDE DEF c
    <3> QED BY <3>2, <3>3, <3>4, <3>5 DEF AtBlock
  <2>2. CASE ~(Upload[r] > Size(r))
    <3>1. c = Made(r) /\ Upload[r] <= Size(r)
      BY <1>1, <2>2
    <3> HIDE DEF c
    <3>2. Upload[r] = 0 => PieceOf(r, 0) = Nothing
      BY DEF PieceOf
    <3>3. Upload[r] # 0 => Upload[r] > 0
      BY <1>1
    <3> QED BY <2>0, <3>1, <3>2, <3>3, MadeSound
  <2> QED BY <2>1, <2>2
<1>4. /\ client' = [client EXCEPT ![r] = c]
      /\ requests' = requests \cup {Datagram(r, c)}
      /\ byMid' = (byMid \ {Mid(r, client[r].mids)}) \cup {Mid(r, c.mids)}
      /\ byToken' = [byToken EXCEPT ![Token[r]] = r]
      /\ client[r].state = "new" /\ UNCHANGED serverVars
  BY DEF Request, Sends
<1> HIDE DEF c
<1>5. Progress(r, c)
  <2>1. c.block1 # None =>
          Upload[r] > 0 /\ c.block1 = Option1(r, IF c.segmented THEN c.num ELSE LastNum(r))
    BY <1>1, <1>3
  <2>2. c.segmented => c.mids = c.num + 1
    BY <1>3
  <2> QED BY <1>2, <1>3, <2>1, <2>2 DEF Progress
<1>6. Confirmed(r, c)
  <2>1. 0..(0 - 1) = {}
    OBVIOUS
  <2> QED BY <1>3, <2>1 DEF Confirmed
<1> DEFINE d == Datagram(r, c)
           D == {d}
<1>7. /\ d.mid = Mid(r, 1) /\ d.token = Token[r] /\ d.block1 = c.block1
      /\ d.block2 = EarlyBlock2[r] /\ d.payload = c.payload
  BY <1>3 DEF Datagram
<1>8. d \in DatagramRecords
  <2>1. IsOf(r, d)
    BY <1>1, <1>3, BlockDatagram
  <2> QED BY <1>3, <2>1, DatagramSound
<1> HIDE DEF d
<1>9. IsFirst(d)
  BY <1>7, BlockwiseAssumption DEF IsFirst
<1>10. FirstSound(d, c)
  <2>1. d.mid[1] = r /\ d.mid[2] - 1 = 0
    BY <1>7 DEF Mid
  <2> QED BY <1>1, <1>3, <1>7, <2>1 DEF FirstSound
<1>11. /\ D \subseteq DatagramRecords /\ requests' = requests \cup D
       /\ \A m \in D : m.mid[1] = r /\ m.token = Token[r] /\ SortedOne(m, c)
  BY <1>4, <1>7, <1>8, <1>9, <1>10 DEF SortedOne, Mid, d
<1>12. \A x \in byMid' : (x[1] = r => x[2] = c.mids) /\ (x[1] # r => x \in byMid)
  BY <1>4, MidReplaced
<1>13. /\ byToken' \in [Tokens -> Requests \cup {None}]
       /\ \A t \in Tokens : byToken'[t] \in {byToken[t], None} \/ (byToken'[t] = r /\ Token[r] = t)
  BY <1>4 DEF IInv, Typed
<1> HIDE DEF D
<1> QED BY <1>3, <1>4, <1>5, <1>6, <1>11, <1>12, <1>13, ClientLinks

LEMMA EmptyLinks ==
    ASSUME IInv, JInv, NEW m \in replies, ReceiveEmpty(m)
    PROVE  JInv'
<1>1. PICK r \in Requests, k \in 1..MaxMids : m.mid = <<r, k>>
  BY DEF ReceiveEmpty, IInv, Typed, Mids
<1>2. client[r] \in ClientRecords /\ Progress(r, client[r]) /\ client[r].mids = k
  BY <1>1 DEF ReceiveEmpty, IInv, Typed, JInv, Progressing, Linked
<1>3. client[r].state # "new"
  <2>1. Unsent(r).mids = 0 /\ k # 0
    BY DEF Unsent
  <2> QED BY <1>2, <2>1 DEF Progress
<1> DEFINE c == [client[r] EXCEPT !.armed = FALSE]
<1>4. /\ c \in ClientRecords /\ c.state = client[r].state /\ c.mids = client[r].mids
      /\ c.num = client[r].num /\ c.segmented = client[r].segmented
      /\ c.block1 = client[r].block1 /\ c.block2 = client[r].block2
  BY <1>2 DEF ClientRecords
<1>5. client' = [client EXCEPT ![r] = c]
  BY <1>1 DEF ReceiveEmpty
<1> HIDE DEF c
<1>6. Progress(r, c)
  BY <1>2, <1>3, <1>4 DEF Progress
<1>7. /\ requests' = requests /\ byMid' \subseteq byMid /\ byToken' = byToken
      /\ UNCHANGED serverVars /\ byToken \in [Tokens -> Requests \cup {None}]
  BY DEF ReceiveEmpty, IInv, Typed
<1> QED BY <1>3, <1>4, <1>5, <1>6, <1>7, SilentLinks

LEMMA TimeoutLinks ==
    ASSUME IInv, JInv, NEW r \in Requests, Timeout(r)
    PROVE  JInv'
<1>1. client[r] \in ClientRecords /\ Progress(r, client[r]) /\ client \in [Requests -> ClientRecords]
  BY DEF IInv, Typed, JInv, Progressing
<1> DEFINE c == [client[r] EXCEPT !.armed = FALSE, !.state = "failed"]
<1>2. /\ c \in ClientRecords /\ c.state = "failed" /\ c.mids = client[r].mids
      /\ c.num = client[r].num /\ c.segmented = client[r].segmented
      /\ c.block1 = client[r].block1 /\ c.block2 = client[r].block2
  BY <1>1 DEF ClientRecords
<1>3. client' = [client EXCEPT ![r] = c]
  BY <1>1 DEF Timeout
<1> HIDE DEF c
<1>4. Progress(r, c)
  BY <1>1, <1>2 DEF Progress
<1>5. /\ requests' = requests /\ byMid' \subseteq byMid /\ UNCHANGED serverVars
      /\ byToken' \in [Tokens -> Requests \cup {None}]
      /\ \A t \in Tokens : byToken'[t] \in {byToken[t], None}
  BY DEF Timeout, IInv, Typed
<1> QED BY <1>2, <1>3, <1>4, <1>5, SilentLinks

\* Where an upload is that goes on.
LEMMA UploadingSound ==
    ASSUME IInv, JInv, NEW m \in replies, NEW r \in Requests, Arrives(m, r), Uploading(m, r)
    PROVE  \E n \in 0..LastNum(r) :
              /\ n < LastNum(r) /\ AtBlock(r, client[r], n)
              /\ client[r].current = (n + 1) * Size(r) /\ Upload[r] > Size(r)
              /\ ~Executed(r) /\ client[r].mids = n + 1
              /\ client[r] \in ClientRecords /\ client[r].state # "new"
              /\ client[r].block2 = EarlyBlock2[r] /\ client[r].segmented
<1>1. /\ Size(r) \in BlockSizes /\ Size(r) \in Nat \ {0}
      /\ Upload[r] \in Nat /\ LastNum(r) \in Nat
  BY SizeOf, LastOf
<1>2. client[r].segmented /\ client[r] \in ClientRecords /\ client[r].state # "new"
  BY FoundSound, FoundLinked DEF Uploading
<1>3. Upload[r] > Size(r) /\ \E n \in 0..LastNum(r) : AtBlock(r, client[r], n)
  BY <1>2, FoundSound DEF Segments
<1>4. PICK n \in 0..LastNum(r) : AtBlock(r, client[r], n)
  BY <1>3
<1>5. n \in Nat /\ n * Size(r) \in Nat /\ (n + 1) * Size(r) = n * Size(r) + Size(r)
  BY <1>1, Multiples
<1>6. client[r].current < Upload[r]
  <2>1. Upload[r] - client[r].current > 0 /\ client[r].current \in Nat
    BY <1>2 DEF Uploading, Remaining, ClientRecords
  <2> QED BY <1>1, <2>1
<1>7. n * Size(r) + Size(r) < Upload[r] /\ client[r].current = n * Size(r) + Size(r)
  BY <1>1, <1>4, <1>5, <1>6 DEF AtBlock, Smaller
<1>8. n < LastNum(r)
  <2>1. n # LastNum(r)
    BY <1>1, <1>5, <1>7, LastOf
  <2> QED BY <1>1, <1>5, <2>1
<1>9. Progress(r, client[r]) /\ client[r].num = n
  BY <1>4 DEF JInv, Progressing, AtBlock
<1>10. ~Executed(r)
  BY <1>2, <1>8, <1>9 DEF Progress
<1>11. client[r].mids = n + 1 /\ client[r].block2 = EarlyBlock2[r]
  BY <1>2, <1>9, <1>10 DEF Progress
<1> QED BY <1>2, <1>3, <1>4, <1>5, <1>7, <1>8, <1>10, <1>11

\* The datagram of a block.
LEMMA SegmentDatagram ==
    ASSUME NEW r \in Requests, NEW c \in ClientRecords, NEW n \in 0..LastNum(r),
           c.mids = n + 1, c.block1 = Option1(r, n), c.payload = PieceOf(r, n), c.num = n,
           c.state # "new", c.block2 = EarlyBlock2[r], Upload[r] > Size(r)
    PROVE  LET d == Datagram(r, c)
           IN  d \in DatagramRecords /\ d.mid[1] = r /\ d.token = Token[r] /\ SortedOne(d, c)
<1> DEFINE d == Datagram(r, c)
<1>1. Upload[r] # 0 /\ LastNum(r) \in Nat
  BY SizeOf, LastOf
<1>2. /\ d.mid = Mid(r, n + 1) /\ d.token = Token[r] /\ d.block1 = Option1(r, n)
      /\ d.block2 = EarlyBlock2[r] /\ d.payload = PieceOf(r, n)
  BY DEF Datagram
<1>3. d \in DatagramRecords
  <2>1. IsOf(r, d)
    BY <1>1, BlockDatagram
  <2>2. c.mids > 0
    BY <1>1
  <2> QED BY <2>1, <2>2, DatagramSound
<1> HIDE DEF d
<1>4. IsFirst(d)
  BY <1>2, BlockwiseAssumption DEF IsFirst
<1>5. d.mid[1] = r /\ d.mid[2] - 1 = n
  BY <1>1, <1>2 DEF Mid
<1>6. c.segmented => n <= c.num
  BY <1>1
<1>7. FirstSound(d, c)
  BY <1>1, <1>2, <1>5, <1>6 DEF FirstSound
<1> QED BY <1>2, <1>3, <1>4, <1>5, <1>7 DEF SortedOne, d

\* An acknowledgement of the block that was sent last.
LEMMA AcknowledgedBlock ==
    ASSUME DistinctTokens, IInv, JInv, NEW m \in replies, NEW r \in Requests, Arrives(m, r),
           NEW n \in 0..LastNum(r), n < LastNum(r), Upload[r] > 0,
           m.block1 # None, ParseBlockOption(m.block1).num = n
    PROVE  \E d \in requests : /\ d.token = Token[r] /\ d.mid \in answered
                               /\ d.payload = PieceOf(r, n)
<1>0. LastNum(r) \in Nat /\ LastNum(r) \in 0..LastNum(r)
  BY LastOf
<1>1. PICK d \in requests : d.mid = m.mid /\ d.block1 = m.block1 /\ m.mid \in answered
  BY DEF JInv, ContentSound, ReplySound
<1>2. d \in DatagramRecords /\ SortedOne(d, client[d.mid[1]]) /\ m.token = Token[r]
  BY FoundLinked DEF IInv, Typed, JInv, Sorted
<1>3. d.mid \in Mids /\ d.mid # NoMid
  <2>1. PICK q \in Requests, k \in 1..MaxMids : d.mid = <<q, k>>
    BY <1>2 DEF DatagramRecords, Mids
  <2> QED BY <1>2, <2>1 DEF NoMid, DatagramRecords
<1>4. d.token = Token[d.mid[1]] /\ m.token = Token[d.mid[1]]
  BY <1>1, <1>3 DEF JInv, Linked
<1>5. d.mid[1] = r
  <2>1. d.mid[1] \in Requests
    BY <1>3 DEF Mids
  <2> QED BY <1>2, <1>4, <2>1 DEF DistinctTokens
<1>6. CASE IsFirst(d)
  <2>1. FirstSound(d, client[r])
    BY <1>2, <1>5, <1>6 DEF SortedOne
  <2>2. PICK k \in 0..LastNum(r) : d.block1 = Option1(r, k) /\ d.payload = PieceOf(r, k)
    BY <1>1, <1>5, <2>1 DEF FirstSound
  <2>3. k = n
    BY <1>1, <2>2, Option1Read
  <2> QED BY <1>1, <1>2, <1>4, <2>2, <2>3
<1>7. CASE ~IsFirst(d)
  <2>1. d.block1 = Option1(r, LastNum(r))
    BY <1>1, <1>2, <1>5, <1>7 DEF SortedOne, LaterSound
  <2>2. n = LastNum(r)
    BY <1>0, <1>1, <2>1, Option1Read
  <2> QED BY <1>0, <2>2
<1> QED BY <1>6, <1>7

LEMMA ContinueLinks ==
    ASSUME DistinctTokens, IInv, JInv, NEW m \in replies, ReceiveContinue(m)
    PROVE  JInv'
<1>1. PICK r \in Requests :
        /\ Arrives(m, r) /\ Uploading(m, r) /\ IsCorrectACK(client[r], m.block1)
        /\ Sends(r, ReceiveACK(r, NewMid(client[r])))
        /\ UNCHANGED <<byToken, thrown, serverVars>>
  BY DEF ReceiveContinue
<1>2. PICK n \in 0..LastNum(r) :
        /\ n < LastNum(r) /\ AtBlock(r, client[r], n)
        /\ client[r].current = (n + 1) * Size(r) /\ Upload[r] > Size(r)
        /\ ~Executed(r) /\ client[r].mids = n + 1
        /\ client[r] \in ClientRecords /\ client[r].state # "new"
        /\ client[r].block2 = EarlyBlock2[r] /\ client[r].segmented
  BY <1>1, UploadingSound
<1>3. LastNum(r) \in Nat /\ n \in Nat /\ n + 1 \in 0..LastNum(r) /\ Upload[r] > 0
  BY <1>2, SizeOf, LastOf
<1> DEFINE b == NewMid(client[r])
           s == SendNext(r, b)
           c == ReceiveACK(r, b)
<1>4. client[r].mids + 1 \in 0..MaxMids
  BY <1>1, FoundSound
<1>5. /\ b \in ClientRecords /\ b.current = (n + 1) * Size(r) /\ b.mids = n + 2
      /\ b.state = client[r].state /\ b.block2 = EarlyBlock2[r] /\ b.segmented
  BY <1>2, <1>3, <1>4, SMTT(40) DEF NewMid, ClientRecords
<1> HIDE DEF b
<1>6. /\ s \in ClientRecords /\ s.mids = n + 2 /\ s.block1 = Option1(r, n + 1)
      /\ s.payload = PieceOf(r, n + 1) /\ AtBlock(r, s, n + 1) /\ s.block2 = EarlyBlock2[r]
      /\ s.segmented
  BY <1>2, <1>3, <1>5, SendNextSound
<1>7. s.state = client[r].state
  BY <1>5 DEF SendNext, UpdateBlockState, ClientRecords
<1>8. c = [s EXCEPT !.resends = 0]
  BY DEF ReceiveACK
<1> HIDE DEF s, c
<1>9. /\ c \in ClientRecords /\ c.mids = n + 2 /\ c.block1 = Option1(r, n + 1)
      /\ c.payload = PieceOf(r, n + 1) /\ c.num = n + 1 /\ c.block2 = EarlyBlock2[r]
      /\ c.segmented /\ c.state # "new"
  <2>1. c \in ClientRecords
    BY <1>6, <1>8 DEF ClientRecords, MaxResends
  <2>2. /\ c.mids = s.mids /\ c.block1 = s.block1 /\ c.payload = s.payload /\ c.num = s.num
        /\ c.block2 = s.block2 /\ c.segmented = s.segmented /\ c.state = s.state
    BY <1>6, <1>8 DEF ClientRecords
  <2> QED BY <1>2, <1>6, <1>7, <2>1, <2>2 DEF AtBlock
<1>10. Progress(r, c)
  <2>1. c.mids = c.num + 1
    BY <1>3, <1>9
  <2> QED BY <1>2, <1>3, <1>9, <2>1 DEF Progress
<1>11. client[r].num = n /\ client[r].num <= c.num
  BY <1>2, <1>3, <1>9 DEF AtBlock
<1>12. Confirmed(r, c)
  <2>1. ASSUME NEW k \in 0..n
        PROVE  \E d \in requests : /\ d.token = Token[r] /\ d.mid \in answered
                                   /\ d.payload = PieceOf(r, k)
    <3>1. CASE k = n
      <4>1. m.block1 # None /\ ParseBlockOption(m.block1).num = n
        BY <1>1, <1>11 DEF Uploading, IsCorrectACK
      <4> QED BY <1>1, <1>2, <1>3, <3>1, <4>1, AcknowledgedBlock
    <3>2. CASE k # n
      <4>1. k \in 0..(client[r].num - 1)
        BY <1>3, <1>11, <3>2
      <4> QED BY <1>2, <4>1 DEF JInv, Confirmed
    <3> QED BY <3>1, <3>2
  <2>2. 0..(c.num - 1) = 0..n
    BY <1>3, <1>9
  <2> QED BY <2>1, <2>2 DEF Confirmed
<1> DEFINE D == {Datagram(r, c)}
<1>13. D \subseteq DatagramRecords
       /\ \A d \in D : d.mid[1] = r /\ d.token = Token[r] /\ SortedOne(d, c)
  <2>1. c.mids = (n + 1) + 1
    BY <1>3, <1>9
  <2> QED BY <1>2, <1>3, <1>9, <2>1, SegmentDatagram
<1>14. /\ client' = [client EXCEPT ![r] = c] /\ requests' = requests \cup D
       /\ byMid' = (byMid \ {Mid(r, client[r].mids)}) \cup {Mid(r, c.mids)}
       /\ byToken' = byToken /\ UNCHANGED serverVars
  BY <1>1 DEF Sends, b, c
<1>15. \A x \in byMid' : (x[1] = r => x[2] = c.mids) /\ (x[1] # r => x \in byMid)
  BY <1>14, MidReplaced
<1>16. byToken' \in [Tokens -> Requests \cup {None}]
  BY <1>14 DEF IInv, Typed
<1> HIDE DEF D
<1> QED BY <1>2, <1>9, <1>10, <1>11, <1>12, <1>13, <1>14, <1>15, <1>16, ClientLinks, ZenonT(60)

LEMMA StaleLinks ==
    ASSUME IInv, JInv, NEW m \in replies, ReceiveStale(m)
    PROVE  JInv'
<1>1. PICK r \in Requests :
        /\ Arrives(m, r) /\ Uploading(m, r)
        /\ IF client[r].resends < MaxResends
           THEN /\ client' = [client EXCEPT ![r] = ResendPreviousPacket(r, @)]
                /\ requests' = requests \cup {Datagram(r, client'[r])}
                /\ UNCHANGED thrown
           ELSE /\ client' = [client EXCEPT ![r].armed = FALSE]
                /\ thrown' = TRUE
                /\ UNCHANGED requests
        /\ UNCHANGED <<byMid, byToken, serverVars>>
  BY DEF ReceiveStale
<1>2. PICK n \in 0..LastNum(r) :
        /\ n < LastNum(r) /\ AtBlock(r, client[r], n)
        /\ client[r].current = (n + 1) * Size(r) /\ Upload[r] > Size(r)
        /\ ~Executed(r) /\ client[r].mids = n + 1
        /\ client[r] \in ClientRecords /\ client[r].state # "new"
        /\ client[r].block2 = EarlyBlock2[r] /\ client[r].segmented
  BY <1>1, UploadingSound
<1>3. /\ client \in [Requests -> ClientRecords] /\ Upload[r] > 0 /\ n \in Nat
      /\ Progress(r, client[r]) /\ client[r].num = n
      /\ UNCHANGED serverVars /\ byMid' = byMid /\ byToken' = byToken
      /\ byToken' \in [Tokens -> Requests \cup {None}]
  BY <1>1, <1>2, SizeOf, LastOf DEF IInv, Typed, JInv, Progressing, AtBlock
<1>4. CASE client[r].resends < MaxResends
  <2> DEFINE b == [client[r] EXCEPT !.current = client[r].last]
             s == SendNext(r, b)
             c == ResendPreviousPacket(r, client[r])
  <2>1. /\ b \in ClientRecords /\ b.current = n * Size(r) /\ b.mids = n + 1
        /\ b.resends = client[r].resends /\ b.state = client[r].state
        /\ b.block2 = EarlyBlock2[r] /\ b.segmented
    BY <1>2 DEF ClientRecords, AtBlock
  <2>2. c = [s EXCEPT !.resends = @ + 1]
    BY DEF ResendPreviousPacket
  <2> HIDE DEF b
  <2>3. /\ s \in ClientRecords /\ s.mids = n + 1 /\ s.block1 = Option1(r, n)
        /\ s.payload = PieceOf(r, n) /\ AtBlock(r, s, n) /\ s.resends < MaxResends
        /\ s.block2 = EarlyBlock2[r] /\ s.segmented
    BY <1>2, <1>4, <2>1, SendNextSound
  <2>4. s.state = client[r].state
    BY <2>1 DEF SendNext, UpdateBlockState, ClientRecords
  <2> HIDE DEF s
  <2>5. /\ c \in ClientRecords /\ c.mids = n + 1 /\ c.block1 = Option1(r, n)
        /\ c.payload = PieceOf(r, n) /\ c.num = n /\ c.block2 = EarlyBlock2[r]
        /\ c.segmented /\ c.state # "new"
    BY <1>2, <2>2, <2>3, <2>4, SMTT(40) DEF ClientRecords, AtBlock, MaxResends
  <2>6. client' = [client EXCEPT ![r] = c]
    BY <1>1, <1>4
  <2> HIDE DEF c
  <2>7. client'[r] = c
    BY <1>3, <2>6
  <2> DEFINE D == {Datagram(r, c)}
  <2>8. requests' = requests \cup D
    BY <1>1, <1>4, <2>7
  <2>9. D \subseteq DatagramRecords
        /\ \A d \in D : d.mid[1] = r /\ d.token = Token[r] /\ SortedOne(d, c)
    BY <1>2, <2>5, SegmentDatagram
  <2>10. Progress(r, c)
    BY <1>2, <1>3, <2>5 DEF Progress
  <2>11. Confirmed(r, c) /\ client[r].num <= c.num
    BY <1>2, <1>3, <2>5 DEF JInv, Confirmed
  <2>12. \A x \in byMid' : (x[1] = r => x[2] = c.mids) /\ (x[1] # r => x \in byMid)
    BY <1>2, <1>3, <2>5 DEF JInv, Linked
  <2> HIDE DEF D
  <2> QED BY <1>2, <1>3, <2>5, <2>6, <2>8, <2>9, <2>10, <2>11, <2>12, ClientLinks
<1>5. CASE ~(client[r].resends < MaxResends)
  <2> DEFINE c == [client[r] EXCEPT !.armed = FALSE]
  <2>1. /\ c \in ClientRecords /\ c.state = client[r].state /\ c.mids = client[r].mids
        /\ c.num = client[r].num /\ c.segmented = client[r].segmented
        /\ c.block1 = client[r].block1 /\ c.block2 = client[r].block2
    BY <1>2 DEF ClientRecords
  <2>2. client' = [client EXCEPT ![r] = c] /\ requests' = requests
    BY <1>1, <1>5
  <2> HIDE DEF c
  <2>3. Progress(r, c)
    BY <1>2, <1>3, <2>1 DEF Progress
  <2> QED BY <1>2, <1>3, <2>1, <2>2, <2>3, SilentLinks
<1> QED BY <1>4, <1>5

\* A reply to the whole request leaves it behind, and an upload with it.
LEMMA SettledLinks ==
    ASSUME IInv, JInv, NEW m \in replies, NEW r \in Requests, Arrives(m, r)
    PROVE  LET b == Settled(m, r)
           IN  /\ b \in ClientRecords /\ Segments(r, b) /\ Progress(r, b)
               /\ b.state # "new" /\ b.mids = client[r].mids /\ b.num = client[r].num
               /\ b.segmented => client[r].segmented
               /\ b.total = client[r].total /\ b.response = client[r].response
<1> DEFINE b == Settled(m, r)
<1>1. client[r] \in ClientRecords /\ Progress(r, client[r]) /\ client[r].state # "new"
  BY FoundSound, FoundLinked DEF JInv, Progressing
<1>2. PICK ends \in BOOLEAN : ends = (m.block1 # None /\ client[r].segmented)
  OBVIOUS
<1>3. b = [client[r] EXCEPT !.armed = FALSE, !.segmented = @ /\ ~ends,
                            !.block1 = IF ends THEN None ELSE @]
  BY <1>2 DEF Settled
<1>4. b \in ClientRecords /\ Segments(r, b)
  BY SettledSound
<1> HIDE DEF b
<1>5. CASE ends
  <2>1. b = [client[r] EXCEPT !.armed = FALSE, !.segmented = FALSE, !.block1 = None]
    BY <1>1, <1>3, <1>5 DEF ClientRecords
  <2>2. /\ b.state = client[r].state /\ b.mids = client[r].mids /\ b.num = client[r].num
        /\ b.total = client[r].total /\ b.response = client[r].response
        /\ b.block2 = client[r].block2 /\ b.block1 = None /\ ~b.segmented
    BY <1>1, <2>1 DEF ClientRecords
  <2>3. Progress(r, b)
    BY <1>1, <2>2 DEF Progress
  <2> QED BY <1>1, <1>4, <2>2, <2>3 DEF b
<1>6. CASE ~ends
  <2>1. b = [client[r] EXCEPT !.armed = FALSE]
    BY <1>1, <1>3, <1>6 DEF ClientRecords
  <2>2. /\ b.state = client[r].state /\ b.mids = client[r].mids /\ b.num = client[r].num
        /\ b.total = client[r].total /\ b.response = client[r].response
        /\ b.block2 = client[r].block2 /\ b.block1 = client[r].block1
        /\ b.segmented = client[r].segmented
    BY <1>1, <2>1 DEF ClientRecords
  <2>3. Progress(r, b)
    BY <1>1, <2>2 DEF Progress
  <2> QED BY <1>1, <1>4, <2>2, <2>3 DEF b
<1> QED BY <1>5, <1>6

LEMMA BlockLinks ==
    ASSUME DistinctTokens, IInv, JInv, NEW m \in replies, ReceiveBlock(m)
    PROVE  JInv'
<1> DEFINE C(r) == [NewMid(Settled(m, r)) EXCEPT
                       !.total = Append(@, m.payload), !.payload = Nothing,
                       !.block2 = NextBlock2(m), !.armed = TRUE]
<1>1. PICK r \in Requests :
        /\ Arrives(m, r) /\ MoreToCome(m)
        /\ client' = [client EXCEPT ![r] = C(r)]
        /\ requests' = requests \cup {Datagram(r, C(r))}
        /\ byMid' = (MidsAfter(m) \ {Mid(r, client[r].mids)}) \cup {Mid(r, C(r).mids)}
        /\ UNCHANGED <<byToken, thrown, serverVars>>
  BY DEF ReceiveBlock
<1>2. PICK b \in ClientRecords :
        /\ b = Settled(m, r) /\ Segments(r, b) /\ Progress(r, b)
        /\ b.state # "new" /\ b.mids = client[r].mids /\ b.num = client[r].num
        /\ b.segmented => client[r].segmented
  BY <1>1, SettledLinks
<1>3. /\ b.mids + 1 \in 0..MaxMids /\ m.payload \in Pieces /\ Announces(m.block2)
      /\ MidsAfter(m) \subseteq byMid
  BY <1>1, <1>2, FoundSound DEF ReplyRecords, MidsAfter
<1>4. PICK next \in Buffers : next = NextBlock2(m) /\ next # None
                              /\ ParseBlock2(next) # None /\ ~(ParseBlock2(next).num < 1)
  BY <1>1, <1>3, NextBlockSound
<1>5. PICK total \in Seq(Pieces) : total = Append(b.total, m.payload)
  <2>1. b.total \in Seq(Pieces)
    BY DEF ClientRecords
  <2> QED BY <1>3, <2>1, AppendProperties
<1>6. Nothing \in Pieces
  BY DEF Pieces, Nothing, Piece
<1> DEFINE c == C(r)
<1>7. c = [b EXCEPT !.mids = b.mids + 1, !.total = total, !.payload = Nothing,
                    !.block2 = next, !.armed = TRUE]
  BY <1>2, <1>4, <1>5 DEF NewMid, ClientRecords
<1> HIDE DEF c
<1>8. c \in ClientRecords
  BY <1>3, <1>6, <1>7 DEF ClientRecords
<1>9. /\ c.mids = b.mids + 1 /\ c.block1 = b.block1 /\ c.payload = Nothing /\ c.block2 = next
      /\ c.segmented = b.segmented /\ c.num = b.num /\ c.last = b.last /\ c.current = b.current
      /\ c.state = b.state
  BY <1>7 DEF ClientRecords
<1>10. b.mids \in Nat /\ c.mids > 0
  BY <1>3, <1>9 DEF ClientRecords
<1>11. Executed(r)
  <2>1. m.token = Token[r] /\ m.block2 # None
    BY <1>1, FoundLinked DEF MoreToCome
  <2> QED BY <2>1 DEF JInv, ContentSound, ReplySound
<1>12. Progress(r, c)
  BY <1>2, <1>9, <1>11 DEF Progress
<1> DEFINE d == Datagram(r, c)
           D == {d}
<1>13. /\ d.mid = Mid(r, c.mids) /\ d.token = Token[r] /\ d.block1 = c.block1
       /\ d.block2 = next /\ d.payload = Nothing
  BY <1>9 DEF Datagram
<1>14. d \in DatagramRecords
  <2>1. Segments(r, c)
    BY <1>2, <1>9, <1>10 DEF Segments, AtBlock
  <2>2. IsOf(r, d)
    BY <1>4, <1>9, <2>1, NextDatagram DEF Segments
  <2> QED BY <1>8, <1>10, <2>2, DatagramSound
<1> HIDE DEF d
<1>15. SortedOne(d, c)
  <2>1. ~IsFirst(d)
    BY <1>4, <1>13 DEF IsFirst
  <2>2. d.block1 # None => Upload[r] > 0 /\ d.block1 = Option1(r, LastNum(r))
    BY <1>11, <1>12, <1>13 DEF Progress
  <2>3. d.mid[1] = r
    BY <1>13 DEF Mid
  <2> QED BY <1>11, <2>1, <2>2, <2>3 DEF SortedOne, LaterSound
<1>16. /\ D \subseteq DatagramRecords /\ requests' = requests \cup D
       /\ \A e \in D : e.mid[1] = r /\ e.token = Token[r] /\ SortedOne(e, c)
  BY <1>1, <1>13, <1>14, <1>15 DEF c, d, Mid
<1>17. \A x \in byMid' : (x[1] = r => x[2] = c.mids) /\ (x[1] # r => x \in byMid)
  BY <1>1, <1>3, MidReplaced DEF c
<1>18. /\ byToken' = byToken /\ byToken' \in [Tokens -> Requests \cup {None}]
       /\ client' = [client EXCEPT ![r] = c] /\ UNCHANGED serverVars
  BY <1>1 DEF IInv, Typed, c
<1>19. client[r].num <= c.num
  BY <1>2, <1>9 DEF ClientRecords
<1>20. Confirmed(r, c)
  BY <1>2, <1>9 DEF JInv, Confirmed
<1> HIDE DEF D
<1> QED BY <1>2, <1>8, <1>9, <1>12, <1>16, <1>17, <1>18, <1>19, <1>20, ClientLinks

LEMMA ResponseLinks ==
    ASSUME IInv, JInv, NEW m \in replies, ReceiveResponse(m)
    PROVE  JInv'
<1> DEFINE C(r) == [Settled(m, r) EXCEPT
                       !.total = IF m.block2 # None THEN <<>> ELSE @,
                       !.response = IF @ # None THEN @
                           ELSE [code |-> m.code, body |-> Body(m, r), format |-> m.format]]
<1>1. PICK r \in Requests :
        /\ Arrives(m, r)
        /\ client' = [client EXCEPT ![r] = C(r)]
        /\ byMid' = MidsAfter(m)
        /\ byToken' = IF client[r].response # None THEN byToken
                      ELSE [byToken EXCEPT ![Token[r]] = None]
        /\ UNCHANGED <<thrown, requests, serverVars>>
  BY DEF ReceiveResponse
<1>2. PICK b \in ClientRecords :
        /\ b = Settled(m, r) /\ Progress(r, b)
        /\ b.state # "new" /\ b.mids = client[r].mids /\ b.num = client[r].num
        /\ b.segmented => client[r].segmented
  BY <1>1, SettledLinks
<1> DEFINE c == C(r)
<1>3. client' = [client EXCEPT ![r] = c]
  BY <1>1
<1>4. c \in ClientRecords
  <2>1. client' \in [Requests -> ClientRecords] /\ client \in [Requests -> ClientRecords]
    BY ResponseKeeps DEF IInv, Typed
  <2> HIDE DEF c
  <2>2. client'[r] = c
    BY <1>3, <2>1
  <2> QED BY <2>1, <2>2
<1>5. /\ c.mids = b.mids /\ c.block1 = b.block1 /\ c.block2 = b.block2
      /\ c.segmented = b.segmented /\ c.num = b.num /\ c.state = b.state
  BY <1>2 DEF ClientRecords
<1> HIDE DEF c
<1>6. Progress(r, c)
  BY <1>2, <1>5 DEF Progress
<1>7. /\ requests' = requests /\ byMid' \subseteq byMid /\ UNCHANGED serverVars
      /\ byToken' \in [Tokens -> Requests \cup {None}]
      /\ \A t \in Tokens : byToken'[t] \in {byToken[t], None}
  BY <1>1 DEF IInv, Typed, MidsAfter
<1> QED BY <1>2, <1>3, <1>4, <1>5, <1>6, <1>7, SilentLinks

-----------------------------------------------------------------------------
\* What a step of the server has to show.
LEMMA ServerLinks ==
    ASSUME IInv, JInv, UNCHANGED clientVars,
           NEW R, replies' = replies \cup R,
           \A x \in R : (x.mid # NoMid => x.token = Token[x.mid[1]]) /\ ReplySound(x)',
           answered \subseteq answered',
           \A p \in waiting' :
               /\ p.token = Token[p.mid[1]]
               /\ ~p.lost => \A r \in Requests : Token[r] = p.token => Executed(r)',
           CacheLinked', OnceEach',
           \A r \in Requests : Executed(r) => Executed(r)',
           \A r \in Requests : Executed(r)' /\ ~Executed(r) =>
               /\ client[r].segmented => client[r].num = LastNum(r)
               /\ \A n \in 1..LastNum(r) : Mid(r, n) \in answered'
               /\ \E m \in requests : IsFirst(m) /\ m.mid = Mid(r, LastNum(r) + 1)
    PROVE  JInv'
<1>1. UNCHANGED <<client, byMid, byToken, requests>> /\ requests \subseteq DatagramRecords
  BY DEF clientVars, IInv, Typed
<1>2. Linked'
  BY <1>1 DEF JInv, Linked
<1>3. Sorted'
  <2>1. ASSUME NEW m \in requests PROVE SortedOne(m, client[m.mid[1]])'
    <3>1. SortedOne(m, client[m.mid[1]]) /\ m.mid[1] \in Requests
      BY <1>1 DEF JInv, Sorted, DatagramRecords, Mids
    <3> QED BY <1>1, <3>1 DEF SortedOne, FirstSound, LaterSound
  <2> QED BY <1>1, <2>1 DEF Sorted
<1>4. Progressing'
  <2>1. ASSUME NEW r \in Requests PROVE Progress(r, client[r])'
    <3>1. Progress(r, client[r])
      BY DEF JInv, Progressing
    <3> QED BY <1>1, <3>1 DEF Progress
  <2> QED BY <2>1 DEF Progressing
<1>5. ExecutedSound'
  <2>1. ASSUME NEW r \in Requests, Executed(r)'
        PROVE  /\ \A n \in 1..LastNum(r) : Mid(r, n) \in answered'
               /\ \E m \in requests : IsFirst(m) /\ m.mid = Mid(r, LastNum(r) + 1)
    BY <2>1 DEF JInv, ExecutedSound
  <2> QED BY <1>1, <2>1 DEF ExecutedSound
<1>6. ContentSound'
  <2>1. ASSUME NEW m \in replies PROVE ReplySound(m)'
    <3>1. ReplySound(m)
      BY DEF JInv, ContentSound
    <3> QED BY <1>1, <3>1 DEF ReplySound
  <2>2. \A m \in replies' : ReplySound(m)'
    BY <2>1
  <2> QED BY <2>2 DEF ContentSound
<1>7. (\A r \in Requests : Confirmed(r, client[r]))'
  <2>1. ASSUME NEW r \in Requests PROVE Confirmed(r, client[r])'
    <3>1. Confirmed(r, client[r])
      BY DEF JInv
    <3> QED BY <1>1, <3>1 DEF Confirmed
  <2> QED BY <2>1
<1> QED BY <1>2, <1>3, <1>4, <1>5, <1>6, <1>7 DEF JInv

\* Options come with content only.
LEMMA EndCode ==
    ASSUME NEW block2, NEW v
    PROVE  End(block2, v).block2 # None => End(block2, v).code = "content"
<1>1. Refusal.block2 = None
  BY DEF Refusal
<1>2. EmptyBlock(v).code = "content"
  BY DEF EmptyBlock
<1>3. \A num, size : ServedBlock(v, num, size).code = "content"
  BY DEF ServedBlock
<1> DEFINE asked == ParseBlock2(block2)
           size == Smaller(asked.size, MaxBlock2)
           whole == [code |-> "content", block2 |-> None, served |-> FALSE,
                     payload |-> Piece(v, 0, Representations[v])]
<1>4. whole.code = "content"
  OBVIOUS
<1>5. \/ End(block2, v) = whole \/ End(block2, v) = ServedBlock(v, 0, MaxBlock2)
      \/ End(block2, v) = Refusal \/ End(block2, v) = EmptyBlock(v)
      \/ End(block2, v) = ServedBlock(v, asked.num, size)
  BY Zenon DEF End
<1> QED BY <1>1, <1>2, <1>3, <1>4, <1>5, Zenon

\* The answer to a response object whose request has been executed.
LEMMA ResponseLinked ==
    ASSUME NEW p \in WaitingRecords, NEW v, NEW format, p.token = Token[p.mid[1]],
           \A r \in Requests : Token[r] = p.token => Executed(r)'
    PROVE  LET x == Response(p, v, format)
           IN  (x.mid # NoMid => x.token = Token[x.mid[1]]) /\ ReplySound(x)'
<1> DEFINE a == End(p.block2, v)
           type == IF p.acked THEN "con" ELSE "ack"
           mid == IF p.acked THEN NoMid ELSE p.mid
           x == Response(p, v, format)
<1>1. a.block2 # None => a.code = "content"
  BY EndCode
<1> HIDE DEF a, type, mid
<1>2. x = [type |-> type, mid |-> mid, token |-> p.token, code |-> a.code, block1 |-> None,
           block2 |-> a.block2, payload |-> a.payload, format |-> format]
  <2>1. x = [Reply(type, mid, p.token, a.code, a.payload)
                EXCEPT !.block2 = a.block2, !.format = format]
    BY Zenon DEF Response, a, type, mid
  <2> HIDE DEF x
  <2> QED BY <2>1 DEF Reply
<1> HIDE DEF x
<1>3. /\ x.mid = mid /\ x.token = p.token /\ x.code = a.code /\ x.block1 = None
      /\ x.block2 = a.block2
  BY <1>2
<1>4. x.mid # NoMid => x.token = Token[x.mid[1]]
  BY <1>3 DEF mid
<1>5. ReplySound(x)'
  BY <1>1, <1>3 DEF ReplySound
<1> QED BY <1>4, <1>5 DEF x

\* Who asks for a later block has been executed.
LEMMA LaterExecuted ==
    ASSUME DistinctTokens, IInv, JInv, NEW m \in requests, ~IsFirst(m),
           NEW r \in Requests, Token[r] = m.token
    PROVE  /\ Executed(r) /\ m.mid[1] = r
           /\ m.block1 # None => Upload[r] > 0 /\ m.block1 = Option1(r, LastNum(r))
<1>1. m.mid[1] \in Requests
  BY DEF IInv, Typed, DatagramRecords, Mids
<1>2. m.token = Token[m.mid[1]] /\ LaterSound(m)
  BY DEF JInv, Linked, Sorted, SortedOne
<1>3. m.mid[1] = r
  BY <1>1, <1>2 DEF DistinctTokens
<1> QED BY <1>2, <1>3 DEF LaterSound

\* Nothing is executed: what has been stays.
LEMMA NothingExecuted ==
    ASSUME bodies' = bodies
    PROVE  /\ \A r : Executed(r)' <=> Executed(r)
           /\ OnceEach => OnceEach'
BY DEF Executed, OnceEach, FirstsOf, ExecutionsOf

LEMMA ServeLinks ==
    ASSUME DistinctTokens, IInv, JInv, NEW m \in requests, Serve(m)
    PROVE  JInv'
<1>1. m \in DatagramRecords
  BY DEF IInv, Typed
<1>2. PICK entry : entry = block2Cache[m.token]
  OBVIOUS
<1>3. PICK p \in WaitingRecords : p = ResponseObject(m) /\ p.mid = m.mid /\ p.token = m.token
  BY <1>1, ResponseObjectTyped
<1> DEFINE x == Response(p, entry.version, entry.format)
           R == {x}
<1>4. /\ replies' = replies \cup R /\ answered \subseteq answered'
      /\ UNCHANGED <<clientVars, block1Cache, waiting, version, bodies>>
  BY <1>2, <1>3 DEF Serve, Sent
<1>5. p.token = Token[p.mid[1]]
  BY <1>3 DEF JInv, Linked
<1>6. (\A r : Executed(r)' <=> Executed(r)) /\ OnceEach'
  BY <1>4, NothingExecuted DEF JInv
<1>7. \A r \in Requests : Token[r] = p.token => Executed(r)'
  BY <1>3, <1>6, LaterExecuted DEF Serve, FromCache
<1>8. (x.mid # NoMid => x.token = Token[x.mid[1]]) /\ ReplySound(x)'
  BY <1>5, <1>7, ResponseLinked
<1> HIDE DEF x
<1>9. \A y \in R : (y.mid # NoMid => y.token = Token[y.mid[1]]) /\ ReplySound(y)'
  BY <1>8
<1>10. \A q \in waiting' :
         /\ q.token = Token[q.mid[1]]
         /\ ~q.lost => \A r \in Requests : Token[r] = q.token => Executed(r)'
  BY <1>4, <1>6 DEF JInv, Linked, ContentSound
<1>11. CacheLinked'
  BY <1>4, <1>6 DEF JInv, CacheLinked
<1> HIDE DEF R
<1> QED BY <1>4, <1>6, <1>9, <1>10, <1>11, ServerLinks

LEMMA AnswerLinks ==
    ASSUME IInv, JInv, NEW p \in waiting, Answer(p)
    PROVE  JInv'
<1>1. p \in WaitingRecords /\ p.token = Token[p.mid[1]] /\ ~p.lost
  BY DEF IInv, Typed, JInv, Linked, Answer
<1>0. PICK v : v = version
  OBVIOUS
<1> DEFINE x == Response(p, v, TRUE)
           R == {x}
<1>2. /\ replies' = replies \cup R /\ answered \subseteq answered' /\ waiting' \subseteq waiting
      /\ UNCHANGED <<clientVars, block1Cache, version, bodies>>
  BY <1>0 DEF Answer, Sent
<1>3. (\A r : Executed(r)' <=> Executed(r)) /\ OnceEach'
  BY <1>2, NothingExecuted DEF JInv
<1>4. \A r \in Requests : Token[r] = p.token => Executed(r)'
  BY <1>1, <1>3 DEF JInv, ContentSound
<1>5. (x.mid # NoMid => x.token = Token[x.mid[1]]) /\ ReplySound(x)'
  BY <1>1, <1>4, ResponseLinked
<1> HIDE DEF x
<1>6. \A y \in R : (y.mid # NoMid => y.token = Token[y.mid[1]]) /\ ReplySound(y)'
  BY <1>5
<1>7. \A q \in waiting' :
         /\ q.token = Token[q.mid[1]]
         /\ ~q.lost => \A r \in Requests : Token[r] = q.token => Executed(r)'
  BY <1>2, <1>3 DEF JInv, Linked, ContentSound
<1>8. CacheLinked'
  BY <1>2, <1>3 DEF JInv, CacheLinked
<1> HIDE DEF R
<1> QED BY <1>2, <1>3, <1>6, <1>7, <1>8, ServerLinks

\* A reply that is no response.
LEMMA PlainReply ==
    ASSUME NEW type, NEW m, NEW code \in {"error", "empty"}, m.token = Token[m.mid[1]]
    PROVE  LET x == Reply(type, m.mid, m.token, code, Nothing)
           IN  (x.mid # NoMid => x.token = Token[x.mid[1]]) /\ ReplySound(x)'
BY DEF Reply, ReplySound

LEMMA AckTimerLinks ==
    ASSUME IInv, JInv, NEW p \in waiting, AckTimer(p)
    PROVE  JInv'
<1>1. p \in WaitingRecords /\ p.token = Token[p.mid[1]]
  BY DEF IInv, Typed, JInv, Linked
<1> DEFINE x == Reply("ack", p.mid, p.token, "empty", Nothing)
           R == {x}
           q == [p EXCEPT !.acked = TRUE]
<1>2. /\ replies' = replies \cup R /\ answered \subseteq answered'
      /\ waiting' = (waiting \ {p}) \cup {q}
      /\ UNCHANGED <<clientVars, block1Cache, version, bodies>>
  BY DEF AckTimer
<1>3. (\A r : Executed(r)' <=> Executed(r)) /\ OnceEach'
  BY <1>2, NothingExecuted DEF JInv
<1>4. \A y \in R : (y.mid # NoMid => y.token = Token[y.mid[1]]) /\ ReplySound(y)'
  BY <1>1, PlainReply
<1>5. q.mid = p.mid /\ q.token = p.token /\ q.lost = p.lost
  BY <1>1 DEF WaitingRecords
<1> HIDE DEF R, q
<1>6. \A o \in waiting' :
         /\ o.token = Token[o.mid[1]]
         /\ ~o.lost => \A r \in Requests : Token[r] = o.token => Executed(r)'
  BY <1>1, <1>2, <1>3, <1>5 DEF JInv, Linked, ContentSound
<1>7. CacheLinked'
  BY <1>2, <1>3 DEF JInv, CacheLinked
<1> QED BY <1>2, <1>3, <1>4, <1>6, <1>7, ServerLinks

LEMMA ForgetLinks ==
    ASSUME IInv, JInv, UNCHANGED <<clientVars, replies, answered, waiting, bodies>>,
           \A t \in Tokens : block1Cache'[t] \in {block1Cache[t], <<>>}
    PROVE  JInv'
<1> DEFINE R == {}
<1>1. \A y \in R : (y.mid # NoMid => y.token = Token[y.mid[1]]) /\ ReplySound(y)'
  OBVIOUS
<1>2. replies' = replies \cup R
  OBVIOUS
<1>3. (\A r : Executed(r)' <=> Executed(r)) /\ OnceEach'
  BY NothingExecuted DEF JInv
<1>4. \A q \in waiting' :
         /\ q.token = Token[q.mid[1]]
         /\ ~q.lost => \A r \in Requests : Token[r] = q.token => Executed(r)'
  BY <1>3 DEF JInv, Linked, ContentSound
<1>5. CacheLinked'
  <2>1. \A r \in Requests : block1Cache'[Token[r]] \in {block1Cache[Token[r]], <<>>}
    BY SizeOf
  <2>2. DOMAIN <<>> = {}
    BY EmptySeq
  <2>3. \A r \in Requests : \A i \in DOMAIN block1Cache'[Token[r]] : i \in DOMAIN block1Cache[Token[r]]
    BY <2>1, <2>2
  <2> QED BY <1>3, <2>3 DEF JInv, CacheLinked
<1> HIDE DEF R
<1> QED BY <1>1, <1>2, <1>3, <1>4, <1>5, ServerLinks

\* A block that is not the last carries a message id of its own.
LEMMA StoredFirst ==
    ASSUME DistinctTokens, IInv, JInv, NEW m \in requests, NEW r \in Requests,
           Token[r] = m.token, m.block1 # None
    PROVE  \E n \in 0..LastNum(r) :
              /\ ByteIndex(m) = n * Size(r) /\ (IsLast(m) <=> n = LastNum(r)) /\ Upload[r] > 0
              /\ IsFirst(m) => m.mid = Mid(r, n + 1) /\ m.payload = PieceOf(r, n)
              /\ ~IsFirst(m) => n = LastNum(r)
<1>0. LastNum(r) \in Nat /\ LastNum(r) \in 0..LastNum(r) /\ Upload[r] \in Nat
  BY LastOf, SizeOf
<1>1. PICK q \in Requests, k \in 1..MaxMids : m.mid = <<q, k>>
  BY DEF IInv, Typed, DatagramRecords, Mids
<1>2. q = r
  <2>1. m.token = Token[q]
    BY <1>1 DEF JInv, Linked
  <2> QED BY <2>1 DEF DistinctTokens
<1>3. ASSUME NEW n \in 0..LastNum(r), m.block1 = Option1(r, n)
      PROVE  ByteIndex(m) = n * Size(r) /\ (IsLast(m) <=> n = LastNum(r))
  <2>1. ParseBlockOption(m.block1)
          = [num |-> n, more |-> IF n < LastNum(r) THEN 1 ELSE 0, size |-> Exponent[r]]
    BY <1>3, Option1Read
  <2>2. ByteIndex(m) = n * Size(r)
    BY <2>1 DEF ByteIndex, Size
  <2>3. IsLast(m) <=> n = LastNum(r)
    BY <1>0, <2>1 DEF IsLast
  <2> QED BY <2>2, <2>3
<1>4. CASE IsFirst(m)
  <2>1. FirstSound(m, client[q])
    BY <1>1, <1>4 DEF JInv, Sorted, SortedOne
  <2>2. m.mid[1] = r /\ m.mid[2] = k
    BY <1>1, <1>2
  <2>3. PICK n \in 0..LastNum(r) :
          /\ n = k - 1 /\ m.payload = PieceOf(r, n)
          /\ m.block1 = IF Upload[r] = 0 THEN None ELSE Option1(r, n)
    BY <2>1, <2>2 DEF FirstSound
  <2>4. Upload[r] > 0 /\ m.block1 = Option1(r, n)
    BY <1>0, <2>3
  <2>5. m.mid = Mid(r, n + 1)
    BY <1>1, <1>2, <2>3 DEF Mid
  <2> QED BY <1>3, <1>4, <2>3, <2>4, <2>5
<1>5. CASE ~IsFirst(m)
  <2>1. Upload[r] > 0 /\ m.block1 = Option1(r, LastNum(r))
    BY <1>5, LaterExecuted
  <2> QED BY <1>0, <1>3, <1>5, <2>1
<1> QED BY <1>4, <1>5

\* The request of a datagram.
LEMMA OwnerOf ==
    ASSUME IInv, JInv, NEW m \in requests
    PROVE  \E r \in Requests : m.mid[1] = r /\ m.token = Token[r] /\ m.mid # NoMid
                               /\ Token[r] \in Tokens /\ m \in DatagramRecords
<1>1. PICK q \in Requests, k \in 1..MaxMids : m.mid = <<q, k>>
  BY DEF IInv, Typed, DatagramRecords, Mids
<1>2. m.token = Token[m.mid[1]]
  BY DEF JInv, Linked
<1> QED BY <1>1, <1>2, SizeOf DEF NoMid, IInv, Typed

LEMMA StoreLinks ==
    ASSUME DistinctTokens, IInv, JInv, NEW m \in requests, Store(m)
    PROVE  JInv'
<1>1. PICK r \in Requests : /\ m.mid[1] = r /\ m.token = Token[r] /\ m.mid # NoMid
                            /\ Token[r] \in Tokens /\ m \in DatagramRecords
  BY OwnerOf
<1>2. m.block1 # None /\ ~IsLast(m)
  BY DEF Store
<1>3. PICK n \in 0..LastNum(r) :
        /\ ByteIndex(m) = n * Size(r) /\ n # LastNum(r)
        /\ m.mid = Mid(r, n + 1)
  BY <1>1, <1>2, StoredFirst
<1>4. LastNum(r) \in Nat /\ Size(r) \in BlockSizes /\ n \in Nat /\ n < LastNum(r)
  BY <1>3, LastOf, SizeOf
<1>5. m.mid \notin answered
  BY DEF Store, IsNew
<1>6. ~Executed(r)
  <2>1. n + 1 \in 1..LastNum(r)
    BY <1>4
  <2> QED BY <1>3, <1>5, <2>1 DEF JInv, ExecutedSound
<1> DEFINE x == [Reply("ack", m.mid, m.token, "continue", Nothing) EXCEPT !.block1 = m.block1]
           R == {x}
<1>7. /\ replies' = replies \cup R /\ answered' = answered \cup {m.mid}
      /\ block1Cache' = [block1Cache EXCEPT ![m.token] = Stored(m)]
      /\ UNCHANGED <<clientVars, waiting, version, bodies, requests>>
  BY DEF Store, clientVars
<1>8. (\A q : Executed(q)' <=> Executed(q)) /\ OnceEach'
  BY <1>7, NothingExecuted DEF JInv
<1>9. /\ x.mid = m.mid /\ x.token = m.token /\ x.code = "continue" /\ x.block2 = None
      /\ x.block1 = m.block1
  BY DEF Reply
<1> HIDE DEF x
<1>10. \A y \in R : (y.mid # NoMid => y.token = Token[y.mid[1]]) /\ ReplySound(y)'
  <2>1. ReplySound(x)'
    BY <1>7, <1>9 DEF ReplySound
  <2> QED BY <1>1, <1>9, <2>1
<1>11. \A q \in waiting' :
         /\ q.token = Token[q.mid[1]]
         /\ ~q.lost => \A o \in Requests : Token[o] = q.token => Executed(o)'
  BY <1>7, <1>8 DEF JInv, Linked, ContentSound
<1>12. CacheLinked'
  <2>1. DOMAIN Stored(m) = DOMAIN block1Cache[Token[r]] \cup {n * Size(r)}
    BY <1>1, <1>3 DEF Stored
  <2>2. block1Cache'[Token[r]] = Stored(m)
    BY <1>1, <1>7 DEF IInv, Typed
  <2>3. ASSUME NEW q \in Requests, q # r PROVE block1Cache'[Token[q]] = block1Cache[Token[q]]
    <3>1. Token[q] # Token[r] /\ Token[q] \in Tokens
      BY <2>3, SizeOf DEF DistinctTokens
    <3> QED BY <1>1, <1>7, <3>1 DEF IInv, Typed
  <2>4. ASSUME NEW k \in 0..LastNum(r), k < LastNum(r),
               k * Size(r) \in DOMAIN block1Cache'[Token[r]]
        PROVE  Mid(r, k + 1) \in answered'
    <3>1. CASE k * Size(r) = n * Size(r)
      <4>1. k = n
        BY <1>4, <3>1, Multiples
      <4> QED BY <1>3, <1>7, <4>1
    <3>2. CASE k * Size(r) # n * Size(r)
      BY <1>7, <2>1, <2>2, <2>4, <3>2 DEF JInv, CacheLinked
    <3> QED BY <3>1, <3>2
  <2> QED BY <1>6, <1>7, <1>8, <2>3, <2>4 DEF JInv, CacheLinked
<1> HIDE DEF R
<1> QED BY <1>7, <1>8, <1>10, <1>11, <1>12, ServerLinks

\* The end of an upload leaves no blocks but those of one that has a gap.
LEMMA EndedCache ==
    ASSUME DistinctTokens, IInv, JInv, NEW m \in requests, m.block1 # None => IsLast(m),
           block1Cache' = Uploaded(m), NEW r \in Requests, NEW n \in 0..LastNum(r),
           n < LastNum(r), n * Size(r) \in DOMAIN block1Cache'[Token[r]]
    PROVE  n * Size(r) \in DOMAIN block1Cache[Token[r]]
<1>1. Token[r] \in Tokens /\ block1Cache \in [Tokens -> Bodies]
  BY SizeOf DEF IInv, Typed
<1>2. CASE m.block1 = None \/ m.token # Token[r]
  BY <1>1, <1>2 DEF Uploaded
<1>3. CASE m.block1 # None /\ m.token = Token[r]
  <2>1. LastNum(r) \in Nat /\ Size(r) \in BlockSizes /\ n \in Nat
    BY LastOf, SizeOf
  <2>2. ByteIndex(m) = LastNum(r) * Size(r)
    BY <1>3, StoredFirst
  <2>3. n * Size(r) # ByteIndex(m)
    BY <2>1, <2>2, Multiples
  <2>4. block1Cache'[Token[r]] \in {<<>>, Stored(m)}
    BY <1>1, <1>3 DEF Uploaded
  <2>5. DOMAIN <<>> = {}
    BY EmptySeq
  <2>6. DOMAIN Stored(m) = DOMAIN block1Cache[Token[r]] \cup {ByteIndex(m)}
    BY <1>3 DEF Stored
  <2> QED BY <2>3, <2>4, <2>5, <2>6
<1> QED BY <1>2, <1>3

LEMMA RefuseLinks ==
    ASSUME DistinctTokens, IInv, JInv, NEW m \in requests, Refuse(m)
    PROVE  JInv'
<1>1. PICK r \in Requests : /\ m.mid[1] = r /\ m.token = Token[r] /\ m.mid # NoMid
                            /\ Token[r] \in Tokens /\ m \in DatagramRecords
  BY OwnerOf
<1> DEFINE x == Reply("non", m.mid, m.token, "error", Nothing)
           R == {x}
           p == [ResponseObject(m) EXCEPT !.lost = TRUE]
<1>2. /\ replies' = replies \cup R /\ answered' = answered /\ waiting' = waiting \cup {p}
      /\ block1Cache' = Uploaded(m) /\ UNCHANGED <<clientVars, version, bodies>>
      /\ answered \subseteq answered'
  BY DEF Refuse
<1>3. (\A q : Executed(q)' <=> Executed(q)) /\ OnceEach'
  BY <1>2, NothingExecuted DEF JInv
<1>4. \A y \in R : (y.mid # NoMid => y.token = Token[y.mid[1]]) /\ ReplySound(y)'
  BY <1>1, PlainReply
<1>5. p.mid = m.mid /\ p.token = m.token /\ p.lost
  BY DEF ResponseObject
<1> HIDE DEF R, p
<1>6. \A q \in waiting' :
         /\ q.token = Token[q.mid[1]]
         /\ ~q.lost => \A o \in Requests : Token[o] = q.token => Executed(o)'
  BY <1>1, <1>2, <1>3, <1>5 DEF JInv, Linked, ContentSound
<1>7. CacheLinked'
  <2>1. \A q \in Requests : \A n \in 0..LastNum(q) :
          n < LastNum(q) /\ n * Size(q) \in DOMAIN block1Cache'[Token[q]]
            => n * Size(q) \in DOMAIN block1Cache[Token[q]]
    BY <1>2, EndedCache DEF Refuse
  <2>2. \A q \in Requests : 0 * Size(q) = 0 /\ LastNum(q) \in Nat
    BY SizeOf, LastOf
  <2>3. \A q \in Requests : LastNum(q) > 0 =>
          (0 \in DOMAIN block1Cache'[Token[q]] => 0 \in DOMAIN block1Cache[Token[q]])
    BY <2>1, <2>2
  <2> QED BY <1>2, <1>3, <2>1, <2>3 DEF JInv, CacheLinked
<1> QED BY <1>2, <1>3, <1>4, <1>6, <1>7, ServerLinks

-----------------------------------------------------------------------------
\* What is executed first is the last block of an upload, all others of which
\* are in the cache.
LEMMA UploadComplete ==
    ASSUME DistinctTokens, IInv, JInv, NEW m \in requests, Execute(m), IsFirst(m),
           NEW r \in Requests, m.token = Token[r]
    PROVE  /\ m.mid = Mid(r, LastNum(r) + 1)
           /\ m.block1 = None => LastNum(r) = 0
           /\ client[r].segmented => client[r].num = LastNum(r)
           /\ \A k \in 0..LastNum(r) : k < LastNum(r) =>
                 k * Size(r) \in DOMAIN block1Cache[Token[r]] /\ Mid(r, k + 1) \in answered
<1>1. LastNum(r) \in Nat /\ Size(r) \in BlockSizes /\ Upload[r] \in Nat
  BY LastOf, SizeOf
<1>2. PICK q \in Requests, j \in 1..MaxMids : m.mid = <<q, j>>
  BY DEF IInv, Typed, DatagramRecords, Mids
<1>3. q = r
  <2>1. m.token = Token[q]
    BY <1>2 DEF JInv, Linked
  <2> QED BY <2>1 DEF DistinctTokens
<1>4. m.mid[1] = r /\ m.mid[2] = j /\ FirstSound(m, client[r])
  BY <1>2, <1>3 DEF JInv, Sorted, SortedOne
<1>5. j - 1 \in 0..LastNum(r) /\ (client[r].segmented => j - 1 <= client[r].num)
  BY <1>4 DEF FirstSound
<1>6. client[r].segmented => client[r].num \in 0..LastNum(r)
  BY DEF IInv, ClientsSegment, Segments, AtBlock
<1>7. CASE m.block1 = None
  <2>1. Upload[r] = 0
    <3>1. j - 1 \in 0..LastNum(r) => Option1(r, j - 1) # None
      BY Option1Read, NoneApart
    <3> QED BY <1>4, <1>5, <1>7, <3>1 DEF FirstSound
  <2>2. LastNum(r) = 0
    BY <2>1 DEF LastNum
  <2>3. j = 1
    BY <1>5, <2>2
  <2>4. client[r].segmented => client[r].num = LastNum(r)
    BY <1>6, <2>2
  <2> QED BY <1>2, <1>3, <2>2, <2>3, <2>4 DEF Mid
<1>8. CASE m.block1 # None
  <2>1. IsLast(m) /\ Complete(m)
    BY <1>8 DEF Execute, Complete
  <2>2. Upload[r] > 0 /\ m.mid = Mid(r, LastNum(r) + 1) /\ ByteIndex(m) = LastNum(r) * Size(r)
    BY <1>8, <2>1, StoredFirst
  <2>3. j = LastNum(r) + 1
    BY <1>2, <2>2 DEF Mid
  <2>4. client[r].segmented => client[r].num = LastNum(r)
    BY <1>1, <1>5, <1>6, <2>3
  <2>5. IsOf(r, m)
    <3>1. PICK o \in Requests : IsOf(o, m)
      BY DEF IInv, DatagramsSound
    <3>2. o = r
      BY <3>1 DEF IsOf, DistinctTokens
    <3> QED BY <3>1, <3>2
  <2>6. Stored(m) = Whole(r)
    BY <1>8, <2>1, <2>5, StoredWhole
  <2>7. DOMAIN block1Cache[Token[r]] \cup {ByteIndex(m)} = Offsets(r)
    BY <2>6 DEF Stored, Whole
  <2>8. ASSUME NEW k \in 0..LastNum(r), k < LastNum(r)
        PROVE  k * Size(r) \in DOMAIN block1Cache[Token[r]] /\ Mid(r, k + 1) \in answered
    <3>1. k * Size(r) \in Offsets(r) /\ k \in Nat /\ k # LastNum(r)
      BY <1>1, <2>8 DEF Offsets
    <3>2. k * Size(r) # ByteIndex(m)
      BY <1>1, <2>2, <3>1, Multiples
    <3>3. k * Size(r) \in DOMAIN block1Cache[Token[r]]
      BY <2>7, <3>1, <3>2
    <3> QED BY <2>8, <3>3 DEF JInv, CacheLinked
  <2> QED BY <1>8, <2>2, <2>4, <2>8
<1> QED BY <1>7, <1>8

LEMMA BodiesGrow ==
    ASSUME DistinctTokens, IInv, NEW m \in requests, Execute(m)
    PROVE  /\ Len(bodies) \in Nat /\ Len(bodies') = Len(bodies) + 1
           /\ \A i \in 1..Len(bodies) : bodies'[i] = bodies[i]
           /\ bodies'[Len(bodies) + 1].token = m.token
           /\ bodies'[Len(bodies) + 1].first = IsFirst(m)
<1>1. PICK e : e = [token |-> m.token, first |-> IsFirst(m), body |-> Payload(m)]
  OBVIOUS
<1>2. bodies' = Append(bodies, e) /\ bodies \in Seq(Executions)
  BY <1>1 DEF Execute, IInv, Typed
<1>3. e.token = m.token /\ e.first = IsFirst(m)
  BY <1>1
<1>4. /\ Len(bodies) \in Nat /\ Len(bodies') = Len(bodies) + 1
      /\ \A i \in 1..Len(bodies) : bodies'[i] = bodies[i]
      /\ bodies'[Len(bodies) + 1] = e
  BY <1>2
<1> QED BY <1>3, <1>4

LEMMA ExecutedGrows ==
    ASSUME DistinctTokens, IInv, NEW m \in requests, Execute(m), NEW r \in Requests
    PROVE  Executed(r)' <=> Executed(r) \/ (Token[r] = m.token /\ IsFirst(m))
<1>1. ASSUME Executed(r)' PROVE Executed(r) \/ (Token[r] = m.token /\ IsFirst(m))
  <2>1. PICK i \in 1..Len(bodies') : bodies'[i].token = Token[r] /\ bodies'[i].first
    BY <1>1 DEF Executed
  <2>2. i \in 1..Len(bodies) \/ i = Len(bodies) + 1
    BY BodiesGrow
  <2>3. CASE i \in 1..Len(bodies)
    BY <2>1, <2>3, BodiesGrow DEF Executed
  <2>4. CASE i = Len(bodies) + 1
    BY <2>1, <2>4, BodiesGrow
  <2> QED BY <2>2, <2>3, <2>4
<1>2. ASSUME Executed(r) PROVE Executed(r)'
  <2>1. PICK i \in 1..Len(bodies) : bodies[i].token = Token[r] /\ bodies[i].first
    BY <1>2 DEF Executed
  <2>2. i \in 1..Len(bodies') /\ bodies'[i] = bodies[i]
    BY BodiesGrow
  <2> QED BY <2>1, <2>2 DEF Executed
<1>3. ASSUME Token[r] = m.token, IsFirst(m) PROVE Executed(r)'
  <2>1. Len(bodies) + 1 \in 1..Len(bodies')
    BY BodiesGrow
  <2> QED BY <1>3, <2>1, BodiesGrow DEF Executed
<1> QED BY <1>1, <1>2, <1>3

\* An upload that has been executed is not complete again.
LEMMA ExecutedNotAgain ==
    ASSUME DistinctTokens, IInv, JInv, NEW m \in requests, Execute(m), IsFirst(m),
           NEW r \in Uploads, m.token = Token[r]
    PROVE  ~Executed(r)
<1>1. r \in Requests /\ Upload[r] > Size(r)
  BY DEF Uploads
<1>2. LastNum(r) \in Nat /\ Size(r) \in Nat /\ Upload[r] \in Nat /\ 0 * Size(r) = 0
  BY <1>1, LastOf, SizeOf
<1>3. LastNum(r) > 0
  <2>1. Upload[r] <= LastNum(r) * Size(r) + Size(r)
    BY <1>1, LastOf
  <2>2. CASE LastNum(r) = 0
    BY <1>1, <1>2, <2>1, <2>2
  <2> QED BY <1>2, <2>2
<1>4. 0 \in DOMAIN block1Cache[Token[r]]
  <2>1. 0 \in 0..LastNum(r)
    BY <1>2
  <2>2. 0 * Size(r) \in DOMAIN block1Cache[Token[r]]
    BY <1>1, <1>3, <2>1, UploadComplete
  <2> QED BY <1>2, <2>2
<1> QED BY <1>1, <1>3, <1>4 DEF JInv, CacheLinked

LEMMA OnceEachKept ==
    ASSUME DistinctTokens, IInv, JInv, NEW m \in requests, Execute(m)
    PROVE  OnceEach'
<1> DEFINE n == Len(bodies) + 1
<1>1. ASSUME NEW r \in Uploads, NEW i \in FirstsOf(Token[r])', NEW j \in FirstsOf(Token[r])'
      PROVE  i = j
  <2>1. i \in 1..n /\ j \in 1..n
    BY BodiesGrow DEF FirstsOf, ExecutionsOf
  <2>2. \A k \in FirstsOf(Token[r])' : k # n => k \in FirstsOf(Token[r])
    <3> TAKE k \in FirstsOf(Token[r])'
    <3>1. k \in 1..n /\ bodies'[k].token = Token[r] /\ bodies'[k].first
      BY BodiesGrow DEF FirstsOf, ExecutionsOf
    <3>2. k # n => k \in 1..Len(bodies)
      BY <3>1, BodiesGrow
    <3> QED BY <3>1, <3>2, BodiesGrow DEF FirstsOf, ExecutionsOf
  <2>3. n \in FirstsOf(Token[r])' => FirstsOf(Token[r]) = {}
    <3>1. SUFFICES ASSUME n \in FirstsOf(Token[r])' PROVE FirstsOf(Token[r]) = {}
      OBVIOUS
    <3>2. m.token = Token[r] /\ IsFirst(m)
      BY <3>1, BodiesGrow DEF FirstsOf, ExecutionsOf
    <3>3. ~Executed(r)
      BY <3>2, ExecutedNotAgain
    <3> QED BY <3>3 DEF Executed, FirstsOf, ExecutionsOf
  <2>4. i \in FirstsOf(Token[r]) /\ j \in FirstsOf(Token[r]) => i = j
    BY DEF JInv, OnceEach
  <2> HIDE DEF n
  <2> QED BY <2>2, <2>3, <2>4
<1> QED BY <1>1 DEF OnceEach

LEMMA ExecuteLinks ==
    ASSUME DistinctTokens, IInv, JInv, NEW m \in requests, Execute(m)
    PROVE  JInv'
<1>1. PICK r \in Requests : /\ m.mid[1] = r /\ m.token = Token[r] /\ m.mid # NoMid
                            /\ Token[r] \in Tokens /\ m \in DatagramRecords
  BY OwnerOf
<1>2. Executed(r)'
  <2>1. CASE IsFirst(m)
    BY <1>1, <2>1, ExecutedGrows
  <2>2. CASE ~IsFirst(m)
    <3>1. Executed(r)
      BY <1>1, <2>2, LaterExecuted
    <3> QED BY <3>1, ExecutedGrows
  <2> QED BY <2>1, <2>2
<1>3. \A q \in Requests : Executed(q) => Executed(q)'
  BY ExecutedGrows
<1>4. \A q \in Requests : Executed(q)' /\ ~Executed(q) => q = r /\ IsFirst(m)
  BY <1>1, ExecutedGrows DEF DistinctTokens
<1>5. PICK p \in WaitingRecords : p = ResponseObject(m) /\ p.mid = m.mid /\ p.token = m.token
  BY <1>1, ResponseObjectTyped
<1>6. \A q \in Requests : Token[q] = m.token => Executed(q)'
  BY <1>1, <1>2 DEF DistinctTokens
<1>7. p.token = Token[p.mid[1]]
  BY <1>1, <1>5
<1>8. answered \subseteq answered' /\ UNCHANGED clientVars /\ requests' = requests
  BY DEF Execute, Sent, clientVars
<1>0. PICK v : v = version
  OBVIOUS
<1> DEFINE x == Response(p, v, TRUE)
<1>9. (x.mid # NoMid => x.token = Token[x.mid[1]]) /\ ReplySound(x)'
  BY <1>5, <1>6, <1>7, ResponseLinked, ZenonT(60)
<1>14. replies' = replies \cup {x} \/ replies' = replies
  BY <1>0, <1>5 DEF Execute, Sent
<1> HIDE DEF x
<1>15. PICK R : R = replies' \ replies
  OBVIOUS
<1>17. R \subseteq {x} /\ replies' = replies \cup R
  BY <1>14, <1>15
<1>16. \A y \in R : (y.mid # NoMid => y.token = Token[y.mid[1]]) /\ ReplySound(y)'
  BY <1>9, <1>17
<1>10. \A q \in waiting' :
         /\ q.token = Token[q.mid[1]]
         /\ ~q.lost => \A o \in Requests : Token[o] = q.token => Executed(o)'
  <2>1. waiting' \subseteq waiting \cup {p}
    BY <1>5 DEF Execute
  <2> QED BY <1>3, <1>5, <1>6, <1>7, <2>1 DEF JInv, Linked, ContentSound
<1>11. \A q \in Requests : Executed(q)' /\ ~Executed(q) =>
         /\ client[q].segmented => client[q].num = LastNum(q)
         /\ \A n \in 1..LastNum(q) : Mid(q, n) \in answered'
         /\ \E d \in requests : IsFirst(d) /\ d.mid = Mid(q, LastNum(q) + 1)
  <2>1. SUFFICES ASSUME IsFirst(m)
                 PROVE  /\ client[r].segmented => client[r].num = LastNum(r)
                        /\ \A n \in 1..LastNum(r) : Mid(r, n) \in answered'
                        /\ \E d \in requests : IsFirst(d) /\ d.mid = Mid(r, LastNum(r) + 1)
    BY <1>4
  <2>2. ASSUME NEW n \in 1..LastNum(r) PROVE Mid(r, n) \in answered'
    <3>1. n - 1 \in 0..LastNum(r) /\ n - 1 < LastNum(r) /\ (n - 1) + 1 = n
      BY LastOf
    <3>2. Mid(r, (n - 1) + 1) \in answered
      BY <1>1, <2>1, <3>1, UploadComplete
    <3> QED BY <1>8, <3>1, <3>2
  <2> QED BY <1>1, <2>1, <2>2, UploadComplete
<1>12. CacheLinked'
  <2>0. block1Cache' = Uploaded(m) /\ (m.block1 # None => IsLast(m))
    BY DEF Execute, Complete
  <2>1. \A q \in Requests : \A n \in 0..LastNum(q) :
          n < LastNum(q) /\ n * Size(q) \in DOMAIN block1Cache'[Token[q]]
            => n * Size(q) \in DOMAIN block1Cache[Token[q]]
    BY <2>0, EndedCache
  <2>2. \A q \in Requests : 0 * Size(q) = 0 /\ LastNum(q) \in Nat
    BY SizeOf, LastOf
  <2>3. \A q \in Requests : LastNum(q) > 0 =>
          (0 \in DOMAIN block1Cache'[Token[q]] => 0 \in DOMAIN block1Cache[Token[q]])
    BY <2>1, <2>2
  <2>4. ASSUME IsFirst(m), LastNum(r) > 0 PROVE 0 \notin DOMAIN block1Cache'[Token[r]]
    <3>1. m.block1 # None
      BY <1>1, <2>4, UploadComplete
    <3>2. Contiguous(Stored(m))
      BY <3>1 DEF Execute, Complete
    <3>3. block1Cache'[Token[r]] = <<>>
      BY <1>1, <2>0, <3>1, <3>2 DEF Uploaded, IInv, Typed
    <3>4. DOMAIN <<>> = {}
      BY EmptySeq
    <3> QED BY <3>3, <3>4
  <2> QED BY <1>4, <1>8, <2>1, <2>3, <2>4 DEF JInv, CacheLinked
<1>13. OnceEach'
  BY OnceEachKept
<1> QED BY <1>3, <1>8, <1>10, <1>11, <1>12, <1>13, <1>16, <1>17, ServerLinks

LEMMA InitLinks == Init => JInv
<1> SUFFICES ASSUME Init PROVE JInv
  OBVIOUS
<1>1. bodies = <<>> /\ Len(bodies) = 0 /\ DOMAIN <<>> = {}
  BY EmptySeq DEF Init
<1>2. \A r : ~Executed(r)
  BY <1>1 DEF Executed
<1>3. \A r \in Requests : client[r] = Unsent(r) /\ block1Cache[Token[r]] = <<>>
  BY SizeOf DEF Init
<1>4. Linked /\ Sorted /\ ContentSound
  BY DEF Init, Linked, Sorted, ContentSound
<1>5. Progressing
  <2>1. ASSUME NEW r \in Requests PROVE Progress(r, Unsent(r))
    BY <1>2 DEF Progress, Unsent
  <2> QED BY <1>3, <2>1 DEF Progressing
<1>6. ExecutedSound /\ CacheLinked
  BY <1>1, <1>2, <1>3 DEF ExecutedSound, CacheLinked
<1>7. OnceEach
  BY <1>1 DEF OnceEach, FirstsOf, ExecutionsOf
<1>8. \A r \in Requests : Confirmed(r, client[r])
  <2>1. \A r \in Requests : ~Unsent(r).segmented
    BY DEF Unsent
  <2> QED BY <1>3, <2>1 DEF Confirmed
<1> QED BY <1>4, <1>5, <1>6, <1>7, <1>8 DEF JInv

LEMMA StepLinks == ASSUME DistinctTokens, IInv, JInv, [Next]_vars PROVE JInv'
<1>1. ASSUME NEW r \in Requests, Request(r) \/ Timeout(r) PROVE JInv'
  BY <1>1, RequestLinks, TimeoutLinks
<1>2. ASSUME NEW m \in replies,
             \/ ReceiveEmpty(m) \/ ReceiveContinue(m) \/ ReceiveStale(m)
             \/ ReceiveBlock(m) \/ ReceiveResponse(m)
      PROVE  JInv'
  BY <1>2, EmptyLinks, ContinueLinks, StaleLinks, BlockLinks, ResponseLinks
<1>3. ASSUME NEW m \in requests, Serve(m) \/ Store(m) \/ Refuse(m) \/ Execute(m) PROVE JInv'
  BY <1>3, ServeLinks, StoreLinks, RefuseLinks, ExecuteLinks
<1>4. ASSUME NEW p \in waiting, Answer(p) \/ AckTimer(p) PROVE JInv'
  BY <1>4, AnswerLinks, AckTimerLinks
<1>5. ASSUME NEW t \in Tokens, Expire(t) PROVE JInv'
  <2>1. /\ UNCHANGED <<clientVars, replies, answered, waiting, bodies>>
        /\ block1Cache' = [block1Cache EXCEPT ![t] = <<>>]
    BY <1>5 DEF Expire
  <2>2. \A u \in Tokens : block1Cache'[u] \in {block1Cache[u], <<>>}
    BY <2>1 DEF IInv, Typed
  <2> QED BY <2>1, <2>2, ForgetLinks
<1>6. ASSUME Change PROVE JInv'
  BY <1>6, ForgetLinks DEF Change
<1>7. ASSUME UNCHANGED vars PROVE JInv'
  BY <1>7, ForgetLinks DEF vars, serverVars
<1> QED BY <1>1, <1>2, <1>3, <1>4, <1>5, <1>6, <1>7 DEF Next, ClientNext, ServerNext

LEMMA JInvHolds == ASSUME DistinctTokens PROVE Spec => []JInv
<1>1. IInv /\ JInv /\ [Next]_vars => JInv'
  BY StepLinks
<1> QED BY <1>1, InitLinks, IInvHolds, PTL DEF Spec

\* Whoever has Block1 and does not segment has a single block.
Apart == \A r \in Requests :
    client[r].block1 # None /\ ~client[r].segmented => LastNum(r) = 0

\* A datagram's block was sent after those before it had been acknowledged.
InOrder == \A m \in requests : m.block1 # None =>
    \E n \in 0..LastNum(m.mid[1]) :
        m.block1 = Option1(m.mid[1], n) /\ Reached(m.mid[1], n)

\* What has been acknowledged stays so.
LEMMA ReachedStays ==
    ASSUME NEW r, NEW n, Reached(r, n), requests \subseteq requests', answered \subseteq answered'
    PROVE  Reached(r, n)'
BY DEF Reached

\* A step of the client concerns one request, r.
LEMMA ClientInOrder ==
    ASSUME IInv, JInv, JInv', IInv', Apart, InOrder, NEW r \in Requests, UNCHANGED answered,
           requests' \subseteq requests \cup {Datagram(r, client'[r])}, requests \subseteq requests',
           \A q \in Requests : q # r => client'[q] = client[q],
           client'[r].block1 # None /\ ~client'[r].segmented => LastNum(r) = 0
    PROVE  Apart' /\ InOrder'
<1>1. Apart'
  BY DEF Apart
<1>2. ASSUME NEW m \in requests', m.block1 # None
      PROVE  \E n \in 0..LastNum(m.mid[1]) :
                m.block1 = Option1(m.mid[1], n) /\ Reached(m.mid[1], n)'
  <2>1. CASE m \in requests
    <3>1. PICK n \in 0..LastNum(m.mid[1]) : m.block1 = Option1(m.mid[1], n) /\ Reached(m.mid[1], n)
      BY <1>2, <2>1 DEF InOrder
    <3>2. Reached(m.mid[1], n)'
      BY <3>1, ReachedStays
    <3> QED BY <3>1, <3>2
  <2>2. CASE m = Datagram(r, client'[r])
    <3>1. m.mid[1] = r /\ m.block1 = client'[r].block1
      BY <2>2 DEF Datagram, Mid
    <3>2. Progress(r, client[r])' /\ Confirmed(r, client[r])' /\ Segments(r, client[r])'
      BY DEF JInv, Progressing, IInv, ClientsSegment
    <3>3. /\ Upload[r] > 0 /\ LastNum(r) \in Nat
          /\ m.block1 = Option1(r, IF client'[r].segmented THEN client'[r].num ELSE LastNum(r))
      BY <1>2, <3>1, <3>2, LastOf DEF Progress
    <3>4. CASE ~client'[r].segmented
      <4>1. LastNum(r) = 0 /\ m.block1 = Option1(r, 0) /\ 0 \in 0..LastNum(r)
        BY <1>2, <3>1, <3>3, <3>4
      <4>2. Reached(r, 0)'
        BY DEF Reached
      <4> QED BY <3>1, <4>1, <4>2
    <3>5. CASE client'[r].segmented
      <4>1. PICK n \in 0..LastNum(r) : n = client'[r].num
        BY <3>2, <3>5 DEF Segments, AtBlock
      <4>2. \A k : PieceOf(r, k) = Slice(r, Upload[r], k * Size(r), Size(r))
        BY <3>3, SizeOf DEF PieceOf
      <4>3. \A k \in 0..(n - 1) : \E d \in requests' :
               d.token = Token[r] /\ d.mid \in answered' /\ d.payload = PieceOf(r, k)
        BY <3>2, <3>5, <4>1 DEF Confirmed
      <4>4. Reached(r, n)'
        BY <4>2, <4>3 DEF Reached
      <4> QED BY <3>1, <3>3, <3>5, <4>1, <4>4
    <3> QED BY <3>4, <3>5
  <2> QED BY <2>1, <2>2
<1>3. InOrder'
  BY <1>2 DEF InOrder
<1> QED BY <1>1, <1>3

LEMMA RequestInOrder ==
    ASSUME IInv, JInv, JInv', IInv', Apart, InOrder, NEW r \in Requests, Request(r) \/ Timeout(r)
    PROVE  Apart' /\ InOrder'
<1>0. client \in [Requests -> ClientRecords]
  BY DEF IInv, Typed
<1>1. CASE Timeout(r)
  <2>1. /\ client' = [client EXCEPT ![r] = [client[r] EXCEPT !.armed = FALSE, !.state = "failed"]]
        /\ UNCHANGED <<answered, requests>>
    BY <1>0, <1>1 DEF Timeout, serverVars
  <2>2. client'[r].block1 = client[r].block1 /\ client'[r].segmented = client[r].segmented
    BY <1>0, <2>1 DEF ClientRecords
  <2>3. \A q \in Requests : q # r => client'[q] = client[q]
    BY <1>0, <2>1
  <2> QED BY <2>1, <2>2, <2>3, ClientInOrder DEF Apart
<1>2. CASE Request(r)
  <2> DEFINE long == [Made(r) EXCEPT !.segmented = TRUE]
             c == IF Upload[r] > Size(r) THEN SendNext(r, long) ELSE Made(r)
  <2>1. client' = [client EXCEPT ![r] = c] /\ requests' = requests \cup {Datagram(r, c)}
        /\ UNCHANGED answered
    BY <1>2 DEF Request, Sends, serverVars
  <2>2. ASSUME c.block1 # None, ~c.segmented PROVE LastNum(r) = 0
    <3>1. CASE Upload[r] > Size(r)
      <4>1. long \in ClientRecords /\ long.segmented /\ long.current = 0
        BY MadeSound DEF ClientRecords
      <4>2. 0 \in 0..LastNum(r) /\ 0 = 0 * Size(r)
        BY LastOf, SizeOf
      <4>3. SendNext(r, long).segmented = long.segmented
        BY <3>1, <4>1, <4>2, SendNextSound
      <4> QED BY <2>2, <3>1, <4>1, <4>3
    <3>2. CASE ~(Upload[r] > Size(r))
      <4>1. c = Made(r) /\ Upload[r] \in Nat /\ Size(r) \in Nat
        BY <3>2, SizeOf
      <4>2. CASE Upload[r] = 0
        <5>1. Made(r).block1 = None
          BY <4>2, MadeSound
        <5> QED BY <2>2, <4>1, <5>1
      <4>3. CASE Upload[r] > 0 /\ Upload[r] <= Size(r)
        BY <4>3, MadeSound
      <4> QED BY <3>2, <4>1, <4>2, <4>3
    <3> QED BY <3>1, <3>2
  <2> HIDE DEF c
  <2>3. client'[r] = c /\ \A q \in Requests : q # r => client'[q] = client[q]
    BY <1>0, <2>1
  <2> QED BY <2>1, <2>2, <2>3, ClientInOrder
<1> QED BY <1>1, <1>2

\* A reply that is no acknowledgement of a block brings its request r to c.
Settles(m, r, c) ==
    /\ Arrives(m, r) /\ UNCHANGED answered
    /\ client' = [client EXCEPT ![r] = c]
    /\ requests' \subseteq requests \cup {Datagram(r, c)} /\ requests \subseteq requests'
    /\ c.block1 = Settled(m, r).block1 /\ c.segmented = Settled(m, r).segmented

LEMMA ReceiptInOrder ==
    ASSUME IInv, JInv, JInv', IInv', Apart, InOrder, NEW m \in replies,
           \/ ReceiveEmpty(m) \/ ReceiveContinue(m) \/ ReceiveStale(m)
           \/ ReceiveBlock(m) \/ ReceiveResponse(m)
    PROVE  Apart' /\ InOrder'
<1>0. client \in [Requests -> ClientRecords] /\ byMid \subseteq Mids
  BY DEF IInv, Typed
<1>1. CASE ReceiveEmpty(m)
  <2>1. PICK r \in Requests : r = m.mid[1]
    BY <1>0, <1>1 DEF ReceiveEmpty, Mids
  <2>2. /\ client' = [client EXCEPT ![r] = [client[r] EXCEPT !.armed = FALSE]]
        /\ UNCHANGED <<answered, requests>>
    BY <1>0, <1>1, <2>1 DEF ReceiveEmpty, serverVars
  <2>3. client'[r].block1 = client[r].block1 /\ client'[r].segmented = client[r].segmented
    BY <1>0, <2>2 DEF ClientRecords
  <2>4. \A q \in Requests : q # r => client'[q] = client[q]
    BY <1>0, <2>2
  <2> QED BY <2>2, <2>3, <2>4, ClientInOrder DEF Apart
<1>2. CASE ReceiveContinue(m) \/ ReceiveStale(m)
  <2>1. PICK r \in Requests :
          /\ client[r].segmented /\ UNCHANGED answered
          /\ \/ /\ client' = [client EXCEPT ![r] = ReceiveACK(r, NewMid(client[r]))]
                /\ requests' = requests \cup {Datagram(r, ReceiveACK(r, NewMid(client[r])))}
             \/ /\ client' = [client EXCEPT ![r] = ResendPreviousPacket(r, client[r])]
                /\ requests' = requests \cup {Datagram(r, client'[r])}
             \/ /\ client' = [client EXCEPT ![r] = [client[r] EXCEPT !.armed = FALSE]]
                /\ requests' = requests
    BY <1>0, <1>2, Zenon DEF ReceiveContinue, ReceiveStale, Sends, Uploading, serverVars
  <2>2. PICK c : client' = [client EXCEPT ![r] = c] /\ c = client'[r]
    BY <1>0, <2>1
  <2>3. c.segmented
    <3>1. client[r] \in ClientRecords /\ client[r].segmented
      BY <1>0, <2>1
    <3>2. ReceiveACK(r, NewMid(client[r])).segmented
      BY <3>1 DEF ReceiveACK, NewMid, SendNext, UpdateBlockState, ClientRecords
    <3>3. ResendPreviousPacket(r, client[r]).segmented
      BY <3>1 DEF ResendPreviousPacket, SendNext, UpdateBlockState, ClientRecords
    <3>4. [client[r] EXCEPT !.armed = FALSE].segmented
      BY <3>1 DEF ClientRecords
    <3>5. \/ client'[r] = ReceiveACK(r, NewMid(client[r]))
          \/ client'[r] = ResendPreviousPacket(r, client[r])
          \/ client'[r] = [client[r] EXCEPT !.armed = FALSE]
      BY <1>0, <2>1
    <3> QED BY <2>2, <3>2, <3>3, <3>4, <3>5, Zenon
  <2>4. \A q \in Requests : q # r => client'[q] = client[q]
    BY <1>0, <2>2
  <2>5. requests' \subseteq requests \cup {Datagram(r, client'[r])} /\ requests \subseteq requests'
    BY <1>0, <2>1
  <2> QED BY <2>1, <2>2, <2>3, <2>4, <2>5, ClientInOrder
<1>3. CASE ReceiveBlock(m) \/ ReceiveResponse(m)
  <2>1. \E r \in Requests : \E c : Settles(m, r, c)
    <3>1. CASE ReceiveBlock(m)
      <4> DEFINE C(r) == [NewMid(Settled(m, r)) EXCEPT
                       !.total = Append(@, m.payload), !.payload = Nothing,
                       !.block2 = NextBlock2(m), !.armed = TRUE]
      <4>1. PICK r \in Requests :
              /\ Arrives(m, r) /\ client' = [client EXCEPT ![r] = C(r)]
              /\ requests' = requests \cup {Datagram(r, C(r))}
              /\ UNCHANGED <<byToken, thrown, serverVars>>
        BY <3>1 DEF ReceiveBlock
      <4>2. Settled(m, r) \in ClientRecords
        BY <4>1, SettledSound
      <4>3. C(r).block1 = Settled(m, r).block1 /\ C(r).segmented = Settled(m, r).segmented
        BY <4>2 DEF NewMid, ClientRecords
      <4> HIDE DEF C
      <4> QED BY <4>1, <4>3 DEF Settles, serverVars
    <3>2. CASE ReceiveResponse(m)
      <4> DEFINE C(r) == [Settled(m, r) EXCEPT
                    !.total = IF m.block2 # None THEN <<>> ELSE @,
                    !.response = IF @ # None THEN @
                        ELSE [code |-> m.code, body |-> Body(m, r), format |-> m.format]]
      <4>1. PICK r \in Requests :
              /\ Arrives(m, r) /\ client' = [client EXCEPT ![r] = C(r)]
              /\ UNCHANGED <<thrown, requests, serverVars>>
        BY <3>2 DEF ReceiveResponse
      <4>2. Settled(m, r) \in ClientRecords
        BY <4>1, SettledSound
      <4>3. C(r).block1 = Settled(m, r).block1 /\ C(r).segmented = Settled(m, r).segmented
        BY <4>2 DEF ClientRecords
      <4> HIDE DEF C
      <4> QED BY <4>1, <4>3 DEF Settles, serverVars
    <3> QED BY <1>3, <3>1, <3>2
  <2>2. PICK r \in Requests : \E c : Settles(m, r, c)
    BY <2>1
  <2>3. PICK c : Settles(m, r, c)
    BY <2>2
  <2>4. ASSUME c.block1 # None, ~c.segmented PROVE LastNum(r) = 0
    <3>1. PICK ends \in BOOLEAN : ends = (m.block1 # None /\ client[r].segmented)
      OBVIOUS
    <3>2. Settled(m, r) = [client[r] EXCEPT !.armed = FALSE, !.segmented = @ /\ ~ends,
                                            !.block1 = IF ends THEN None ELSE @]
      BY <3>1 DEF Settled
    <3>3. CASE ends
      <4>1. Settled(m, r).block1 = None
        BY <1>0, <3>2, <3>3 DEF ClientRecords
      <4> QED BY <2>3, <2>4, <4>1 DEF Settles
    <3>4. CASE ~ends
      <4>0. client[r] \in ClientRecords
        BY <1>0
      <4>1. Settled(m, r) = [client[r] EXCEPT !.armed = FALSE]
        BY <3>2, <3>4, <4>0 DEF ClientRecords
      <4>2. Settled(m, r).block1 = client[r].block1
            /\ Settled(m, r).segmented = client[r].segmented
        BY <1>0, <4>1 DEF ClientRecords
      <4> QED BY <2>3, <2>4, <4>2 DEF Apart, Settles
    <3> QED BY <3>3, <3>4
  <2>5. client'[r] = c /\ \A q \in Requests : q # r => client'[q] = client[q]
    BY <1>0, <2>3 DEF Settles
  <2> QED BY <2>3, <2>4, <2>5, ClientInOrder DEF Settles
<1> QED BY <1>1, <1>2, <1>3

LEMMA StepInOrder ==
    ASSUME IInv, JInv, JInv', IInv', Apart, InOrder, [Next]_vars
    PROVE  Apart' /\ InOrder'
<1>1. CASE ClientNext
  BY <1>1, RequestInOrder, ReceiptInOrder, Zenon DEF ClientNext
<1>2. CASE ServerNext \/ UNCHANGED vars
  <2>1. UNCHANGED <<client, requests>> /\ answered \subseteq answered'
    <3>1. CASE UNCHANGED vars
      BY <3>1 DEF vars, clientVars, serverVars
    <3>2. ASSUME NEW m \in requests, Serve(m) \/ Store(m) \/ Refuse(m) \/ Execute(m)
          PROVE  UNCHANGED <<client, requests>> /\ answered \subseteq answered'
      BY <3>2 DEF Serve, Store, Refuse, Execute, Sent, clientVars
    <3>3. ASSUME NEW p \in waiting, Answer(p) \/ AckTimer(p)
          PROVE  UNCHANGED <<client, requests>> /\ answered \subseteq answered'
      BY <3>3 DEF Answer, AckTimer, Sent, clientVars
    <3>4. ASSUME NEW t \in Tokens, Expire(t)
          PROVE  UNCHANGED <<client, requests>> /\ answered \subseteq answered'
      BY <3>4 DEF Expire, clientVars
    <3>5. ASSUME Change PROVE UNCHANGED <<client, requests>> /\ answered \subseteq answered'
      BY <3>5 DEF Change, clientVars
    <3> QED BY <1>2, <3>1, <3>2, <3>3, <3>4, <3>5, Zenon DEF ServerNext
  <2>2. Apart'
    BY <2>1 DEF Apart
  <2>3. ASSUME NEW m \in requests, m.block1 # None
        PROVE  \E n \in 0..LastNum(m.mid[1]) :
                  m.block1 = Option1(m.mid[1], n) /\ Reached(m.mid[1], n)'
    <3>1. PICK n \in 0..LastNum(m.mid[1]) : m.block1 = Option1(m.mid[1], n) /\ Reached(m.mid[1], n)
      BY <2>3 DEF InOrder
    <3>2. Reached(m.mid[1], n)'
      BY <2>1, <3>1, ReachedStays
    <3> QED BY <3>1, <3>2
  <2>4. InOrder'
    BY <2>1, <2>3 DEF InOrder
  <2> QED BY <2>2, <2>4
<1> QED BY <1>1, <1>2 DEF Next

(***************************************************************************)
(* A client sends a block only when the server has acknowledged every      *)
(* block before it: no acknowledgement, however late or often repeated, is *)
(* taken for that of another block (isCorrectACK).  And when the           *)
(* application is handed the payload, all but the last have been.          *)
(***************************************************************************)
THEOREM BlocksConfirmed == ASSUME DistinctTokens PROVE Spec => []ConfirmedBefore
<1>1. Init => Apart /\ InOrder
  <2> SUFFICES ASSUME Init PROVE Apart /\ InOrder
    OBVIOUS
  <2>1. \A r \in Requests : client[r].block1 = None
    BY DEF Init, Unsent
  <2> QED BY <2>1 DEF Init, Apart, InOrder
<1>2. IInv /\ JInv /\ IInv' /\ JInv' /\ Apart /\ InOrder /\ [Next]_vars => Apart' /\ InOrder'
  BY StepInOrder
<1>3. IInv /\ JInv /\ InOrder => ConfirmedBefore
  <2> SUFFICES ASSUME IInv, JInv, InOrder PROVE ConfirmedBefore
    OBVIOUS
  <2>1. ASSUME NEW m \in requests, m.block1 # None
        PROVE  Reached(m.mid[1], ParseBlockOption(m.block1).num)
    <3>1. PICK r \in Requests : r = m.mid[1]
      BY DEF IInv, Typed, DatagramRecords, Mids
    <3>2. PICK n \in 0..LastNum(r) : m.block1 = Option1(r, n) /\ Reached(r, n)
      BY <2>1, <3>1 DEF InOrder
    <3>3. ParseBlockOption(m.block1).num = n
      BY <3>2, Option1Read
    <3> QED BY <3>1, <3>2, <3>3
  <2>2. ASSUME NEW r \in Requests, FirstsOf(Token[r]) # {} PROVE Reached(r, LastNum(r))
    <3>1. Executed(r)
      BY <2>2 DEF FirstsOf, ExecutionsOf, Executed
    <3>2. PICK m \in requests : IsFirst(m) /\ m.mid = Mid(r, LastNum(r) + 1)
      BY <3>1 DEF JInv, ExecutedSound
    <3>3. LastNum(r) \in Nat /\ LastNum(r) \in 0..LastNum(r) /\ m.mid[1] = r
          /\ m.mid[2] - 1 = LastNum(r)
      BY <3>2, LastOf DEF Mid
    <3>4. m.block1 = IF Upload[r] = 0 THEN None ELSE Option1(r, LastNum(r))
      BY <3>2, <3>3 DEF JInv, Sorted, SortedOne, FirstSound
    <3>5. CASE Upload[r] = 0
      <4>1. LastNum(r) = 0
        BY <3>5 DEF LastNum
      <4> QED BY <4>1 DEF Reached
    <3>6. CASE Upload[r] # 0
      <4>1. m.block1 = Option1(r, LastNum(r)) /\ m.block1 # None
        BY <3>3, <3>4, <3>6, Option1Read, NoneApart
      <4>2. PICK n \in 0..LastNum(r) : m.block1 = Option1(r, n) /\ Reached(r, n)
        BY <3>3, <4>1 DEF InOrder
      <4>3. n = LastNum(r)
        <5>1. ParseBlockOption(Option1(r, n)).num = n
          BY Option1Read
        <5>2. \A k \in 0..LastNum(r) : ParseBlockOption(Option1(r, k)).num = k
          BY Option1Read
        <5> QED BY <3>3, <4>1, <4>2, <5>1, <5>2, Zenon
      <4> QED BY <4>2, <4>3
    <3> QED BY <3>5, <3>6
  <2> QED BY <2>1, <2>2 DEF ConfirmedBefore
<1> QED BY <1>1, <1>2, <1>3, IInvHolds, JInvHolds, PTL DEF Spec

-----------------------------------------------------------------------------
\* What a response does to its request.
Responds(m, r, c) ==
    /\ client' = [client EXCEPT ![r] = c]
    /\ Arrives(m, r) /\ ~MoreToCome(m) /\ ~Uploading(m, r)
    /\ client[r].response # None => c.response = client[r].response
    /\ client[r].response = None =>
          c.response = [code |-> m.code, body |-> Body(m, r), format |-> m.format]
    /\ c.total = IF m.block2 # None THEN <<>> ELSE client[r].total
    /\ c.response # None /\ m.token = Token[r]

LEMMA ResponseStep ==
    ASSUME IInv, JInv, NEW m \in replies, ReceiveResponse(m)
    PROVE  \E r \in Requests : \E c \in ClientRecords : Responds(m, r, c)
<1> DEFINE C(r) == [Settled(m, r) EXCEPT
                       !.total = IF m.block2 # None THEN <<>> ELSE @,
                       !.response = IF @ # None THEN @
                           ELSE [code |-> m.code, body |-> Body(m, r), format |-> m.format]]
<1>1. PICK r \in Requests :
        /\ Arrives(m, r) /\ ~MoreToCome(m) /\ ~Uploading(m, r)
        /\ client' = [client EXCEPT ![r] = C(r)]
        /\ UNCHANGED <<thrown, requests, serverVars>>
  BY DEF ReceiveResponse
<1>2. PICK b \in ClientRecords : /\ b = Settled(m, r) /\ b.response = client[r].response
                                 /\ b.total = client[r].total
  BY <1>1, SettledLinks
<1> DEFINE c == C(r)
           answer == [code |-> m.code, body |-> Body(m, r), format |-> m.format]
<1>3. client' = [client EXCEPT ![r] = c]
  BY <1>1
<1>4. c \in ClientRecords
  <2>1. client' \in [Requests -> ClientRecords] /\ client \in [Requests -> ClientRecords]
    BY ResponseKeeps DEF IInv, Typed
  <2> HIDE DEF c
  <2>2. client'[r] = c
    BY <1>3, <2>1
  <2> QED BY <2>1, <2>2
<1>5. /\ c.response = IF b.response # None THEN b.response ELSE answer
      /\ c.total = IF m.block2 # None THEN <<>> ELSE b.total
  BY <1>2 DEF ClientRecords
<1>6. answer \in ResponseRecords
  <2>1. client[r] \in ClientRecords /\ m \in ReplyRecords
    BY <1>1, FoundSound
  <2>2. /\ client[r].total \in Seq(Pieces) /\ m.payload \in Pieces /\ m.code \in Codes
        /\ m.format \in BOOLEAN
    BY <2>1 DEF ClientRecords, ReplyRecords
  <2>3. Body(m, r) \in Seq(Pieces)
    <3>1. <<>> \in Seq(Pieces) /\ <<m.payload>> = Append(<<>>, m.payload)
      BY EmptySeq
    <3>2. Append(client[r].total, m.payload) \in Seq(Pieces) /\ <<m.payload>> \in Seq(Pieces)
      BY <2>2, <3>1, AppendProperties
    <3> QED BY <3>2 DEF Body
  <2> QED BY <2>2, <2>3 DEF ResponseRecords
<1>7. answer # None
  BY <1>6, NoneIsNoRecord
<1> HIDE DEF c, answer
<1>8. /\ client[r].response # None => c.response = client[r].response
      /\ client[r].response = None => c.response = answer
      /\ c.response # None
  BY <1>2, <1>5, <1>7
<1>9. m.token = Token[r]
  BY <1>1, FoundLinked
<1>10. Responds(m, r, c)
  BY <1>1, <1>2, <1>3, <1>5, <1>8, <1>9 DEF Responds, answer
<1> QED BY <1>4, <1>10

\* A step of the client leaves its request with a datagram to send, a
\* response, or the acknowledgement of what it sent last.
LEMMA StallStep ==
    ASSUME IInv, NeverStalls, NEW r \in Requests, NEW c,
           client' = [client EXCEPT ![r] = c], replies \subseteq replies', thrown => thrown',
           c.state = "open" /\ c.response = None /\ ~thrown' =>
               \/ c.armed
               \/ \E m \in replies' : m.code = "empty" /\ m.mid = Mid(r, c.mids)
    PROVE  NeverStalls'
<1>1. client'[r] = c /\ \A q \in Requests : q # r => client'[q] = client[q]
  BY DEF IInv, Typed
<1>2. ASSUME NEW q \in Requests, client'[q].state = "open", client'[q].response = None, ~thrown'
      PROVE  \/ client'[q].armed
             \/ \E m \in replies' : m.code = "empty" /\ m.mid = Mid(q, client'[q].mids)
  <2>1. CASE q = r
    BY <1>1, <1>2, <2>1
  <2>2. CASE q # r
    BY <1>1, <1>2, <2>2 DEF NeverStalls
  <2> QED BY <2>1, <2>2
<1> QED BY <1>2 DEF NeverStalls

\* Replies are added, and no request changes.
LEMMA StallKept ==
    ASSUME NeverStalls, client' = client, thrown' = thrown, replies \subseteq replies'
    PROVE  NeverStalls'
BY DEF NeverStalls

LEMMA SendNextArms ==
    ASSUME NEW r, NEW c \in ClientRecords
    PROVE  SendNext(r, c).armed
<1> DEFINE u == UpdateBlockState(r, c)
           piece == Slice(r, Upload[r], c.current, Size(r))
<1>1. SendNext(r, c) = [u EXCEPT !.payload = piece, !.armed = TRUE,
                                 !.last = c.current, !.current = piece.to]
  BY DEF SendNext
<1>2. "armed" \in DOMAIN u
  BY DEF UpdateBlockState, ClientRecords
<1> HIDE DEF u, piece
<1> QED BY <1>1, <1>2

LEMMA RequestArms ==
    ASSUME IInv, NeverStalls, NEW r \in Requests, Request(r)
    PROVE  NeverStalls'
<1> DEFINE long == [Made(r) EXCEPT !.segmented = TRUE]
           c == IF Upload[r] > Size(r) THEN SendNext(r, long) ELSE Made(r)
<1>1. Made(r).armed /\ long \in ClientRecords
  <2>1. long \in ClientRecords
    BY MadeSound, ZenonT(60) DEF ClientRecords
  <2>2. Made(r).armed
    BY DEF Made, Unsent
  <2> QED BY <2>1, <2>2
<1> HIDE DEF long
<1>2. c.armed
  BY <1>1, SendNextArms
<1>3. client' = [client EXCEPT ![r] = c] /\ replies' = replies /\ thrown' = thrown
  BY DEF Request, Sends, serverVars, long
<1> HIDE DEF c
<1> QED BY <1>2, <1>3, StallStep

LEMMA ReceiptsArm ==
    ASSUME DistinctTokens, IInv, JInv, NeverStalls, NEW m \in replies,
           \/ ReceiveEmpty(m) \/ ReceiveContinue(m) \/ ReceiveStale(m)
           \/ ReceiveBlock(m) \/ ReceiveResponse(m)
    PROVE  NeverStalls'
<1>1. CASE ReceiveEmpty(m)
  <2>1. PICK r \in Requests, k \in 1..MaxMids : m.mid = <<r, k>>
    BY <1>1 DEF ReceiveEmpty, IInv, Typed, Mids
  <2>2. client[r] \in ClientRecords /\ client[r].mids = k
    BY <1>1, <2>1 DEF ReceiveEmpty, IInv, Typed, JInv, Linked
  <2> DEFINE c == [client[r] EXCEPT !.armed = FALSE]
  <2>3. c.mids = k /\ m.mid = Mid(r, c.mids) /\ m.code = "empty"
    BY <1>1, <2>1, <2>2 DEF ClientRecords, Mid, ReceiveEmpty
  <2>4. client' = [client EXCEPT ![r] = c] /\ replies' = replies /\ thrown' = thrown
    BY <1>1, <2>1 DEF ReceiveEmpty, serverVars
  <2> HIDE DEF c
  <2> QED BY <2>3, <2>4, StallStep
<1>2. CASE ReceiveContinue(m)
  <2>1. PICK r \in Requests :
          /\ client' = [client EXCEPT ![r] = ReceiveACK(r, NewMid(client[r]))]
          /\ Arrives(m, r) /\ replies' = replies /\ thrown' = thrown
    BY <1>2 DEF ReceiveContinue, Sends, serverVars
  <2>2. client[r] \in ClientRecords /\ client[r].mids + 1 \in 0..MaxMids
    BY <2>1, FoundSound
  <2> DEFINE b == NewMid(client[r])
             s == SendNext(r, b)
             c == ReceiveACK(r, b)
  <2>3. b \in ClientRecords
    BY <2>2 DEF NewMid, ClientRecords
  <2> HIDE DEF b
  <2>4. s.armed
    BY <2>3, SendNextArms
  <2>5. c = [s EXCEPT !.resends = 0]
    BY DEF ReceiveACK
  <2> HIDE DEF s, c
  <2>6. c.armed
    BY <2>4, <2>5
  <2>7. client' = [client EXCEPT ![r] = c]
    BY <2>1 DEF b, c
  <2> QED BY <2>1, <2>6, <2>7, StallStep
<1>3. CASE ReceiveStale(m)
  <2>1. PICK r \in Requests :
          /\ IF client[r].resends < MaxResends
             THEN client' = [client EXCEPT ![r] = ResendPreviousPacket(r, @)] /\ thrown' = thrown
             ELSE client' = [client EXCEPT ![r].armed = FALSE] /\ thrown' = TRUE
          /\ replies' = replies
    BY <1>3 DEF ReceiveStale, serverVars
  <2>2. client[r] \in ClientRecords /\ client \in [Requests -> ClientRecords]
    BY DEF IInv, Typed
  <2>3. CASE client[r].resends < MaxResends
    <3> DEFINE b == [client[r] EXCEPT !.current = client[r].last]
               s == SendNext(r, b)
               c == ResendPreviousPacket(r, client[r])
    <3>1. b \in ClientRecords
      BY <2>2 DEF ClientRecords
    <3>2. c = [s EXCEPT !.resends = @ + 1]
      BY DEF ResendPreviousPacket
    <3> HIDE DEF b
    <3>3. s.armed
      BY <3>1, SendNextArms
    <3> HIDE DEF s
    <3>4. c.armed
      BY <3>2, <3>3
    <3>5. client' = [client EXCEPT ![r] = c] /\ thrown' = thrown
      BY <2>1, <2>3
    <3> HIDE DEF c
    <3> QED BY <2>1, <3>4, <3>5, StallStep
  <2>4. CASE ~(client[r].resends < MaxResends)
    <3> DEFINE c == [client[r] EXCEPT !.armed = FALSE]
    <3>1. client' = [client EXCEPT ![r] = c] /\ thrown' = TRUE
      BY <2>1, <2>4
    <3> HIDE DEF c
    <3> QED BY <2>1, <3>1, StallStep
  <2> QED BY <2>3, <2>4
<1>4. CASE ReceiveBlock(m)
  <2> DEFINE b(r) == NewMid(Settled(m, r))
             C(r) == [b(r) EXCEPT
                         !.total = Append(@, m.payload), !.payload = Nothing,
                         !.block2 = NextBlock2(m), !.armed = TRUE]
  <2>1. PICK r \in Requests : /\ client' = [client EXCEPT ![r] = C(r)] /\ Arrives(m, r)
                              /\ replies' = replies /\ thrown' = thrown
    BY <1>4 DEF ReceiveBlock, serverVars
  <2>2. "armed" \in DOMAIN b(r)
    <3>1. Settled(m, r) \in ClientRecords
      BY <2>1, SettledSound
    <3> QED BY <3>1 DEF NewMid, ClientRecords
  <2> HIDE DEF b
  <2>3. C(r).armed
    BY <2>2
  <2> QED BY <2>1, <2>3, StallStep
<1>5. CASE ReceiveResponse(m)
  <2>1. PICK r \in Requests, c \in ClientRecords : Responds(m, r, c)
    BY <1>5, ResponseStep
  <2>2. replies' = replies /\ thrown' = thrown
    BY <1>5 DEF ReceiveResponse, serverVars
  <2> QED BY <2>1, <2>2, StallStep DEF Responds
<1> QED BY <1>1, <1>2, <1>3, <1>4, <1>5

(***************************************************************************)
(* A request that has no response is never left without a datagram that is *)
(* still retransmitted, unless the server has acknowledged that very one.  *)
(***************************************************************************)
THEOREM SenderKeepsOn == ASSUME DistinctTokens PROVE Spec => []NeverStalls
<1>1. Init => NeverStalls
  <2>1. \A r \in Requests : Unsent(r).state = "new"
    BY DEF Unsent
  <2> QED BY <2>1 DEF Init, NeverStalls
<1>2. ASSUME IInv, JInv, NeverStalls, [Next]_vars PROVE NeverStalls'
  <2>1. ASSUME NEW r \in Requests, Request(r) PROVE NeverStalls'
    BY <1>2, <2>1, RequestArms
  <2>2. ASSUME NEW r \in Requests, Timeout(r) PROVE NeverStalls'
    <3> DEFINE c == [client[r] EXCEPT !.armed = FALSE, !.state = "failed"]
    <3>1. c.state = "failed"
      BY <1>2 DEF IInv, Typed, ClientRecords
    <3>2. client' = [client EXCEPT ![r] = c] /\ replies' = replies /\ thrown' = thrown
      BY <1>2, <2>2 DEF Timeout, serverVars, IInv, Typed
    <3> HIDE DEF c
    <3> QED BY <1>2, <3>1, <3>2, StallStep
  <2>3. ASSUME NEW m \in replies,
               \/ ReceiveEmpty(m) \/ ReceiveContinue(m) \/ ReceiveStale(m)
               \/ ReceiveBlock(m) \/ ReceiveResponse(m)
        PROVE  NeverStalls'
    BY <1>2, <2>3, ReceiptsArm
  <2>4. ASSUME NEW m \in requests, Serve(m) \/ Store(m) \/ Refuse(m) \/ Execute(m)
        PROVE  NeverStalls'
    BY <1>2, <2>4, StallKept DEF Serve, Store, Refuse, Execute, Sent, clientVars
  <2>5. ASSUME NEW p \in waiting, Answer(p) \/ AckTimer(p) PROVE NeverStalls'
    BY <1>2, <2>5, StallKept DEF Answer, AckTimer, Sent, clientVars
  <2>6. ASSUME (\E t \in Tokens : Expire(t)) \/ Change \/ UNCHANGED vars PROVE NeverStalls'
    BY <1>2, <2>6, StallKept DEF Expire, Change, vars, clientVars, serverVars
  <2> QED BY <1>2, <2>1, <2>2, <2>3, <2>4, <2>5, <2>6 DEF Next, ClientNext, ServerNext
<1> QED BY <1>1, <1>2, IInvHolds, JInvHolds, PTL DEF Spec
-----------------------------------------------------------------------------
\* Blockwise transfer implements Transfer.

LEMMA OneOrNone ==
    ASSUME NEW F, \A i, j \in F : i = j
    PROVE  Cardinality(F) = IF F = {} THEN 0 ELSE 1
<1>1. CASE F = {}
  BY <1>1, FS_EmptySet
<1>2. CASE F # {}
  <2>1. PICK i \in F : TRUE
    BY <1>2
  <2>2. F = {i}
    BY <2>1
  <2> QED BY <1>2, <2>2, FS_Singleton
<1> QED BY <1>1, <1>2

\* How often an upload has been handed over, as a number.
LEMMA DeliveriesOf ==
    ASSUME OnceEach, NEW r \in Uploads
    PROVE  Deliveries[r] = IF Executed(r) THEN 1 ELSE 0
<1>1. Deliveries[r] = Cardinality(FirstsOf(Token[r]))
  BY DEF Deliveries
<1>2. Executed(r) <=> FirstsOf(Token[r]) # {}
  BY DEF Executed, FirstsOf, ExecutionsOf
<1> QED BY <1>1, <1>2, OneOrNone DEF OnceEach

LEMMA DeliveriesNext ==
    ASSUME OnceEach', NEW r \in Uploads
    PROVE  Deliveries'[r] = IF Executed(r)' THEN 1 ELSE 0
<1>1. Deliveries'[r] = Cardinality(FirstsOf(Token[r])')
  BY DEF Deliveries
<1>2. Executed(r)' <=> FirstsOf(Token[r])' # {}
  BY DEF Executed, FirstsOf, ExecutionsOf
<1> QED BY <1>1, <1>2, OneOrNone DEF OnceEach

Told(response) ==
    IF response # None
    THEN IF response.code = "content" THEN "success" ELSE "failure"
    ELSE "unknown"

LEMMA MapsOver ==
    /\ DOMAIN Deliveries = Uploads /\ DOMAIN Outcome = Uploads
    /\ Deliveries = [r \in Uploads |-> Deliveries[r]]
    /\ Outcome = [r \in Uploads |-> Told(client[r].response)]
BY DEF Deliveries, Outcome, Told

LEMMA MapsOverNext ==
    /\ Deliveries' = [r \in Uploads |-> Deliveries'[r]]
    /\ Outcome' = [r \in Uploads |-> Told(client'[r].response)]
BY DEF Deliveries, Outcome, Told

\* No execution and no new response: nothing that a user sees.
LEMMA Unseen ==
    ASSUME bodies' = bodies, \A r \in Requests : client'[r].response = client[r].response
    PROVE  UNCHANGED <<Deliveries, Outcome>>
<1>1. Deliveries' = Deliveries
  BY DEF Deliveries, FirstsOf, ExecutionsOf
<1>2. \A r \in Uploads : client'[r].response = client[r].response
  BY DEF Uploads
<1>3. Outcome' = Outcome
  BY <1>2, MapsOver, MapsOverNext
<1> QED BY <1>1, <1>3

\* What a block that is not the last does to its request.
Asks(m, r, c) ==
    /\ client' = [client EXCEPT ![r] = c]
    /\ Arrives(m, r) /\ MoreToCome(m) /\ m.token = Token[r]
    /\ c.response = client[r].response /\ c.total = Append(client[r].total, m.payload)
    /\ requests \subseteq requests'
    /\ \A d \in requests' :
          d \in requests \/ (d.block2 = NextBlock2(m) /\ d.token = Token[r])

LEMMA BlockStep ==
    ASSUME IInv, JInv, NEW m \in replies, ReceiveBlock(m)
    PROVE  \E r \in Requests : \E c \in ClientRecords : Asks(m, r, c)
<1> DEFINE C(r) == [NewMid(Settled(m, r)) EXCEPT
                       !.total = Append(@, m.payload), !.payload = Nothing,
                       !.block2 = NextBlock2(m), !.armed = TRUE]
<1>1. PICK r \in Requests :
        /\ Arrives(m, r) /\ MoreToCome(m)
        /\ client' = [client EXCEPT ![r] = C(r)]
        /\ requests' = requests \cup {Datagram(r, C(r))}
  BY DEF ReceiveBlock
<1>2. PICK b \in ClientRecords : /\ b = Settled(m, r) /\ b.response = client[r].response
                                 /\ b.total = client[r].total
  BY <1>1, SettledLinks
<1> DEFINE c == C(r)
<1>3. c \in ClientRecords
  <2>1. client' \in [Requests -> ClientRecords] /\ client \in [Requests -> ClientRecords]
    BY BlockKeeps DEF IInv, Typed
  <2>2. client' = [client EXCEPT ![r] = c]
    BY <1>1
  <2> HIDE DEF c
  <2>3. client'[r] = c
    BY <2>1, <2>2
  <2> QED BY <2>1, <2>3
<1>4. /\ c.response = client[r].response /\ c.total = Append(client[r].total, m.payload)
      /\ c.block2 = NextBlock2(m)
  BY <1>2 DEF NewMid, ClientRecords
<1>5. m.token = Token[r] /\ client' = [client EXCEPT ![r] = c]
  BY <1>1, FoundLinked
<1>6. requests' = requests \cup {Datagram(r, c)}
  BY <1>1
<1> HIDE DEF c
<1>7. Datagram(r, c).block2 = NextBlock2(m) /\ Datagram(r, c).token = Token[r]
  BY <1>4 DEF Datagram
<1>8. Asks(m, r, c)
  BY <1>1, <1>4, <1>5, <1>6, <1>7 DEF Asks
<1> QED BY <1>3, <1>8

\* All other steps of the client: what has been received stays as it is, and
\* no later block is asked for.
Goes(r, c) ==
    /\ client' = [client EXCEPT ![r] = c]
    /\ c.response = client[r].response /\ c.total = client[r].total
    /\ requests \subseteq requests'
    /\ \A d \in requests' : d \in requests \/ (IsFirst(d) /\ d.block2 = EarlyBlock2[r])

LEMMA SendNextRest ==
    ASSUME NEW r, NEW c \in ClientRecords
    PROVE  LET d == SendNext(r, c)
           IN  d.response = c.response /\ d.total = c.total /\ d.block2 = c.block2
<1> DEFINE u == UpdateBlockState(r, c)
           piece == Slice(r, Upload[r], c.current, Size(r))
<1>1. SendNext(r, c) = [u EXCEPT !.payload = piece, !.armed = TRUE,
                                 !.last = c.current, !.current = piece.to]
  BY DEF SendNext
<1>2. u.response = c.response /\ u.total = c.total /\ u.block2 = c.block2
  BY DEF UpdateBlockState, ClientRecords
<1> HIDE DEF u, piece
<1> QED BY <1>1, <1>2

\* The early option asks for no later block.
LEMMA EarlyFirst ==
    ASSUME NEW r \in Requests, NEW c, c.block2 = EarlyBlock2[r]
    PROVE  IsFirst(Datagram(r, c)) /\ Datagram(r, c).block2 = EarlyBlock2[r]
<1>1. Datagram(r, c).block2 = EarlyBlock2[r]
  BY DEF Datagram
<1> HIDE DEF Datagram
<1> QED BY <1>1, BlockwiseAssumption DEF IsFirst

LEMMA RequestGoes ==
    ASSUME IInv, JInv, NEW r \in Requests, Request(r)
    PROVE  \E c : Goes(r, c)
<1> DEFINE long == [Made(r) EXCEPT !.segmented = TRUE]
           c == IF Upload[r] > Size(r) THEN SendNext(r, long) ELSE Made(r)
<1>1. client[r].response = None /\ client[r].total = <<>>
  <2>1. client[r] = Unsent(r)
    BY DEF Request, JInv, Progressing, Progress
  <2> QED BY <2>1 DEF Unsent
<1>2. Made(r).response = None /\ Made(r).total = <<>> /\ Made(r).block2 = EarlyBlock2[r]
  BY DEF Made, Unsent
<1>3. /\ long \in ClientRecords /\ long.response = None /\ long.total = <<>>
      /\ long.block2 = EarlyBlock2[r]
  BY <1>2, MadeSound, ZenonT(60) DEF ClientRecords
<1> HIDE DEF long
<1>4. c.response = None /\ c.total = <<>> /\ c.block2 = EarlyBlock2[r]
  BY <1>2, <1>3, SendNextRest
<1>5. client' = [client EXCEPT ![r] = c] /\ requests' = requests \cup {Datagram(r, c)}
  BY DEF Request, Sends, long
<1> HIDE DEF c
<1>6. Goes(r, c)
  BY <1>1, <1>4, <1>5, EarlyFirst DEF Goes
<1> QED BY <1>6

LEMMA ReceiptGoes ==
    ASSUME IInv, JInv, NEW m \in replies,
           ReceiveEmpty(m) \/ ReceiveContinue(m) \/ ReceiveStale(m)
    PROVE  \E r \in Requests : \E c : Goes(r, c)
<1>1. CASE ReceiveEmpty(m)
  <2>1. PICK r \in Requests, k \in 1..MaxMids : m.mid = <<r, k>>
    BY <1>1 DEF ReceiveEmpty, IInv, Typed, Mids
  <2> DEFINE c == [client[r] EXCEPT !.armed = FALSE]
  <2>2. c.response = client[r].response /\ c.total = client[r].total
    BY DEF IInv, Typed, ClientRecords
  <2>3. client' = [client EXCEPT ![r] = c] /\ requests' = requests
    BY <1>1, <2>1 DEF ReceiveEmpty
  <2> HIDE DEF c
  <2>4. Goes(r, c)
    BY <2>2, <2>3 DEF Goes
  <2> QED BY <2>4
<1>2. CASE ReceiveContinue(m)
  <2>1. PICK r \in Requests :
          /\ Sends(r, ReceiveACK(r, NewMid(client[r])))
          /\ Arrives(m, r) /\ Uploading(m, r)
    BY <1>2 DEF ReceiveContinue
  <2>2. /\ client[r] \in ClientRecords /\ client[r].mids + 1 \in 0..MaxMids
        /\ client[r].block2 = EarlyBlock2[r]
    BY <2>1, FoundSound, UploadingSound
  <2> DEFINE b == NewMid(client[r])
             s == SendNext(r, b)
             c == ReceiveACK(r, b)
  <2>3. /\ b \in ClientRecords /\ b.response = client[r].response
        /\ b.total = client[r].total /\ b.block2 = EarlyBlock2[r]
    BY <2>2 DEF NewMid, ClientRecords
  <2> HIDE DEF b
  <2>4. s.response = client[r].response /\ s.total = client[r].total /\ s.block2 = EarlyBlock2[r]
    BY <2>3, SendNextRest
  <2>5. c = [s EXCEPT !.resends = 0]
    BY DEF ReceiveACK
  <2> HIDE DEF s, c
  <2>6. c.response = client[r].response /\ c.total = client[r].total /\ c.block2 = EarlyBlock2[r]
    BY <2>4, <2>5
  <2>7. client' = [client EXCEPT ![r] = c] /\ requests' = requests \cup {Datagram(r, c)}
    BY <2>1 DEF Sends, b, c
  <2>8. Goes(r, c)
    BY <2>6, <2>7, EarlyFirst DEF Goes
  <2> QED BY <2>8
<1>3. CASE ReceiveStale(m)
  <2>1. PICK r \in Requests :
          /\ IF client[r].resends < MaxResends
             THEN /\ client' = [client EXCEPT ![r] = ResendPreviousPacket(r, @)]
                  /\ requests' = requests \cup {Datagram(r, client'[r])}
             ELSE client' = [client EXCEPT ![r].armed = FALSE] /\ requests' = requests
          /\ Arrives(m, r) /\ Uploading(m, r)
    BY <1>3 DEF ReceiveStale
  <2>2. /\ client[r] \in ClientRecords /\ client \in [Requests -> ClientRecords]
        /\ client[r].block2 = EarlyBlock2[r]
    BY <2>1, UploadingSound DEF IInv, Typed
  <2>3. CASE client[r].resends < MaxResends
    <3> DEFINE b == [client[r] EXCEPT !.current = client[r].last]
               s == SendNext(r, b)
               c == ResendPreviousPacket(r, client[r])
    <3>1. /\ b \in ClientRecords /\ b.response = client[r].response
          /\ b.total = client[r].total /\ b.block2 = EarlyBlock2[r]
      BY <2>2 DEF ClientRecords
    <3>2. c = [s EXCEPT !.resends = @ + 1]
      BY DEF ResendPreviousPacket
    <3> HIDE DEF b
    <3>3. s.response = client[r].response /\ s.total = client[r].total /\ s.block2 = EarlyBlock2[r]
      BY <3>1, SendNextRest
    <3> HIDE DEF s
    <3>4. c.response = client[r].response /\ c.total = client[r].total /\ c.block2 = EarlyBlock2[r]
      BY <3>2, <3>3
    <3>5. client' = [client EXCEPT ![r] = c] /\ requests' = requests \cup {Datagram(r, client'[r])}
      BY <2>1, <2>3
    <3> HIDE DEF c
    <3>6. client'[r] = c
      BY <2>2, <3>5
    <3>7. Goes(r, c)
      BY <3>4, <3>5, <3>6, EarlyFirst DEF Goes
    <3> QED BY <3>7
  <2>4. CASE ~(client[r].resends < MaxResends)
    <3> DEFINE c == [client[r] EXCEPT !.armed = FALSE]
    <3>1. c.response = client[r].response /\ c.total = client[r].total
      BY <2>2 DEF ClientRecords
    <3>2. client' = [client EXCEPT ![r] = c] /\ requests' = requests
      BY <2>1, <2>4
    <3> HIDE DEF c
    <3>3. Goes(r, c)
      BY <3>1, <3>2 DEF Goes
    <3> QED BY <3>3
  <2> QED BY <2>3, <2>4
<1> QED BY <1>1, <1>2, <1>3

LEMMA TimeoutGoes ==
    ASSUME IInv, NEW r \in Requests, Timeout(r)
    PROVE  \E c : Goes(r, c)
<1> DEFINE c == [client[r] EXCEPT !.armed = FALSE, !.state = "failed"]
<1>1. c.response = client[r].response /\ c.total = client[r].total
  BY DEF IInv, Typed, ClientRecords
<1>2. client' = [client EXCEPT ![r] = c] /\ requests' = requests
  BY DEF Timeout, IInv, Typed
<1> HIDE DEF c
<1>3. Goes(r, c)
  BY <1>1, <1>2 DEF Goes
<1> QED BY <1>3

\* Whoever takes a step at the client, other requests keep what they have.
LEMMA Elsewhere ==
    ASSUME IInv, NEW r \in Requests, NEW c, client' = [client EXCEPT ![r] = c]
    PROVE  client'[r] = c /\ \A q \in Requests : q # r => client'[q] = client[q]
BY DEF IInv, Typed

LEMMA ClientUnseen ==
    ASSUME IInv, NEW r \in Requests, NEW c, client' = [client EXCEPT ![r] = c],
           c.response = client[r].response, bodies' = bodies
    PROVE  UNCHANGED <<Deliveries, Outcome>>
<1>1. \A q \in Requests : client'[q].response = client[q].response
  BY Elsewhere
<1> QED BY <1>1, Unseen

LEMMA ResponseSeen ==
    ASSUME DistinctTokens, IInv, JInv, NEW m \in replies, ReceiveResponse(m)
    PROVE  [Promise!Next]_<<Deliveries, Outcome>>
<1>1. PICK r \in Requests, c \in ClientRecords : Responds(m, r, c)
  BY ResponseStep
<1>2. bodies' = bodies /\ client' = [client EXCEPT ![r] = c]
  BY <1>1 DEF ReceiveResponse, serverVars, Responds
<1>3. CASE client[r].response # None
  <2>1. c.response = client[r].response
    BY <1>1, <1>3 DEF Responds
  <2> QED BY <1>2, <2>1, ClientUnseen
<1>4. CASE client[r].response = None /\ r \notin Uploads
  <2>1. Deliveries' = Deliveries
    BY <1>2 DEF Deliveries, FirstsOf, ExecutionsOf
  <2>2. \A q \in Uploads : client'[q] = client[q]
    BY <1>2, <1>4, Elsewhere DEF Uploads
  <2>3. Outcome' = Outcome
    BY <2>2, MapsOver, MapsOverNext
  <2> QED BY <2>1, <2>3
<1>5. CASE client[r].response = None /\ r \in Uploads
  <2>1. Deliveries' = Deliveries
    BY <1>2 DEF Deliveries, FirstsOf, ExecutionsOf
  <2>2. c.response # None /\ c.response.code = m.code
    BY <1>1, <1>5 DEF Responds
  <2>3. Outcome[r] = "unknown"
    BY <1>5, MapsOver DEF Told
  <2>4. \A q \in Uploads : q # r => Told(client'[q].response) = Outcome[q]
    BY <1>2, Elsewhere, MapsOver DEF Uploads
  <2>5. Told(client'[r].response) = IF m.code = "content" THEN "success" ELSE "failure"
    BY <1>2, <2>2, Elsewhere DEF Told
  <2>6. Outcome' = [Outcome EXCEPT ![r] = Told(client'[r].response)]
    BY <1>5, <2>4, MapsOver, MapsOverNext
  <2>7. CASE m.code = "content"
    <3>1. Executed(r)
      BY <1>1, <2>7 DEF Responds, JInv, ContentSound, ReplySound
    <3>2. Deliveries[r] = 1
      BY <1>5, <3>1, DeliveriesOf DEF JInv
    <3>3. Promise!Succeed(r)
      BY <2>1, <2>3, <2>5, <2>6, <2>7, <3>2 DEF Promise!Succeed
    <3> QED BY <1>5, <3>3 DEF Promise!Next
  <2>8. CASE m.code # "content"
    <3>1. Promise!Fail(r)
      BY <2>1, <2>3, <2>5, <2>6, <2>8 DEF Promise!Fail
    <3> QED BY <1>5, <3>1 DEF Promise!Next
  <2> QED BY <2>7, <2>8
<1> QED BY <1>3, <1>4, <1>5

LEMMA ExecutionSeen ==
    ASSUME DistinctTokens, IInv, JInv, NEW m \in requests, Execute(m)
    PROVE  [Promise!Next]_<<Deliveries, Outcome>>
<1>1. client' = client
  BY DEF Execute, clientVars
<1>2. Outcome' = Outcome
  BY <1>1, MapsOver, MapsOverNext
<1>3. OnceEach /\ OnceEach'
  BY ExecuteLinks DEF JInv
<1>4. \A r \in Uploads : /\ Deliveries[r] = IF Executed(r) THEN 1 ELSE 0
                         /\ Deliveries'[r] = IF Executed(r)' THEN 1 ELSE 0
  BY <1>3, DeliveriesOf, DeliveriesNext
<1>5. \A r \in Uploads :
        Executed(r)' <=> Executed(r) \/ (Token[r] = m.token /\ IsFirst(m))
  BY ExecutedGrows DEF Uploads
<1>6. CASE IsFirst(m) /\ \E r \in Uploads : m.token = Token[r]
  <2>1. PICK r \in Uploads : m.token = Token[r]
    BY <1>6
  <2>2. ~Executed(r)
    BY <1>6, <2>1, ExecutedNotAgain
  <2>3. \A q \in Uploads : q # r => m.token # Token[q]
    BY <2>1 DEF DistinctTokens, Uploads
  <2>4. Deliveries[r] = 0 /\ Deliveries'[r] = 1
    BY <1>4, <1>5, <1>6, <2>1, <2>2
  <2>5. \A q \in Uploads : q # r => Deliveries'[q] = Deliveries[q]
    BY <1>4, <1>5, <2>3
  <2>6. Deliveries' = [Deliveries EXCEPT ![r] = 1]
    BY <2>4, <2>5, MapsOver, MapsOverNext
  <2>7. Promise!Deliver(r)
    BY <1>2, <2>4, <2>6 DEF Promise!Deliver
  <2> QED BY <2>7 DEF Promise!Next
<1>7. CASE ~(IsFirst(m) /\ \E r \in Uploads : m.token = Token[r])
  <2>1. \A q \in Uploads : Deliveries'[q] = Deliveries[q]
    BY <1>4, <1>5, <1>7
  <2>2. Deliveries' = Deliveries
    BY <2>1, MapsOver, MapsOverNext
  <2> QED BY <1>2, <2>2
<1> QED BY <1>6, <1>7

(***************************************************************************)
(* Cut into blocks, repeated, reordered and forgotten, an upload is to its *)
(* users what Transfer promises: handed over at most once, and reported as *)
(* done only if it has been.                                               *)
(***************************************************************************)
THEOREM Refinement == ASSUME DistinctTokens PROVE Spec => TransferSpec
<1>1. Init => Promise!Init
  <2> SUFFICES ASSUME Init PROVE Promise!Init
    OBVIOUS
  <2>1. OnceEach /\ bodies = <<>> /\ Len(<<>>) = 0
    BY InitLinks, EmptySeq DEF JInv, Init
  <2>2. \A r \in Uploads : Deliveries[r] = 0
    BY <2>1, DeliveriesOf DEF Executed
  <2>3. \A r \in Uploads : Told(client[r].response) = "unknown"
    BY DEF Init, Unsent, Told, Uploads
  <2> QED BY <2>2, <2>3, MapsOver DEF Promise!Init
<1>2. ASSUME IInv, JInv, [Next]_vars PROVE [Promise!Next]_<<Deliveries, Outcome>>
  <2>1. ASSUME NEW r \in Requests, Request(r) \/ Timeout(r)
        PROVE  UNCHANGED <<Deliveries, Outcome>>
    <3>1. PICK c : Goes(r, c)
      BY <1>2, <2>1, RequestGoes, TimeoutGoes
    <3>2. bodies' = bodies
      BY <2>1 DEF Request, Timeout, serverVars
    <3> QED BY <1>2, <3>1, <3>2, ClientUnseen DEF Goes
  <2>2. ASSUME NEW m \in replies, ReceiveEmpty(m) \/ ReceiveContinue(m) \/ ReceiveStale(m)
        PROVE  UNCHANGED <<Deliveries, Outcome>>
    <3>0. PICK r \in Requests : \E c : Goes(r, c)
      BY <1>2, <2>2, ReceiptGoes
    <3>1. PICK c : Goes(r, c)
      BY <3>0
    <3>2. bodies' = bodies
      BY <2>2 DEF ReceiveEmpty, ReceiveContinue, ReceiveStale, serverVars
    <3> QED BY <1>2, <3>1, <3>2, ClientUnseen DEF Goes
  <2>3. ASSUME NEW m \in replies, ReceiveBlock(m) PROVE UNCHANGED <<Deliveries, Outcome>>
    <3>1. PICK r \in Requests, c \in ClientRecords : Asks(m, r, c)
      BY <1>2, <2>3, BlockStep
    <3>2. bodies' = bodies
      BY <2>3 DEF ReceiveBlock, serverVars
    <3> QED BY <1>2, <3>1, <3>2, ClientUnseen DEF Asks
  <2>4. ASSUME NEW m \in replies, ReceiveResponse(m)
        PROVE  [Promise!Next]_<<Deliveries, Outcome>>
    BY <1>2, <2>4, ResponseSeen
  <2>5. ASSUME NEW m \in requests, Execute(m)
        PROVE  [Promise!Next]_<<Deliveries, Outcome>>
    BY <1>2, <2>5, ExecutionSeen
  <2>6. ASSUME \/ \E m \in requests : Serve(m) \/ Store(m) \/ Refuse(m)
               \/ \E p \in waiting : Answer(p) \/ AckTimer(p)
               \/ \E t \in Tokens : Expire(t)
               \/ Change \/ UNCHANGED vars
        PROVE  UNCHANGED <<Deliveries, Outcome>>
    <3>1. client' = client /\ bodies' = bodies
      BY <2>6 DEF Serve, Store, Refuse, Answer, AckTimer, Expire, Change, vars,
                  clientVars, serverVars
    <3> QED BY <3>1, Unseen
  <2> QED BY <1>2, <2>1, <2>2, <2>3, <2>4, <2>5, <2>6 DEF Next, ClientNext, ServerNext
<1> QED BY <1>1, <1>2, IInvHolds, JInvHolds, PTL DEF Spec, Promise!Spec, TransferSpec

-----------------------------------------------------------------------------
(***************************************************************************)
(* A token whose requests are answered at once: the request is executed    *)
(* when its last block comes, and from then on what it is being served is  *)
(* in the cache.                                                           *)
(***************************************************************************)
Prompt(t) ==
    /\ block2Cache[t] # None => block2Cache[t].format
    /\ \A p \in waiting : p.token = t => p.lost
    /\ \A r \in Requests : Token[r] = t /\ Executed(r) => Mid(r, LastNum(r) + 1) \in answered
    /\ \A m \in replies : m.token = t /\ m.code = "content" =>
          m.format /\ (m.block2 # None => block2Cache[t] # None)
    /\ \A m \in requests : m.token = t /\ ~IsFirst(m) => block2Cache[t] # None
    /\ \A i \in ExecutionsOf(t) : bodies[i].first
    /\ \A i, j \in ExecutionsOf(t) : i = j

LInv == \A t \in Tokens \ Slow : Prompt(t)

\* Nothing happens to the token but retransmissions and what is no response.
LEMMA PromptFrame ==
    ASSUME NEW t, Prompt(t), block2Cache'[t] = block2Cache[t], answered \subseteq answered',
           \A p \in waiting' : p.token = t => p \in waiting \/ p.lost,
           \A m \in replies' : m.token = t => m \in replies \/ m.code # "content",
           \A m \in requests' : m.token = t => m \in requests \/ IsFirst(m) \/ block2Cache[t] # None,
           \A i \in ExecutionsOf(t)' : i \in ExecutionsOf(t) /\ bodies'[i] = bodies[i]
    PROVE  Prompt(t)'
<1>1. \A r : Token[r] = t /\ Executed(r)' => Executed(r)
  <2> SUFFICES ASSUME NEW r, Token[r] = t, Executed(r)' PROVE Executed(r)
    OBVIOUS
  <2>1. PICK i \in 1..Len(bodies') : bodies'[i].token = t /\ bodies'[i].first
    BY DEF Executed
  <2>2. i \in ExecutionsOf(t)'
    BY <2>1 DEF ExecutionsOf
  <2>3. i \in ExecutionsOf(t) /\ bodies'[i] = bodies[i]
    BY <2>2
  <2> QED BY <2>1, <2>3 DEF Executed, ExecutionsOf
<1>2. /\ (block2Cache[t] # None => block2Cache[t].format)'
      /\ (\A p \in waiting : p.token = t => p.lost)'
      /\ (\A r \in Requests : Token[r] = t /\ Executed(r) => Mid(r, LastNum(r) + 1) \in answered)'
  BY <1>1 DEF Prompt
<1>3. (\A m \in replies : m.token = t /\ m.code = "content" =>
          m.format /\ (m.block2 # None => block2Cache[t] # None))'
  BY DEF Prompt
<1>4. (\A m \in requests : m.token = t /\ ~IsFirst(m) => block2Cache[t] # None)'
  BY DEF Prompt
<1>5. \A i \in ExecutionsOf(t)' : bodies'[i].first
  BY DEF Prompt
<1>6. \A i, j \in ExecutionsOf(t)' : i = j
  BY DEF Prompt
<1> QED BY <1>2, <1>3, <1>4, <1>5, <1>6 DEF Prompt

\* A later block is asked for when there is one to serve.
LEMMA ClientPrompt ==
    ASSUME IInv, JInv, LInv, UNCHANGED serverVars,
           \/ \A d \in requests' : d \in requests \/ IsFirst(d)
           \/ \E m \in replies : ReceiveBlock(m)
    PROVE  LInv'
<1> SUFFICES ASSUME NEW t \in Tokens \ Slow PROVE Prompt(t)'
  BY DEF LInv
<1>1. Prompt(t)
  BY DEF LInv
<1>2. UNCHANGED <<block2Cache, answered, waiting, replies, bodies>>
  BY DEF serverVars
<1>3. \A d \in requests' : d.token = t => d \in requests \/ IsFirst(d) \/ block2Cache[t] # None
  <2>1. CASE \A d \in requests' : d \in requests \/ IsFirst(d)
    BY <2>1
  <2>2. CASE \E m \in replies : ReceiveBlock(m)
    <3>1. PICK m \in replies : ReceiveBlock(m)
      BY <2>2
    <3>2. PICK r \in Requests, c \in ClientRecords : Asks(m, r, c)
      BY <3>1, BlockStep
    <3>3. m.block2 # None /\ m.token = Token[r]
      BY <3>2 DEF Asks, MoreToCome
    <3>4. m.code = "content"
      BY <3>3 DEF JInv, ContentSound, ReplySound
    <3>5. m.token = t => block2Cache[t] # None
      BY <1>1, <3>3, <3>4 DEF Prompt
    <3>6. \A d \in requests' : d \in requests \/ d.token = m.token
      BY <3>2 DEF Asks
    <3> QED BY <3>5, <3>6
  <2> QED BY <2>1, <2>2
<1>4. \A i \in ExecutionsOf(t)' : i \in ExecutionsOf(t) /\ bodies'[i] = bodies[i]
  BY <1>2 DEF ExecutionsOf
<1> QED BY <1>1, <1>2, <1>3, <1>4, PromptFrame

\* A first datagram that is new: nothing has been executed, and so nothing is
\* being served.
LEMMA NewFirst ==
    ASSUME DistinctTokens, IInv, JInv, LInv, NEW m \in requests, m.token \notin Slow,
           IsNew(m), IsFirst(m)
    PROVE  /\ \A q \in replies : q.token = m.token => q.code # "content"
           /\ \A d \in requests : d.token = m.token => IsFirst(d)
           /\ ExecutionsOf(m.token) = {}
<1>1. PICK r \in Requests, k \in 1..MaxMids : m.mid = <<r, k>>
  BY DEF IInv, Typed, DatagramRecords, Mids
<1>2. m.token = Token[r] /\ Token[r] \in Tokens /\ FirstSound(m, client[r]) /\ LastNum(r) \in Nat
  BY <1>1, SizeOf, LastOf DEF JInv, Linked, Sorted, SortedOne
<1>3. k - 1 \in 0..LastNum(r)
  BY <1>1, <1>2 DEF FirstSound
<1>4. k \in 1..LastNum(r) \/ k = LastNum(r) + 1
  BY <1>2, <1>3
<1>5. Prompt(Token[r])
  BY <1>2 DEF LInv
<1>6. ~Executed(r)
  <2>1. Executed(r) => m.mid \in answered
    BY <1>1, <1>4, <1>5 DEF JInv, ExecutedSound, Prompt, Mid
  <2> QED BY <2>1 DEF IsNew
<1>7. \A q \in replies : q.token = m.token => q.code # "content"
  BY <1>2, <1>6 DEF JInv, ContentSound, ReplySound
<1>8. \A d \in requests : d.token = m.token => IsFirst(d)
  BY <1>2, <1>6, LaterExecuted
<1>9. ExecutionsOf(m.token) = {}
  BY <1>2, <1>5, <1>6 DEF Executed, ExecutionsOf, Prompt
<1> QED BY <1>7, <1>8, <1>9

\* A block that is only stored, or an upload that is refused.
LEMMA UploadPrompt ==
    ASSUME DistinctTokens, IInv, JInv, LInv, NEW m \in requests, Store(m) \/ Refuse(m)
    PROVE  LInv'
<1> SUFFICES ASSUME NEW t \in Tokens \ Slow PROVE Prompt(t)'
  BY DEF LInv
<1>1. Prompt(t) /\ block2Cache \in [Tokens -> Block2Entries]
  BY DEF LInv, IInv, Typed, Block2Entries
<1>2. /\ answered \subseteq answered' /\ requests' = requests /\ bodies' = bodies
      /\ block2Cache' = Kept(m) /\ IsNew(m)
      /\ \A p \in waiting' : p \in waiting \/ p.lost
      /\ \A q \in replies' : q \in replies \/ q.code # "content"
  BY DEF Store, Refuse, clientVars, Reply, ResponseObject
<1>3. \A i \in ExecutionsOf(t)' : i \in ExecutionsOf(t) /\ bodies'[i] = bodies[i]
  BY <1>2 DEF ExecutionsOf
<1>4. CASE m.token # t \/ ~IsFirst(m)
  <2>1. block2Cache'[t] = block2Cache[t]
    BY <1>1, <1>2, <1>4 DEF Kept
  <2> QED BY <1>1, <1>2, <1>3, <2>1, PromptFrame
<1>5. CASE m.token = t /\ IsFirst(m)
  <2>1. /\ \A q \in replies : q.token = t => q.code # "content"
        /\ \A d \in requests : d.token = t => IsFirst(d)
        /\ ExecutionsOf(t) = {}
    BY <1>2, <1>5, NewFirst
  <2>2. block2Cache'[t] = None
    BY <1>1, <1>2, <1>5 DEF Kept
  <2>3. ExecutionsOf(t)' = {}
    BY <1>3, <2>1
  <2>4. \A r : Token[r] = t => ~Executed(r)'
    BY <2>3 DEF Executed, ExecutionsOf
  <2>5. \A q \in replies' : q.token = t => q.code # "content"
    BY <1>2, <2>1
  <2>6. (\A p \in waiting : p.token = t => p.lost)'
    BY <1>1, <1>2 DEF Prompt
  <2>7. (\A d \in requests : d.token = t => IsFirst(d))'
    BY <1>2, <2>1
  <2> QED BY <2>2, <2>3, <2>4, <2>5, <2>6, <2>7 DEF Prompt
<1> QED BY <1>4, <1>5

\* A block with an option is served from what is then in the cache.
LEMMA EndServed ==
    ASSUME NEW block2, NEW v
    PROVE  End(block2, v).block2 # None => End(block2, v).served
<1>1. Refusal.block2 = None
  BY DEF Refusal
<1>2. EmptyBlock(v).served
  BY DEF EmptyBlock
<1>3. \A num, size : ServedBlock(v, num, size).served
  BY DEF ServedBlock
<1> DEFINE asked == ParseBlock2(block2)
           size == Smaller(asked.size, MaxBlock2)
           whole == [code |-> "content", block2 |-> None, served |-> FALSE,
                     payload |-> Piece(v, 0, Representations[v])]
<1>4. whole.block2 = None
  OBVIOUS
<1>5. \/ End(block2, v) = whole \/ End(block2, v) = ServedBlock(v, 0, MaxBlock2)
      \/ End(block2, v) = Refusal \/ End(block2, v) = EmptyBlock(v)
      \/ End(block2, v) = ServedBlock(v, asked.num, size)
  BY Zenon DEF End
<1> QED BY <1>1, <1>2, <1>3, <1>4, <1>5, Zenon

LEMMA EntryOf ==
    ASSUME NEW p, p.token \in Tokens, NEW v \in Versions, NEW format \in BOOLEAN,
           NEW cache \in [Tokens -> Block2Entries], block2Cache' = Entry(p, v, format, cache)
    PROVE  /\ \A t \in Tokens : t # p.token => block2Cache'[t] = cache[t]
           /\ block2Cache'[p.token] =
                IF End(p.block2, v).served THEN [version |-> v, format |-> format] ELSE cache[p.token]
           /\ [version |-> v, format |-> format] # None
<1>1. [version |-> v, format |-> format] \in [version : Versions, format : BOOLEAN]
  OBVIOUS
<1>2. PICK x : x = (IF End(p.block2, v).served THEN [version |-> v, format |-> format]
                    ELSE cache[p.token])
  OBVIOUS
<1>3. block2Cache' = [cache EXCEPT ![p.token] = x]
  BY <1>2 DEF Entry
<1> QED BY <1>1, <1>2, <1>3, NoneIsNoRecord

\* The fields of a response.
LEMMA ResponseFields ==
    ASSUME NEW p, NEW v, NEW format
    PROVE  LET x == Response(p, v, format)
               a == End(p.block2, v)
           IN  /\ x.token = p.token /\ x.code = a.code /\ x.block2 = a.block2
               /\ x.format = format /\ x.payload = a.payload
<1> DEFINE a == End(p.block2, v)
           type == IF p.acked THEN "con" ELSE "ack"
           mid == IF p.acked THEN NoMid ELSE p.mid
           x == Response(p, v, format)
<1> HIDE DEF a, type, mid
<1>1. x = [type |-> type, mid |-> mid, token |-> p.token, code |-> a.code, block1 |-> None,
           block2 |-> a.block2, payload |-> a.payload, format |-> format]
  <2>1. x = [Reply(type, mid, p.token, a.code, a.payload)
                EXCEPT !.block2 = a.block2, !.format = format]
    BY Zenon DEF Response, a, type, mid
  <2> HIDE DEF x
  <2> QED BY <2>1 DEF Reply
<1> HIDE DEF x
<1> QED BY <1>1 DEF x, a

\* A token other than that of the request that is handled.
LEMMA PromptElsewhere ==
    ASSUME NEW t, NEW token, t # token, Prompt(t),
           block2Cache'[t] = block2Cache[t], answered \subseteq answered',
           requests' = requests,
           \A p \in waiting' : p \in waiting \/ p.token = token,
           \A m \in replies' : m \in replies \/ m.token = token,
           \A i \in ExecutionsOf(t)' : i \in ExecutionsOf(t) /\ bodies'[i] = bodies[i]
    PROVE  Prompt(t)'
<1>1. \A p \in waiting' : p.token = t => p \in waiting \/ p.lost
  OBVIOUS
<1>2. \A m \in replies' : m.token = t => m \in replies \/ m.code # "content"
  OBVIOUS
<1>3. \A m \in requests' : m.token = t => m \in requests \/ IsFirst(m) \/ block2Cache[t] # None
  OBVIOUS
<1> QED BY <1>1, <1>2, <1>3, PromptFrame

LEMMA ServePrompt ==
    ASSUME DistinctTokens, IInv, JInv, LInv, NEW m \in requests, Serve(m)
    PROVE  LInv'
<1> SUFFICES ASSUME NEW t \in Tokens \ Slow PROVE Prompt(t)'
  BY DEF LInv
<1>1. m \in DatagramRecords /\ block2Cache \in [Tokens -> Block2Entries]
      /\ block2Cache[m.token] # None /\ Prompt(t)
  BY DEF IInv, Typed, Block2Entries, LInv, Serve, FromCache
<1>2. PICK v \in Versions, format \in BOOLEAN :
        block2Cache[m.token] = [version |-> v, format |-> format]
  <2>1. m.token \in Tokens
    BY <1>1 DEF DatagramRecords
  <2>2. block2Cache[m.token] \in [version : Versions, format : BOOLEAN]
    BY <1>1, <2>1 DEF Block2Entries
  <2> QED BY <2>2
<1>3. block2Cache[m.token].version = v /\ block2Cache[m.token].format = format
  BY <1>2
<1>4. PICK p \in WaitingRecords : p = ResponseObject(m) /\ p.mid = m.mid /\ p.token = m.token
  BY <1>1, ResponseObjectTyped
<1> DEFINE x == Response(p, v, format)
<1>5. /\ replies' = replies \cup {x} /\ answered \subseteq answered'
      /\ block2Cache' = Entry(p, v, format, block2Cache)
      /\ waiting' = waiting /\ bodies' = bodies /\ requests' = requests
  BY <1>3, <1>4 DEF Serve, Sent, clientVars
<1>6. x.token = m.token /\ x.format = format
  BY <1>4, ResponseFields
<1> HIDE DEF x
<1>7. \A i \in ExecutionsOf(t)' : i \in ExecutionsOf(t) /\ bodies'[i] = bodies[i]
  BY <1>5 DEF ExecutionsOf
<1>8. /\ t # m.token => block2Cache'[t] = block2Cache[t]
      /\ block2Cache'[m.token] \in {[version |-> v, format |-> format], block2Cache[m.token]}
  <2>1. p.token \in Tokens
    BY <1>1, <1>4 DEF DatagramRecords
  <2> QED BY <1>1, <1>4, <1>5, <2>1, EntryOf
<1>9. CASE t # m.token
  BY <1>1, <1>5, <1>6, <1>7, <1>8, <1>9, PromptElsewhere
<1>10. CASE t = m.token
  <2>1. block2Cache'[t] = block2Cache[t]
    BY <1>2, <1>8, <1>10
  <2>2. format
    BY <1>1, <1>3, <1>10 DEF Prompt
  <2>3. \A r : Executed(r)' <=> Executed(r)
    BY <1>5 DEF Executed
  <2>4. /\ (block2Cache[t] # None => block2Cache[t].format)'
        /\ (\A q \in waiting : q.token = t => q.lost)'
        /\ (\A r \in Requests : Token[r] = t /\ Executed(r) => Mid(r, LastNum(r) + 1) \in answered)'
        /\ (\A d \in requests : d.token = t /\ ~IsFirst(d) => block2Cache[t] # None)'
    BY <1>1, <1>5, <2>1, <2>3 DEF Prompt
  <2>5. (\A q \in replies : q.token = t /\ q.code = "content" =>
            q.format /\ (q.block2 # None => block2Cache[t] # None))'
    BY <1>1, <1>5, <1>6, <1>10, <2>1, <2>2 DEF Prompt
  <2>6. (\A i \in ExecutionsOf(t) : bodies[i].first)'
        /\ (\A i, j \in ExecutionsOf(t) : i = j)'
    BY <1>1, <1>7 DEF Prompt
  <2> QED BY <2>4, <2>5, <2>6 DEF Prompt
<1> QED BY <1>9, <1>10

\* The executions of a token, one more of which is m's.
LEMMA ExecutionsGrow ==
    ASSUME DistinctTokens, IInv, NEW m \in requests, Execute(m), NEW t
    PROVE  \A i \in ExecutionsOf(t)' :
              \/ i \in ExecutionsOf(t) /\ bodies'[i] = bodies[i]
              \/ i = Len(bodies) + 1 /\ m.token = t /\ bodies'[i].first = IsFirst(m)
<1> TAKE i \in ExecutionsOf(t)'
<1>1. i \in 1..Len(bodies') /\ bodies'[i].token = t
  BY DEF ExecutionsOf
<1>2. i \in 1..Len(bodies) \/ i = Len(bodies) + 1
  BY <1>1, BodiesGrow
<1>3. CASE i \in 1..Len(bodies)
  BY <1>1, <1>3, BodiesGrow DEF ExecutionsOf
<1>4. CASE i = Len(bodies) + 1
  BY <1>1, <1>4, BodiesGrow
<1> QED BY <1>2, <1>3, <1>4

LEMMA ExecutePrompt ==
    ASSUME DistinctTokens, IInv, JInv, LInv, NEW m \in requests, Execute(m)
    PROVE  LInv'
<1> SUFFICES ASSUME NEW t \in Tokens \ Slow PROVE Prompt(t)'
  BY DEF LInv
<1>1. PICK r \in Requests : /\ m.mid[1] = r /\ m.token = Token[r] /\ m.mid # NoMid
                            /\ Token[r] \in Tokens /\ m \in DatagramRecords
  BY OwnerOf
<1>2. block2Cache \in [Tokens -> Block2Entries] /\ version \in Versions /\ Prompt(t)
      /\ Kept(m) \in [Tokens -> Block2Entries] /\ (t # m.token => Kept(m)[t] = block2Cache[t])
  BY KeptTyped DEF IInv, Typed, Block2Entries, LInv, Kept
<1>3. PICK p \in WaitingRecords : /\ p = ResponseObject(m) /\ p.mid = m.mid
                                  /\ p.token = m.token /\ ~p.acked
  BY <1>1, ResponseObjectTyped DEF ResponseObject
<1>4. PICK v \in Versions, saved \in BOOLEAN : v = version /\ saved = TRUE
  BY <1>2
<1> DEFINE x == Response(p, v, TRUE)
<1>5. \/ /\ replies' = replies \cup {x} /\ answered' = answered \cup {m.mid}
         /\ block2Cache' = Entry(p, v, saved, Kept(m))
         /\ waiting' = waiting
      \/ /\ m.token \in Slow
         /\ waiting' = waiting \cup {p}
         /\ block2Cache' = Kept(m)
         /\ UNCHANGED <<replies, answered>>
  BY <1>3, <1>4 DEF Execute, Sent
<1>6. /\ x.token = m.token /\ x.format /\ x.block2 = End(p.block2, v).block2
  <2>1. /\ x.token = p.token /\ x.format = TRUE /\ x.block2 = End(p.block2, v).block2
    <3>1. PICK format \in BOOLEAN : format = TRUE
      OBVIOUS
    <3>2. x = Response(p, v, format)
      BY <3>1
    <3> HIDE DEF x
    <3>3. /\ x.token = p.token /\ x.format = format /\ x.block2 = End(p.block2, v).block2
      BY <3>2, ResponseFields
    <3> QED BY <3>1, <3>3, Zenon
  <2> QED BY <1>3, <2>1
<1> HIDE DEF x
<1>7. requests' = requests
  BY DEF Execute, clientVars
<1>8. CASE t # m.token
  <2>1. \A i \in ExecutionsOf(t)' : i \in ExecutionsOf(t) /\ bodies'[i] = bodies[i]
    BY <1>8, ExecutionsGrow
  <2>2. block2Cache'[t] = block2Cache[t]
    <3>1. CASE block2Cache' = Kept(m)
      BY <1>2, <1>8, <3>1
    <3>2. CASE block2Cache' = Entry(p, v, saved, Kept(m))
      <4>0. p.token \in Tokens
        BY <1>1, <1>3
      <4>1. block2Cache'[t] = Kept(m)[t]
        BY <1>2, <1>3, <1>8, <3>2, <4>0, EntryOf, ZenonT(60)
      <4> QED BY <1>2, <1>8, <4>1
    <3> QED BY <1>5, <3>1, <3>2
  <2>3. /\ answered \subseteq answered'
        /\ \A q \in waiting' : q \in waiting \/ q.token = m.token
        /\ \A q \in replies' : q \in replies \/ q.token = m.token
    BY <1>3, <1>5, <1>6
  <2> QED BY <1>2, <1>7, <1>8, <2>1, <2>2, <2>3, PromptElsewhere
<1>9. CASE t = m.token
  <2>1. /\ replies' = replies \cup {x} /\ answered' = answered \cup {m.mid}
        /\ block2Cache' = Entry(p, v, saved, Kept(m)) /\ waiting' = waiting
    BY <1>5, <1>9
  <2>2. IsFirst(m) /\ IsNew(m)
    BY <1>2, <1>9 DEF Execute, FromCache, Prompt
  <2>3. /\ \A q \in replies : q.token = t => q.code # "content"
        /\ \A d \in requests : d.token = t => IsFirst(d)
        /\ ExecutionsOf(t) = {}
    BY <1>9, <2>2, NewFirst
  <2>4. \A i \in ExecutionsOf(t)' : i = Len(bodies) + 1 /\ bodies'[i].first
    BY <2>2, <2>3, ExecutionsGrow
  <2>5. m.mid = Mid(r, LastNum(r) + 1)
    BY <1>1, <2>2, UploadComplete
  <2>6. \A q \in Requests : Token[q] = t => q = r
    BY <1>1, <1>9 DEF DistinctTokens
  <2>7. Kept(m)[t] = None
    BY <1>1, <1>2, <1>9, <2>2 DEF Kept
  <2>8. /\ block2Cache'[t] = IF End(p.block2, v).served THEN [version |-> v, format |-> saved]
                             ELSE Kept(m)[t]
        /\ [version |-> v, format |-> saved] # None
    BY <1>1, <1>2, <1>3, <1>9, <2>1, EntryOf
  <2>9. (block2Cache[t] # None => block2Cache[t].format)'
    <3>1. block2Cache'[t] # None => block2Cache'[t].format = saved
      BY <2>7, <2>8
    <3> QED BY <1>4, <3>1
  <2>10. x.block2 # None => block2Cache'[t] # None
    BY <1>6, <2>8, EndServed
  <2>11. (\A q \in replies : q.token = t /\ q.code = "content" =>
            q.format /\ (q.block2 # None => block2Cache[t] # None))'
    BY <1>6, <2>1, <2>3, <2>10
  <2>12. /\ (\A q \in waiting : q.token = t => q.lost)'
         /\ (\A d \in requests : d.token = t /\ ~IsFirst(d) => block2Cache[t] # None)'
    BY <1>2, <1>7, <2>1, <2>3 DEF Prompt
  <2>13. (\A q \in Requests : Token[q] = t /\ Executed(q) => Mid(q, LastNum(q) + 1) \in answered)'
    BY <2>1, <2>5, <2>6
  <2>14. (\A i \in ExecutionsOf(t) : bodies[i].first)'
         /\ (\A i, j \in ExecutionsOf(t) : i = j)'
    BY <2>4
  <2> QED BY <2>9, <2>11, <2>12, <2>13, <2>14 DEF Prompt
<1> QED BY <1>8, <1>9

\* Only what waits for a slow application is answered later.
LEMMA WaitingPrompt ==
    ASSUME IInv, JInv, LInv, NEW p \in waiting, Answer(p) \/ AckTimer(p)
    PROVE  LInv'
<1> SUFFICES ASSUME NEW t \in Tokens \ Slow PROVE Prompt(t)'
  BY DEF LInv
<1>1. /\ p \in WaitingRecords /\ p.token \in Tokens /\ Prompt(t)
      /\ block2Cache \in [Tokens -> Block2Entries] /\ version \in Versions
  BY DEF IInv, Typed, WaitingRecords, LInv, Block2Entries
<1>2. requests' = requests /\ bodies' = bodies /\ answered \subseteq answered'
  BY DEF Answer, AckTimer, Sent, clientVars
<1>3. \A i \in ExecutionsOf(t)' : i \in ExecutionsOf(t) /\ bodies'[i] = bodies[i]
  BY <1>2 DEF ExecutionsOf
<1>4. CASE Answer(p)
  <2>1. p.token # t
    BY <1>1, <1>4 DEF Answer, Prompt
  <2>2. PICK v \in Versions : v = version
    BY <1>1
  <2> DEFINE x == Response(p, v, TRUE)
  <2>3. /\ replies' = replies \cup {x} /\ waiting' \subseteq waiting
        /\ block2Cache' = Entry(p, v, FALSE, block2Cache)
    BY <1>4, <2>2 DEF Answer, Sent
  <2>4. x.token = p.token
    <3>1. PICK format : format = TRUE
      OBVIOUS
    <3>2. x = Response(p, v, format)
      BY <3>1
    <3> HIDE DEF x
    <3> QED BY <3>2, ResponseFields
  <2> HIDE DEF x
  <2>5. block2Cache'[t] = block2Cache[t]
    BY <1>1, <2>1, <2>3, EntryOf
  <2> QED BY <1>1, <1>2, <1>3, <2>1, <2>3, <2>4, <2>5, PromptElsewhere
<1>5. CASE AckTimer(p)
  <2> DEFINE q == [p EXCEPT !.acked = TRUE]
             x == Reply("ack", p.mid, p.token, "empty", Nothing)
  <2>1. q.token = p.token /\ q.lost = p.lost /\ x.code # "content"
    BY <1>1 DEF WaitingRecords, Reply
  <2>2. /\ waiting' = (waiting \ {p}) \cup {q} /\ replies' = replies \cup {x}
        /\ block2Cache' = block2Cache
    BY <1>5 DEF AckTimer
  <2> HIDE DEF q, x
  <2>3. \A o \in waiting' : o.token = t => o \in waiting \/ o.lost
    BY <1>1, <2>1, <2>2 DEF Prompt
  <2> QED BY <1>1, <1>2, <1>3, <2>1, <2>2, <2>3, PromptFrame
<1> QED BY <1>4, <1>5

LEMMA StepPrompt == ASSUME DistinctTokens, IInv, JInv, LInv, [Next]_vars PROVE LInv'
<1>1. ASSUME NEW r \in Requests, Request(r) \/ Timeout(r) PROVE LInv'
  <2>1. PICK c : Goes(r, c)
    BY <1>1, RequestGoes, TimeoutGoes
  <2>2. UNCHANGED serverVars
    BY <1>1 DEF Request, Timeout
  <2>3. \A d \in requests' : d \in requests \/ IsFirst(d)
    BY <2>1 DEF Goes
  <2> QED BY <2>2, <2>3, ClientPrompt
<1>2. ASSUME NEW m \in replies, ReceiveEmpty(m) \/ ReceiveContinue(m) \/ ReceiveStale(m)
      PROVE  LInv'
  <2>0. PICK r \in Requests : \E c : Goes(r, c)
    BY <1>2, ReceiptGoes
  <2>1. PICK c : Goes(r, c)
    BY <2>0
  <2>2. UNCHANGED serverVars
    BY <1>2 DEF ReceiveEmpty, ReceiveContinue, ReceiveStale
  <2>3. \A d \in requests' : d \in requests \/ IsFirst(d)
    BY <2>1 DEF Goes
  <2> QED BY <2>2, <2>3, ClientPrompt
<1>3. ASSUME NEW m \in replies, ReceiveBlock(m) PROVE LInv'
  <2>1. UNCHANGED serverVars
    BY <1>3 DEF ReceiveBlock
  <2> QED BY <1>3, <2>1, ClientPrompt
<1>4. ASSUME NEW m \in replies, ReceiveResponse(m) PROVE LInv'
  <2>1. UNCHANGED serverVars /\ requests' = requests
    BY <1>4 DEF ReceiveResponse
  <2> QED BY <2>1, ClientPrompt
<1>5. ASSUME NEW m \in requests, Serve(m) \/ Store(m) \/ Refuse(m) \/ Execute(m) PROVE LInv'
  BY <1>5, ServePrompt, UploadPrompt, ExecutePrompt
<1>6. ASSUME NEW p \in waiting, Answer(p) \/ AckTimer(p) PROVE LInv'
  BY <1>6, WaitingPrompt
<1>7. ASSUME \/ \E t \in Tokens : Expire(t)
             \/ Change \/ UNCHANGED vars
      PROVE  LInv'
  <2>1. UNCHANGED <<requests, replies, block2Cache, answered, waiting, bodies>>
    BY <1>7 DEF Expire, Change, vars, clientVars, serverVars
  <2>2. \A t \in Tokens \ Slow : Prompt(t)
    BY DEF LInv
  <2>3. \A t : ExecutionsOf(t)' = ExecutionsOf(t)
    BY <2>1 DEF ExecutionsOf
  <2>4. \A t : Prompt(t) => Prompt(t)'
    BY <2>1, <2>3, PromptFrame
  <2> QED BY <2>2, <2>4 DEF LInv
<1> QED BY <1>1, <1>2, <1>3, <1>4, <1>5, <1>6, <1>7 DEF Next, ClientNext, ServerNext

LEMMA LInvHolds == ASSUME DistinctTokens PROVE Spec => []LInv
<1>1. Init => LInv
  <2> SUFFICES ASSUME Init, NEW t \in Tokens \ Slow PROVE Prompt(t)
    BY DEF LInv
  <2>1. bodies = <<>> /\ Len(<<>>) = 0
    BY EmptySeq DEF Init
  <2>2. ExecutionsOf(t) = {} /\ \A r : ~Executed(r)
    BY <2>1 DEF ExecutionsOf, Executed
  <2> QED BY <2>2 DEF Init, Prompt
<1>2. IInv /\ JInv /\ LInv /\ [Next]_vars => LInv'
  BY StepPrompt
<1> QED BY <1>1, <1>2, IInvHolds, JInvHolds, PTL DEF Spec

(***************************************************************************)
(* A request that is answered at once is executed once, however often its  *)
(* datagrams come: the blocks after the first are served from the cache,   *)
(* which no repetition of an earlier block empties.                        *)
(***************************************************************************)
THEOREM ServedFromCache == ASSUME DistinctTokens PROVE Spec => []ExecutedOnce
<1>1. IInv /\ LInv => ExecutedOnce
  <2> SUFFICES ASSUME IInv, LInv, NEW t \in Tokens \ Slow
               PROVE  Cardinality(ExecutionsOf(t)) <= 1
    BY DEF ExecutedOnce
  <2>1. \A i, j \in ExecutionsOf(t) : i = j
    BY DEF LInv, Prompt
  <2> QED BY <2>1, OneOrNone
<1> QED BY <1>1, IInvHolds, LInvHolds, PTL

(***************************************************************************)
(* Every block of its response carries the options the application gave    *)
(* it, not the first ones alone: each block that is served puts them back  *)
(* into the cache.                                                         *)
(***************************************************************************)
THEOREM OptionsStay == ASSUME DistinctTokens PROVE Spec => []OptionsKept
<1>1. IInv /\ LInv => OptionsKept
  <2> SUFFICES ASSUME IInv, LInv, NEW m \in replies, m.code = "content", m.token \notin Slow
               PROVE  m.format
    BY DEF OptionsKept
  <2>1. m.token \in Tokens
    BY DEF IInv, Typed, ReplyRecords
  <2> QED BY <2>1 DEF LInv, Prompt
<1> QED BY <1>1, IInvHolds, LInvHolds, PTL

-----------------------------------------------------------------------------
(***************************************************************************)
(* A response in blocks.  When a request is executed once, all content     *)
(* that its token is answered with is of one version, v, in blocks of one  *)
(* size, s; and a client has a block before it asks for the next, so that  *)
(* whatever it takes, a block it has or the next one, continues a block it *)
(* has.                                                                    *)
(***************************************************************************)
\* No request is made with an option of no bytes.
NoEmptyOption == \A r \in Requests : EarlyBlock2[r] # <<>>

Sized(block2) == block2 # None => ParseBlock2(block2) = None \/ ParseBlock2(block2).size # 0

Final(v, s) == (Representations[v] - 1) \div s
BlockAt(v, s, n) == Slice(v, Representations[v], n * s, s)

IsBlock(m, v, s, n) ==
    /\ n \in 0..Final(v, s)
    /\ ParseBlock2(m.block2) = [num |-> n, more |-> IF n < Final(v, s) THEN 1 ELSE 0, size |-> s]
    /\ m.payload = BlockAt(v, s, n)

MadeFrom(m, v, s) ==
    IF m.block2 = None THEN m.payload = Piece(v, 0, Representations[v])
    ELSE \E n \in 0..Final(v, s) : IsBlock(m, v, s, n)

Contents(t) == {m \in replies : m.code = "content" /\ m.token = t}
LaterOf(t) == {d \in requests : d.token = t /\ ~IsFirst(d)}
PendingOf(t) == {p \in waiting : p.token = t /\ ~p.lost}
Single(t) == \A i, j \in ExecutionsOf(t) : i = j

\* Nothing has come of the request yet.
Untouched(r) ==
    /\ Contents(Token[r]) = {} /\ block2Cache[Token[r]] = None /\ LaterOf(Token[r]) = {}
    /\ client[r].total = <<>>

\* What was answered, asked for and kept.
Story(t, v, s) ==
    /\ \A m \in Contents(t) : MadeFrom(m, v, s)
    /\ \A m \in Contents(t) : m.block2 # None /\ ParseBlock2(m.block2).num > 0 =>
          \E d \in LaterOf(t) : ParseBlock2(d.block2).num = ParseBlock2(m.block2).num
    /\ \A d \in LaterOf(t) : ParseBlock2(d.block2).size = s
    /\ block2Cache[t] # None => block2Cache[t].version = v

\* Each block of a body that is not the first block comes after the one before.
InLine(body, v, s) ==
    \A i \in 1..Len(body) : \E n \in 0..Final(v, s) :
        /\ body[i] = BlockAt(v, s, n)
        /\ n > 0 => \E j \in 1..(i - 1) : body[j] = BlockAt(v, s, n - 1)

Has(body, v, s, n) == \E i \in 1..Len(body) : body[i] = BlockAt(v, s, n)

\* The client has the block before any that it has asked for.
Collected(r, v, s) ==
    client[r].response = None =>
        /\ InLine(client[r].total, v, s)
        /\ \A d \in LaterOf(Token[r]) :
              Has(client[r].total, v, s, ParseBlock2(d.block2).num - 1)

Tells(r, v, s) ==
    v \in Versions /\ s \in BlockSizes /\ s <= MaxBlock2 /\ Story(Token[r], v, s) /\ Collected(r, v, s)

Coherent(r) ==
    /\ ExecutionsOf(Token[r]) = {} => Untouched(r)
    /\ Single(Token[r]) =>
        /\ \E v, s : Tells(r, v, s)
        /\ \A p \in PendingOf(Token[r]) : Untouched(r) /\ \A q \in PendingOf(Token[r]) : q = p

AskedFor(p) == \E d \in requests : d.token = p.token /\ d.block2 = p.block2

WholeResponse(r) ==
    LET response == client[r].response
    IN  response # None /\ response.code = "content" /\ Single(Token[r])
        => IsRepresentation(response.body)

KInv ==
    /\ \A d \in requests : Sized(d.block2)
    /\ \A p \in waiting : AskedFor(p)
    /\ \A r \in Requests : Coherent(r) /\ WholeResponse(r)
-----------------------------------------------------------------------------
LEMMA MaxBlock2Size == MaxBlock2 \in BlockSizes /\ BlockSizes \subseteq Nat \ {0}
<1>1. \A x \in 0..6 : ExponentToByteSize(x) \in BlockSizes
  BY SMT DEF ExponentToByteSize, BlockSizes
<1> QED BY <1>1, BlockwiseAssumption DEF BlockSizes

LEMMA FinalOf ==
    ASSUME NEW v \in Versions, NEW s \in BlockSizes
    PROVE  /\ Final(v, s) \in Nat /\ Final(v, s) < MaxNum
           /\ Representations[v] \in Nat \ {0}
           /\ Final(v, s) * s < Representations[v] /\ Representations[v] <= Final(v, s) * s + s
<1>1. Representations[v] \in 1..(16 * MaxNum)
  BY VersionOf
<1>2. Representations[v] \in Nat \ {0}
  BY <1>1
<1> QED BY <1>1, <1>2, FewBlocks, LastBlock DEF Final

\* A block of a version that is served is that block.
LEMMA ServedIsBlock ==
    ASSUME NEW v \in Versions, NEW s \in BlockSizes, NEW n \in 0..Final(v, s)
    PROVE  LET a == ServedBlock(v, n, s) IN a.block2 # None /\ IsBlock(a, v, s, n)
<1> DEFINE b == [num |-> n, more |-> IF n < Final(v, s) THEN 1 ELSE 0, size |-> s]
           a == ServedBlock(v, n, s)
<1>1. Final(v, s) \in Nat /\ Final(v, s) < MaxNum
  BY FinalOf
<1>2. n \in 0..MaxNum
  BY <1>1, MaxNumBound
<1>3. b \in SizedBlocks
  BY <1>2 DEF SizedBlocks, BlockSizes
<1>4. a.block2 = CreateBlock2(b) /\ a.payload = BlockAt(v, s, n)
  BY DEF ServedBlock, BlockAt, Final
<1>5. CreateBlock2(b) \in Buffers /\ ParseBlock2(CreateBlock2(b)) = b
  BY <1>3, ServedOption
<1> HIDE DEF a
<1>6. a.block2 # None /\ ParseBlock2(a.block2) = b
  BY <1>4, <1>5, NoneApart
<1>7. IsBlock(a, v, s, n)
  BY <1>4, <1>6 DEF IsBlock
<1> QED BY <1>6, <1>7 DEF a

\* The size of the blocks that are made for an option, and the block it asks
\* for.
SizeFor(block2) ==
    IF block2 = None \/ ParseBlock2(block2) = None THEN MaxBlock2
    ELSE Smaller(ParseBlock2(block2).size, MaxBlock2)
NumFor(block2) == IF block2 = None THEN 0 ELSE ParseBlock2(block2).num

LEMMA SizeForSound ==
    ASSUME NEW block2 \in Buffers \cup {None}, Sized(block2)
    PROVE  SizeFor(block2) \in BlockSizes /\ SizeFor(block2) <= MaxBlock2
<1>1. MaxBlock2 \in BlockSizes /\ MaxBlock2 \in Nat
  BY MaxBlock2Size
<1>2. CASE block2 = None \/ ParseBlock2(block2) = None
  BY <1>1, <1>2 DEF SizeFor
<1>3. CASE ~(block2 = None \/ ParseBlock2(block2) = None)
  <2>1. PICK s \in BlockSizes : s = ParseBlock2(block2).size
    BY <1>3, ParseTyped DEF Sized
  <2>2. s \in Nat
    BY <2>1, MaxBlock2Size
  <2>3. SizeFor(block2) = Smaller(s, MaxBlock2)
    BY <1>3, <2>1 DEF SizeFor
  <2> QED BY <1>1, <2>1, <2>2, <2>3 DEF Smaller
<1> QED BY <1>2, <1>3

\* Content is made from the version it is asked of.
LEMMA EndMade ==
    ASSUME NEW v \in Versions, NEW block2 \in Buffers \cup {None}, Sized(block2),
           End(block2, v).code = "content"
    PROVE  LET a == End(block2, v)
           IN  /\ MadeFrom(a, v, SizeFor(block2))
               /\ a.block2 # None => ParseBlock2(a.block2).num = NumFor(block2)
<1> DEFINE a == End(block2, v)
           s == SizeFor(block2)
<1>1. s \in BlockSizes /\ MaxBlock2 \in BlockSizes
  BY SizeForSound, MaxBlock2Size
<1>2. Final(v, s) \in Nat
  BY <1>1, FinalOf
<1>3. CASE block2 = None
  <2>1. s = MaxBlock2 /\ NumFor(block2) = 0
    BY <1>3 DEF SizeFor, NumFor
  <2>2. CASE Representations[v] < MaxBlock2
    <3>1. a = [code |-> "content", block2 |-> None, served |-> FALSE,
               payload |-> Piece(v, 0, Representations[v])]
      BY <1>3, <2>2 DEF End
    <3> HIDE DEF a
    <3>2. a.block2 = None /\ a.payload = Piece(v, 0, Representations[v])
      BY <3>1
    <3> QED BY <3>2 DEF MadeFrom, a
  <2>3. CASE ~(Representations[v] < MaxBlock2)
    <3>1. a = ServedBlock(v, 0, s)
      BY <1>3, <2>1, <2>3 DEF End
    <3>2. 0 \in 0..Final(v, s)
      BY <1>2
    <3> HIDE DEF a, s
    <3>3. a.block2 # None /\ IsBlock(a, v, s, 0)
      BY <1>1, <3>1, <3>2, ServedIsBlock
    <3>4. ParseBlock2(a.block2).num = 0
      BY <3>3 DEF IsBlock
    <3> QED BY <2>1, <3>2, <3>3, <3>4 DEF MadeFrom, a, s
  <2> QED BY <2>2, <2>3
<1>4. CASE block2 # None
  <2> DEFINE asked == ParseBlock2(block2)
  <2>1. asked # None
    <3>1. asked = None => a = Refusal
      BY <1>4 DEF End
    <3> QED BY <3>1 DEF Refusal
  <2>2. asked.num \in Nat /\ s = Smaller(asked.size, MaxBlock2) /\ s # 0
        /\ NumFor(block2) = asked.num
    BY <1>1, <1>4, <2>1, ParseTyped DEF SizeFor, NumFor, BlockSizes
  <2>3. a = IF asked.num > Final(v, s) THEN Refusal ELSE ServedBlock(v, asked.num, s)
    <3>1. a = IF Smaller(asked.size, MaxBlock2) = 0 THEN EmptyBlock(v)
              ELSE IF asked.num > (Representations[v] - 1) \div Smaller(asked.size, MaxBlock2)
              THEN Refusal ELSE ServedBlock(v, asked.num, Smaller(asked.size, MaxBlock2))
      BY <1>4, <2>1, Zenon DEF End
    <3> HIDE DEF a, asked, s
    <3> QED BY <2>2, <3>1 DEF Final
  <2>4. a.code = "content"
    OBVIOUS
  <2> HIDE DEF a, asked, s
  <2>5. asked.num \in 0..Final(v, s)
    <3>1. ~(asked.num > Final(v, s))
      BY <2>3, <2>4 DEF Refusal
    <3> QED BY <1>2, <2>2, <3>1
  <2>6. a = ServedBlock(v, asked.num, s)
    BY <1>2, <2>2, <2>3, <2>5
  <2>7. a.block2 # None /\ IsBlock(a, v, s, asked.num)
    BY <1>1, <2>5, <2>6, ServedIsBlock
  <2>8. ParseBlock2(a.block2).num = asked.num
    BY <2>7 DEF IsBlock
  <2> QED BY <2>2, <2>5, <2>7, <2>8 DEF MadeFrom, a, s
<1> QED BY <1>3, <1>4

\* Blocks in line, the last of them at the end, are the representation.
LEMMA BlocksInLine ==
    ASSUME NEW v \in Versions, NEW s \in BlockSizes, NEW body, Len(body) \in Nat \ {0},
           InLine(body, v, s), body[Len(body)] = BlockAt(v, s, Final(v, s))
    PROVE  IsRepresentation(body)
<1> DEFINE F == Final(v, s)
           length == Representations[v]
<1>1. F \in Nat /\ length \in Nat \ {0} /\ F * s < length /\ length <= F * s + s /\ s \in Nat \ {0}
  BY FinalOf, MaxBlock2Size
<1>2. \A n : /\ BlockAt(v, s, n).of = v /\ BlockAt(v, s, n).from = n * s
             /\ BlockAt(v, s, n).to = Smaller(n * s + s, length)
  BY DEF BlockAt, Slice, Piece
<1>3. body[Len(body)] = BlockAt(v, s, F)
  OBVIOUS
<1> HIDE DEF F, length
<1>4. body[Len(body)].to = length
  <2>1. body[Len(body)].to = Smaller(F * s + s, length)
    BY <1>2, <1>3
  <2>2. F * s \in Nat
    BY <1>1, Multiples
  <2> QED BY <1>1, <2>1, <2>2 DEF Smaller
<1>5. ASSUME NEW i \in 1..Len(body)
      PROVE  \E n \in 0..F : /\ body[i] = BlockAt(v, s, n)
                             /\ n > 0 => \E j \in 1..(i - 1) : body[j] = BlockAt(v, s, n - 1)
  BY DEF InLine, F
<1>6. ASSUME NEW i \in 1..Len(body) PROVE body[i].of = v
  BY <1>2, <1>5
<1>7. ASSUME NEW i \in 1..Len(body), body[i].from # 0
      PROVE  \E j \in 1..(i - 1) : body[j].to = body[i].from
  <2>1. PICK n \in 0..F : /\ body[i] = BlockAt(v, s, n)
                          /\ n > 0 => \E j \in 1..(i - 1) : body[j] = BlockAt(v, s, n - 1)
    BY <1>5
  <2>2. body[i].from = n * s
    BY <1>2, <2>1
  <2>3. n \in Nat /\ n # 0
    <3>1. 0 * s = 0
      BY <1>1
    <3> QED BY <1>1, <1>7, <2>2, <3>1
  <2>4. PICK j \in 1..(i - 1) : body[j] = BlockAt(v, s, n - 1)
    BY <2>1, <2>3
  <2>5. PICK k \in Nat : k = n - 1 /\ n = k + 1 /\ k < n /\ k < F
    BY <1>1, <2>3
  <2>6. body[j].to = Smaller(k * s + s, length)
    BY <1>2, <2>4, <2>5
  <2>7. k * s \in Nat /\ F * s \in Nat /\ n * s = k * s + s /\ k * s + s <= F * s
    BY <1>1, <2>5, Multiples
  <2>8. PICK x \in Nat, y \in Nat : x = k * s /\ y = F * s
    BY <2>7
  <2>9. x + s <= y /\ y < length
    BY <1>1, <2>7, <2>8
  <2>10. Smaller(x + s, length) = x + s
    BY <1>1, <2>9 DEF Smaller
  <2>11. body[j].to = body[i].from
    BY <2>2, <2>6, <2>7, <2>8, <2>10
  <2> QED BY <2>11
<1>8. ASSUME NEW i \in 1..Len(body), NEW j \in 1..Len(body), body[j].from = body[i].from
      PROVE  body[j] = body[i]
  <2>1. PICK n \in 0..F : body[i] = BlockAt(v, s, n)
    BY <1>5
  <2>2. PICK k \in 0..F : body[j] = BlockAt(v, s, k)
    BY <1>5
  <2>3. n * s = k * s
    BY <1>2, <1>8, <2>1, <2>2
  <2>4. n \in Nat /\ k \in Nat
    BY <1>1
  <2>5. n = k
    BY <2>3, <2>4, Multiples
  <2> QED BY <2>1, <2>2, <2>5
<1>9. body[Len(body)].to = Representations[v]
  BY <1>4 DEF length
<1> QED BY <1>6, <1>7, <1>8, <1>9, Zenon DEF IsRepresentation

\* A block that is taken is one the client has, or the next one.
LEMMA NextInLine ==
    ASSUME NEW r, NEW v, NEW s, Tells(r, v, s), client[r].response = None,
           client[r].total \in Seq(Pieces), NEW m \in Contents(Token[r]), m.block2 # None
    PROVE  InLine(Append(client[r].total, m.payload), v, s)
<1> DEFINE total == client[r].total
           body == Append(total, m.payload)
<1>1. /\ Len(total) \in Nat /\ Len(body) = Len(total) + 1 /\ body[Len(total) + 1] = m.payload
      /\ \A i \in 1..Len(total) : body[i] = total[i]
  OBVIOUS
<1>2. v \in Versions /\ s \in BlockSizes /\ Story(Token[r], v, s) /\ Collected(r, v, s)
  BY DEF Tells
<1>3. /\ InLine(total, v, s)
      /\ \A d \in LaterOf(Token[r]) : Has(total, v, s, ParseBlock2(d.block2).num - 1)
  BY <1>2 DEF Collected
<1>4. PICK k \in 0..Final(v, s) : IsBlock(m, v, s, k)
  BY <1>2 DEF Story, MadeFrom
<1>5. k \in Nat /\ ParseBlock2(m.block2).num = k /\ m.payload = BlockAt(v, s, k)
  BY <1>4 DEF IsBlock
<1> HIDE DEF total, body
<1>6. ASSUME NEW i \in 1..Len(body)
      PROVE  \E n \in 0..Final(v, s) :
                /\ body[i] = BlockAt(v, s, n)
                /\ n > 0 => \E j \in 1..(i - 1) : body[j] = BlockAt(v, s, n - 1)
  <2>1. CASE i \in 1..Len(total)
    <3>1. PICK n \in 0..Final(v, s) :
            /\ total[i] = BlockAt(v, s, n)
            /\ n > 0 => \E j \in 1..(i - 1) : total[j] = BlockAt(v, s, n - 1)
      BY <1>3, <2>1 DEF InLine
    <3>2. \A j \in 1..(i - 1) : j \in 1..Len(total)
      BY <1>1, <2>1
    <3> QED BY <1>1, <2>1, <3>1, <3>2
  <2>2. CASE i = Len(total) + 1
    <3>1. ASSUME k > 0 PROVE \E j \in 1..(i - 1) : body[j] = BlockAt(v, s, k - 1)
      <4>1. PICK d \in LaterOf(Token[r]) : ParseBlock2(d.block2).num = k
        <5>1. m.block2 # None /\ ParseBlock2(m.block2).num > 0
          BY <1>5, <3>1
        <5>2. PICK d \in LaterOf(Token[r]) : ParseBlock2(d.block2).num = ParseBlock2(m.block2).num
          BY <1>2, <5>1 DEF Story
        <5> QED BY <1>5, <5>2
      <4>2. PICK j \in 1..Len(total) : total[j] = BlockAt(v, s, k - 1)
        BY <1>3, <4>1 DEF Has
      <4>3. j \in 1..(i - 1)
        BY <1>1, <2>2
      <4> QED BY <1>1, <4>2, <4>3
    <3> QED BY <1>1, <1>5, <2>2, <3>1
  <2> QED BY <1>1, <2>1, <2>2
<1>7. InLine(body, v, s)
  BY <1>6 DEF InLine
<1> QED BY <1>7 DEF body, total

-----------------------------------------------------------------------------
LEMMA SameContents ==
    ASSUME NEW t, replies \subseteq replies',
           \A m \in replies' : m.token = t /\ m.code = "content" => m \in replies
    PROVE  Contents(t)' = Contents(t)
BY DEF Contents

LEMMA SameLater ==
    ASSUME NEW t, requests \subseteq requests',
           \A d \in requests' : d.token = t /\ ~IsFirst(d) => d \in requests
    PROVE  LaterOf(t)' = LaterOf(t)
BY DEF LaterOf

\* Nothing happens to r that its story is about.
LEMMA Unaffected ==
    ASSUME NEW r, Coherent(r), WholeResponse(r),
           Contents(Token[r])' = Contents(Token[r]),
           LaterOf(Token[r])' = LaterOf(Token[r]),
           block2Cache'[Token[r]] \in {block2Cache[Token[r]], None},
           ExecutionsOf(Token[r])' = ExecutionsOf(Token[r]),
           PendingOf(Token[r])' \subseteq PendingOf(Token[r]),
           client'[r].total = client[r].total, client'[r].response = client[r].response
    PROVE  Coherent(r)' /\ WholeResponse(r)'
<1>1. Untouched(r) => Untouched(r)'
  BY DEF Untouched
<1>2. \A v, s : Story(Token[r], v, s) => Story(Token[r], v, s)'
  <2> SUFFICES ASSUME NEW v, NEW s, Story(Token[r], v, s) PROVE Story(Token[r], v, s)'
    OBVIOUS
  <2>1. \A m : MadeFrom(m, v, s)' <=> MadeFrom(m, v, s)
    BY DEF MadeFrom, IsBlock
  <2> QED BY <2>1 DEF Story
<1>3. \A v, s : Collected(r, v, s) => Collected(r, v, s)'
  BY DEF Collected
<1>4. Single(Token[r])' <=> Single(Token[r])
  BY DEF Single
<1>5. \A v, s : Tells(r, v, s) => Tells(r, v, s)'
  BY <1>2, <1>3 DEF Tells
<1>6. Coherent(r)'
  BY <1>1, <1>4, <1>5 DEF Coherent
<1>7. WholeResponse(r)'
  BY <1>4 DEF WholeResponse
<1> QED BY <1>6, <1>7

\* What a client has asked for stays asked for.
LEMMA StillAsked ==
    ASSUME KInv, requests \subseteq requests',
           \A p \in waiting' : AskedFor(p)
    PROVE  \A p \in waiting' : AskedFor(p)'
BY DEF AskedFor

LEMMA EarlySized == ASSUME NoEmptyOption, NEW r \in Requests PROVE Sized(EarlyBlock2[r])
<1> SUFFICES ASSUME EarlyBlock2[r] # None, ParseBlock2(EarlyBlock2[r]) # None
             PROVE  ParseBlock2(EarlyBlock2[r]).size # 0
  BY DEF Sized
<1>1. PICK buf \in Buffers : buf = EarlyBlock2[r]
  BY BlockwiseAssumption
<1>2. Len(buf) # 0 /\ Len(buf) \in Nat
  <2>1. Len(buf) = 0 => buf = <<>>
    BY <1>1, EmptySeq DEF Buffers
  <2>2. buf # <<>>
    BY <1>1 DEF NoEmptyOption
  <2> QED BY <2>1, <2>2, BytesOf
<1>3. PICK w : w = buf[Len(buf)]
  OBVIOUS
<1>4. w \in 0..255
  <2>1. Len(buf) \in 1..Len(buf)
    BY <1>2
  <2> QED BY <1>3, <2>1, BytesOf
<1>5. /\ w % 8 # 7
      /\ ParseBlock2(buf).size = ExponentToByteSize(w % 8)
  BY <1>1, <1>2, <1>3 DEF ParseBlock2
<1>6. w % 8 \in 0..6
  BY <1>4, <1>5
<1>7. PICK x \in 0..7 : x = w % 8
  BY <1>6
<1>8. ExponentToByteSize(x) # 0
  BY ExponentInverse
<1> QED BY <1>1, <1>5, <1>7, <1>8

\* Steps of the client that take no block.
LEMMA GoesOn ==
    ASSUME NoEmptyOption, IInv, KInv, NEW r \in Requests, NEW c, Goes(r, c), UNCHANGED serverVars
    PROVE  KInv'
<1>1. /\ UNCHANGED <<replies, block2Cache, waiting, bodies>> /\ requests \subseteq requests'
      /\ \A d \in requests' : d \in requests \/ (IsFirst(d) /\ d.block2 = EarlyBlock2[r])
      /\ client' = [client EXCEPT ![r] = c] /\ c.total = client[r].total
      /\ c.response = client[r].response
  BY DEF serverVars, Goes
<1>2. \A d \in requests' : Sized(d.block2)
  BY <1>1, EarlySized DEF KInv
<1>3. \A p \in waiting' : AskedFor(p)'
  BY <1>1, StillAsked DEF KInv
<1>4. ASSUME NEW q \in Requests PROVE Coherent(q)' /\ WholeResponse(q)'
  <2>1. Contents(Token[q])' = Contents(Token[q]) /\ LaterOf(Token[q])' = LaterOf(Token[q])
    BY <1>1, SameContents, SameLater
  <2>2. ExecutionsOf(Token[q])' = ExecutionsOf(Token[q]) /\ PendingOf(Token[q])' = PendingOf(Token[q])
    BY <1>1 DEF ExecutionsOf, PendingOf
  <2>3. client'[q].total = client[q].total /\ client'[q].response = client[q].response
    BY <1>1, Elsewhere
  <2> QED BY <1>1, <2>1, <2>2, <2>3, Unaffected DEF KInv
<1> QED BY <1>2, <1>3, <1>4 DEF KInv, Sized

\* A block that is not the last one: the next is asked for.
LEMMA AsksOn ==
    ASSUME DistinctTokens, IInv, JInv, KInv, NEW m \in replies, NEW r \in Requests,
           NEW c \in ClientRecords, Asks(m, r, c), UNCHANGED serverVars
    PROVE  KInv'
<1>1. /\ UNCHANGED <<replies, block2Cache, waiting, bodies>> /\ requests \subseteq requests'
      /\ \A d \in requests' : d \in requests \/ (d.block2 = NextBlock2(m) /\ d.token = Token[r])
      /\ client' = [client EXCEPT ![r] = c] /\ c.total = Append(client[r].total, m.payload)
      /\ c.response = client[r].response /\ MoreToCome(m) /\ m.token = Token[r]
  BY DEF serverVars, Asks
<1>2. m.block2 # None /\ m.code = "content" /\ m \in Contents(Token[r])
  BY <1>1 DEF MoreToCome, JInv, ContentSound, ReplySound, Contents
<1>3. /\ ParseBlock2(NextBlock2(m)).num = ParseBlock2(m.block2).num + 1
      /\ ParseBlock2(NextBlock2(m)).size = ParseBlock2(m.block2).size
      /\ ParseBlock2(m.block2).size \in BlockSizes
  <2>1. Announces(m.block2)
    BY DEF IInv, RepliesSound
  <2> QED BY <1>1, <2>1, NextBlockSound DEF MoreToCome, Announces, SizedBlocks, BlockSizes
<1>4. \A d \in requests' : Sized(d.block2)
  <2>1. Sized(NextBlock2(m))
    BY <1>3 DEF Sized, BlockSizes
  <2> QED BY <1>1, <2>1 DEF KInv
<1>5. \A p \in waiting' : AskedFor(p)'
  BY <1>1, StillAsked DEF KInv
<1>6. \A q : /\ Contents(Token[q])' = Contents(Token[q]) /\ ExecutionsOf(Token[q])' = ExecutionsOf(Token[q])
             /\ PendingOf(Token[q])' = PendingOf(Token[q])
  BY <1>1 DEF Contents, ExecutionsOf, PendingOf
<1>7. ASSUME NEW q \in Requests, q # r PROVE Coherent(q)' /\ WholeResponse(q)'
  <2>1. LaterOf(Token[q])' = LaterOf(Token[q])
    <3>1. Token[q] # Token[r]
      BY <1>7 DEF DistinctTokens
    <3> QED BY <1>1, <3>1, SameLater
  <2>2. client'[q] = client[q]
    BY <1>1, <1>7, Elsewhere
  <2> QED BY <1>1, <1>6, <2>1, <2>2, Unaffected DEF KInv
<1>8. WholeResponse(r)'
  <2>1. client'[r].response = client[r].response
    BY <1>1, Elsewhere
  <2>2. Single(Token[r])' <=> Single(Token[r])
    BY <1>6 DEF Single
  <2> QED BY <2>1, <2>2 DEF KInv, WholeResponse
<1>9. Coherent(r)'
  <2>1. Coherent(r) /\ ~Untouched(r) /\ ExecutionsOf(Token[r]) # {}
    BY <1>2 DEF KInv, Coherent, Untouched
  <2>2. Single(Token[r])' <=> Single(Token[r])
    BY <1>6 DEF Single
  <2>3. SUFFICES ASSUME Single(Token[r])
                 PROVE  /\ \E v, s : Tells(r, v, s)'
                        /\ PendingOf(Token[r])' = {}
    BY <1>6, <2>1, <2>2 DEF Coherent
  <2>4. PendingOf(Token[r])' = {}
    BY <1>6, <2>1, <2>3 DEF Coherent
  <2>5. PICK v, s : Tells(r, v, s)
    BY <2>1, <2>3 DEF Coherent
  <2>6. v \in Versions /\ s \in BlockSizes /\ s <= MaxBlock2 /\ Story(Token[r], v, s)
    BY <2>5 DEF Tells
  <2>7. PICK k \in 0..Final(v, s) : IsBlock(m, v, s, k)
    BY <1>2, <2>6 DEF Story, MadeFrom
  <2>8. ParseBlock2(m.block2).num = k /\ ParseBlock2(m.block2).size = s
        /\ ParseBlock2(m.block2).more = IF k < Final(v, s) THEN 1 ELSE 0
    BY <2>7 DEF IsBlock
  <2>9. Final(v, s) \in Nat /\ k \in Nat /\ k < Final(v, s)
    BY <1>1, <2>6, <2>7, <2>8, FinalOf DEF MoreToCome
  <2>10. \A d \in LaterOf(Token[r])' :
           d \in LaterOf(Token[r])
             \/ (ParseBlock2(d.block2).num = k + 1 /\ ParseBlock2(d.block2).size = s)
    <3> TAKE d \in LaterOf(Token[r])'
    <3>1. d \in requests' /\ d.token = Token[r] /\ ~IsFirst(d)
      BY DEF LaterOf
    <3>2. CASE d \in requests
      <4>1. d \in LaterOf(Token[r])
        BY <3>1, <3>2, Zenon DEF LaterOf
      <4> QED BY <4>1
    <3>3. CASE d.block2 = NextBlock2(m)
      BY <1>3, <2>8, <3>3
    <3> QED BY <1>1, <3>1, <3>2, <3>3
  <2>11. LaterOf(Token[r]) \subseteq LaterOf(Token[r])'
    BY <1>1 DEF LaterOf
  <2>12. Story(Token[r], v, s)'
    <3>1. \A x : MadeFrom(x, v, s)' <=> MadeFrom(x, v, s)
      BY DEF MadeFrom, IsBlock
    <3>2. (\A x \in Contents(Token[r]) : MadeFrom(x, v, s))'
      BY <1>6, <2>6, <3>1 DEF Story
    <3>3. (\A x \in Contents(Token[r]) : x.block2 # None /\ ParseBlock2(x.block2).num > 0 =>
            \E d \in LaterOf(Token[r]) : ParseBlock2(d.block2).num = ParseBlock2(x.block2).num)'
      BY <1>6, <2>6, <2>11 DEF Story
    <3>4. (\A d \in LaterOf(Token[r]) : ParseBlock2(d.block2).size = s)'
      BY <2>6, <2>10 DEF Story
    <3>5. (block2Cache[Token[r]] # None => block2Cache[Token[r]].version = v)'
      BY <1>1, <2>6 DEF Story
    <3> QED BY <3>2, <3>3, <3>4, <3>5 DEF Story
  <2>13. Collected(r, v, s)'
    <3> DEFINE total == client[r].total
    <3>0. client'[r] = c /\ client'[r].response = client[r].response
      BY <1>1, Elsewhere
    <3>1. SUFFICES ASSUME client[r].response = None
                   PROVE  /\ InLine(c.total, v, s)
                          /\ \A d \in LaterOf(Token[r])' :
                                Has(c.total, v, s, ParseBlock2(d.block2).num - 1)
      BY <3>0 DEF Collected, InLine, Has
    <3>2. total \in Seq(Pieces)
      BY DEF IInv, Typed, ClientRecords
    <3>3. InLine(c.total, v, s)
      BY <1>1, <1>2, <2>5, <3>1, <3>2, NextInLine
    <3>4. m.payload = BlockAt(v, s, k)
      BY <2>7 DEF IsBlock
    <3>5. /\ Len(total) \in Nat /\ Len(c.total) = Len(total) + 1
          /\ c.total[Len(total) + 1] = m.payload
          /\ \A i \in 1..Len(total) : c.total[i] = total[i]
      BY <1>1, <3>2
    <3> HIDE DEF total
    <3>6. ASSUME NEW d \in LaterOf(Token[r])'
          PROVE  Has(c.total, v, s, ParseBlock2(d.block2).num - 1)
      <4>1. CASE ParseBlock2(d.block2).num = k + 1
        <5>1. (k + 1) - 1 = k /\ Len(total) + 1 \in 1..Len(c.total)
          BY <2>9, <3>5
        <5>2. Has(c.total, v, s, k)
          BY <3>4, <3>5, <5>1 DEF Has
        <5> QED BY <4>1, <5>1, <5>2
      <4>2. CASE d \in LaterOf(Token[r])
        <5>1. Has(total, v, s, ParseBlock2(d.block2).num - 1)
          BY <2>5, <3>1, <4>2 DEF Tells, Collected, total
        <5>2. PICK i \in 1..Len(total) : total[i] = BlockAt(v, s, ParseBlock2(d.block2).num - 1)
          BY <5>1 DEF Has
        <5>3. i \in 1..Len(c.total) /\ c.total[i] = total[i]
          BY <3>5
        <5> QED BY <5>2, <5>3 DEF Has
      <4> QED BY <2>10, <4>1, <4>2
    <3> QED BY <3>3, <3>6
  <2>14. Tells(r, v, s)'
    BY <2>6, <2>12, <2>13 DEF Tells
  <2> QED BY <2>4, <2>14
<1>10. \A q \in Requests : Coherent(q)' /\ WholeResponse(q)'
  BY <1>7, <1>8, <1>9
<1> QED BY <1>4, <1>5, <1>10 DEF KInv, Sized

-----------------------------------------------------------------------------
\* As Unaffected, for a step that changes what is pending.
LEMMA UnaffectedBut ==
    ASSUME NEW r, Coherent(r), WholeResponse(r),
           Contents(Token[r])' = Contents(Token[r]),
           LaterOf(Token[r])' = LaterOf(Token[r]),
           block2Cache'[Token[r]] = block2Cache[Token[r]],
           ExecutionsOf(Token[r])' = ExecutionsOf(Token[r]),
           PendingOf(Token[r])' # {} => PendingOf(Token[r]) # {},
           (\A p, q \in PendingOf(Token[r]) : p = q) => \A p, q \in PendingOf(Token[r])' : p = q,
           client' = client
    PROVE  Coherent(r)' /\ WholeResponse(r)'
<1>1. Untouched(r)' <=> Untouched(r)
  BY DEF Untouched
<1>2. \A v, s : Story(Token[r], v, s) => Story(Token[r], v, s)'
  <2> SUFFICES ASSUME NEW v, NEW s, Story(Token[r], v, s) PROVE Story(Token[r], v, s)'
    OBVIOUS
  <2>1. \A m : MadeFrom(m, v, s)' <=> MadeFrom(m, v, s)
    BY DEF MadeFrom, IsBlock
  <2> QED BY <2>1 DEF Story
<1>3. \A v, s : Collected(r, v, s) => Collected(r, v, s)'
  BY DEF Collected
<1>4. Single(Token[r])' <=> Single(Token[r])
  BY DEF Single
<1>5. \A v, s : Tells(r, v, s) => Tells(r, v, s)'
  BY <1>2, <1>3 DEF Tells
<1>6. Coherent(r)'
  BY <1>1, <1>4, <1>5 DEF Coherent
<1>7. WholeResponse(r)'
  BY <1>4 DEF WholeResponse
<1> QED BY <1>6, <1>7

\* The handling of a datagram of another token.
LEMMA OtherToken ==
    ASSUME NEW r, Coherent(r), WholeResponse(r), NEW token, Token[r] # token,
           client' = client, requests' = requests, replies \subseteq replies',
           \A m \in replies' : m \in replies \/ m.token = token,
           \A p \in waiting' : p \in waiting \/ p.token = token,
           block2Cache'[Token[r]] = block2Cache[Token[r]],
           ExecutionsOf(Token[r])' = ExecutionsOf(Token[r])
    PROVE  Coherent(r)' /\ WholeResponse(r)'
<1>1. Contents(Token[r])' = Contents(Token[r])
  BY DEF Contents
<1>2. LaterOf(Token[r])' = LaterOf(Token[r])
  BY DEF LaterOf
<1>3. PendingOf(Token[r])' \subseteq PendingOf(Token[r])
  BY DEF PendingOf
<1> QED BY <1>1, <1>2, <1>3, Unaffected

\* The last block, or all of a response, is delivered.
LEMMA DeliversWhole ==
    ASSUME IInv, JInv, KInv, NEW m \in replies, NEW r \in Requests, client[r].response = None,
           ~MoreToCome(m), m.token = Token[r], m.code = "content", Single(Token[r])
    PROVE  IsRepresentation(Body(m, r))
<1>1. m \in Contents(Token[r])
  BY DEF Contents
<1>2. PICK v, s : Tells(r, v, s)
  BY DEF KInv, Coherent
<1>3. v \in Versions /\ s \in BlockSizes /\ MadeFrom(m, v, s)
  BY <1>1, <1>2 DEF Tells, Story
<1>4. CASE m.block2 = None
  <2> DEFINE body == Body(m, r)
  <2>1. body = <<m.payload>>
    BY <1>4 DEF Body
  <2>2. Len(body) = 1 /\ body[1] = m.payload
    BY <2>1
  <2>3. m.payload = Piece(v, 0, Representations[v])
    BY <1>3, <1>4 DEF MadeFrom
  <2>4. /\ m.payload.of = v /\ m.payload.from = 0 /\ m.payload.to = Representations[v]
    BY <2>3 DEF Piece
  <2> HIDE DEF body
  <2>5. \A i \in 1..Len(body) : i = 1
    BY <2>2
  <2>6. IsRepresentation(body)
    BY <1>3, <2>2, <2>4, <2>5 DEF IsRepresentation
  <2> QED BY <2>6 DEF body
<1>5. CASE m.block2 # None
  <2> DEFINE total == client[r].total
             body == Body(m, r)
  <2>1. body = Append(total, m.payload)
    BY <1>5 DEF Body
  <2>2. total \in Seq(Pieces)
    BY DEF IInv, Typed, ClientRecords
  <2>3. InLine(body, v, s)
    BY <1>1, <1>2, <1>5, <2>1, <2>2, NextInLine
  <2>4. Final(v, s) \in Nat
    BY <1>3, FinalOf
  <2>5. PICK k \in 0..Final(v, s) : IsBlock(m, v, s, k)
    BY <1>3, <1>5 DEF MadeFrom
  <2>6. /\ m.payload = BlockAt(v, s, k)
        /\ ParseBlock2(m.block2).more = IF k < Final(v, s) THEN 1 ELSE 0
    BY <2>5 DEF IsBlock
  <2>7. k = Final(v, s)
    BY <1>5, <2>4, <2>6 DEF MoreToCome
  <2>8. Len(body) = Len(total) + 1 /\ Len(total) \in Nat /\ body[Len(total) + 1] = m.payload
    BY <2>1, <2>2
  <2> HIDE DEF body, total
  <2>9. Len(body) \in Nat \ {0} /\ body[Len(body)] = BlockAt(v, s, Final(v, s))
    BY <2>6, <2>7, <2>8
  <2>10. IsRepresentation(body)
    BY <1>3, <2>3, <2>9, BlocksInLine
  <2> QED BY <2>10 DEF body
<1> QED BY <1>4, <1>5

LEMMA RespondsOn ==
    ASSUME DistinctTokens, IInv, JInv, KInv, NEW m \in replies, NEW r \in Requests,
           NEW c \in ClientRecords, Responds(m, r, c), requests' = requests, UNCHANGED serverVars
    PROVE  KInv'
<1>1. /\ UNCHANGED <<replies, block2Cache, waiting, bodies>>
      /\ client' = [client EXCEPT ![r] = c] /\ ~MoreToCome(m) /\ m.token = Token[r]
      /\ c.total = (IF m.block2 # None THEN <<>> ELSE client[r].total) /\ c.response # None
      /\ client[r].response # None => c.response = client[r].response
      /\ client[r].response = None =>
            c.response = [code |-> m.code, body |-> Body(m, r), format |-> m.format]
  BY DEF serverVars, Responds
<1>2. (\A d \in requests' : Sized(d.block2)) /\ \A p \in waiting' : AskedFor(p)'
  BY <1>1, StillAsked DEF KInv
<1>3. \A q : /\ Contents(Token[q])' = Contents(Token[q]) /\ ExecutionsOf(Token[q])' = ExecutionsOf(Token[q])
             /\ PendingOf(Token[q])' = PendingOf(Token[q]) /\ LaterOf(Token[q])' = LaterOf(Token[q])
  BY <1>1 DEF Contents, ExecutionsOf, PendingOf, LaterOf
<1>4. ASSUME NEW q \in Requests, q # r PROVE Coherent(q)' /\ WholeResponse(q)'
  <2>1. client'[q] = client[q]
    BY <1>1, <1>4, Elsewhere
  <2> QED BY <1>1, <1>3, <2>1, Unaffected DEF KInv
<1>5. client'[r] = c
  BY <1>1, Elsewhere
<1>6. Single(Token[r])' <=> Single(Token[r])
  BY <1>3 DEF Single
<1>7. WholeResponse(r)'
  <2>1. CASE client[r].response # None
    BY <1>1, <1>5, <1>6, <2>1 DEF KInv, WholeResponse
  <2>2. CASE client[r].response = None
    <3>1. c.response.code = m.code /\ c.response.body = Body(m, r)
      BY <1>1, <2>2
    <3>2. m.code = "content" /\ Single(Token[r]) => IsRepresentation(Body(m, r))
      BY <1>1, <2>2, DeliversWhole
    <3> QED BY <1>5, <1>6, <3>1, <3>2 DEF WholeResponse
  <2> QED BY <2>1, <2>2
<1>8. Coherent(r)'
  <2>1. Untouched(r) => Untouched(r)'
    BY <1>1, <1>3, <1>5 DEF Untouched
  <2>2. ASSUME NEW v, NEW s, Tells(r, v, s) PROVE Tells(r, v, s)'
    <3>1. \A x : MadeFrom(x, v, s)' <=> MadeFrom(x, v, s)
      BY DEF MadeFrom, IsBlock
    <3>2. Story(Token[r], v, s)'
      BY <1>1, <1>3, <2>2, <3>1 DEF Tells, Story
    <3>3. Collected(r, v, s)'
      BY <1>1, <1>5 DEF Collected
    <3> QED BY <2>2, <3>2, <3>3 DEF Tells
  <2> QED BY <1>3, <1>6, <2>1, <2>2 DEF KInv, Coherent
<1>9. \A q \in Requests : Coherent(q)' /\ WholeResponse(q)'
  BY <1>4, <1>7, <1>8
<1> QED BY <1>2, <1>9 DEF KInv, Sized

-----------------------------------------------------------------------------
\* What a step of the server leaves to be shown.
LEMMA ServerCoherent ==
    ASSUME KInv, requests' = requests,
           \A p \in waiting' : AskedFor(p),
           \A q \in Requests : Coherent(q)' /\ WholeResponse(q)'
    PROVE  KInv'
<1>1. \A p \in waiting' : AskedFor(p)'
  BY DEF AskedFor
<1>2. \A d \in requests' : Sized(d.block2)
  BY DEF KInv
<1> QED BY <1>1, <1>2 DEF KInv, Sized

\* A block that is only stored, or an upload that is refused.
LEMMA UploadCoherent ==
    ASSUME IInv, JInv, KInv, NEW m \in requests, Store(m) \/ Refuse(m)
    PROVE  KInv'
<1> DEFINE p == [ResponseObject(m) EXCEPT !.lost = TRUE]
<1>1. /\ requests' = requests /\ bodies' = bodies /\ client' = client
      /\ block2Cache' = Kept(m) /\ waiting' \subseteq waiting \cup {p}
      /\ replies \subseteq replies'
      /\ \A q \in replies' : q \in replies \/ q.code # "content"
  BY DEF Store, Refuse, clientVars, Reply
<1>2. p.lost /\ p.token = m.token /\ p.block2 = m.block2
  BY DEF ResponseObject
<1> HIDE DEF p
<1>3. AskedFor(p)
  BY <1>2 DEF AskedFor
<1>4. ASSUME NEW q \in Requests PROVE Coherent(q)' /\ WholeResponse(q)'
  <2>1. Contents(Token[q])' = Contents(Token[q]) /\ LaterOf(Token[q])' = LaterOf(Token[q])
    BY <1>1, SameContents, SameLater
  <2>2. ExecutionsOf(Token[q])' = ExecutionsOf(Token[q])
    BY <1>1 DEF ExecutionsOf
  <2>3. PendingOf(Token[q])' \subseteq PendingOf(Token[q])
    BY <1>1, <1>2 DEF PendingOf
  <2>4. block2Cache'[Token[q]] \in {block2Cache[Token[q]], None}
    <3>1. block2Cache \in [Tokens -> Block2Entries] /\ Token[q] \in Tokens
      BY DEF IInv, Typed, Block2Entries, Tokens
    <3> QED BY <1>1, <3>1 DEF Kept
  <2> QED BY <1>1, <2>1, <2>2, <2>3, <2>4, Unaffected DEF KInv
<1> QED BY <1>1, <1>3, <1>4, ServerCoherent DEF KInv

\* An empty acknowledgement.
LEMMA AckCoherent ==
    ASSUME IInv, KInv, NEW p \in waiting, AckTimer(p)
    PROVE  KInv'
<1> DEFINE o == [p EXCEPT !.acked = TRUE]
<1>1. /\ requests' = requests /\ bodies' = bodies /\ client' = client
      /\ block2Cache' = block2Cache /\ waiting' = (waiting \ {p}) \cup {o}
      /\ replies \subseteq replies'
      /\ \A x \in replies' : x \in replies \/ x.code # "content"
  BY DEF AckTimer, clientVars, Reply
<1>2. o.lost = p.lost /\ o.token = p.token /\ o.block2 = p.block2
  BY DEF IInv, Typed, WaitingRecords
<1> HIDE DEF o
<1>3. AskedFor(o)
  BY <1>2 DEF AskedFor, KInv
<1>4. ASSUME NEW q \in Requests PROVE Coherent(q)' /\ WholeResponse(q)'
  <2>1. Contents(Token[q])' = Contents(Token[q]) /\ LaterOf(Token[q])' = LaterOf(Token[q])
    BY <1>1, SameContents, SameLater
  <2>2. ExecutionsOf(Token[q])' = ExecutionsOf(Token[q])
    BY <1>1 DEF ExecutionsOf
  <2>3. \A a \in PendingOf(Token[q])' :
          a \in PendingOf(Token[q]) \ {p} \/ (a = o /\ p \in PendingOf(Token[q]))
    BY <1>1, <1>2 DEF PendingOf
  <2>4. PendingOf(Token[q])' # {} => PendingOf(Token[q]) # {}
    BY <2>3
  <2>5. (\A a, b \in PendingOf(Token[q]) : a = b) => \A a, b \in PendingOf(Token[q])' : a = b
    BY <2>3
  <2> QED BY <1>1, <2>1, <2>2, <2>4, <2>5, UnaffectedBut DEF KInv
<1> QED BY <1>1, <1>3, <1>4, ServerCoherent DEF KInv

LEMMA SameMade ==
    ASSUME NEW a, NEW x, NEW v, NEW s, x.block2 = a.block2, x.payload = a.payload,
           MadeFrom(a, v, s)
    PROVE  MadeFrom(x, v, s)
BY DEF MadeFrom, IsBlock

\* The first answer to a request begins its story.
LEMMA FirstAnswer ==
    ASSUME NEW r \in Requests, NEW v \in Versions, NEW x, NEW block2 \in Buffers \cup {None},
           Sized(block2), block2 # None => ParseBlock2(block2) = None \/ ParseBlock2(block2).num < 1,
           Untouched(r), client' = client, requests' = requests, replies' = replies \cup {x},
           x.code = End(block2, v).code, x.block2 = End(block2, v).block2,
           x.payload = End(block2, v).payload,
           block2Cache'[Token[r]] # None => block2Cache'[Token[r]].version = v
    PROVE  \E w, s : Tells(r, w, s)'
<1> DEFINE s == SizeFor(block2)
           a == End(block2, v)
<1>1. s \in BlockSizes /\ s <= MaxBlock2
  BY SizeForSound
<1>2. a.code = "content" => MadeFrom(a, v, s) /\ (a.block2 # None => ParseBlock2(a.block2).num = NumFor(block2))
  BY EndMade
<1>3. /\ Contents(Token[r]) = {} /\ LaterOf(Token[r]) = {} /\ LaterOf(Token[r])' = {}
      /\ client[r].total = <<>>
  BY DEF Untouched, LaterOf
<1>4. x.code = a.code /\ x.block2 = a.block2 /\ x.payload = a.payload
  OBVIOUS
<1>5. a.code = "content" => (a.block2 # None => ParseBlock2(a.block2).num = 0)
  <2>1. CASE block2 = None
    BY <1>2, <2>1 DEF NumFor
  <2>2. CASE block2 # None /\ ParseBlock2(block2) = None
    <3>1. a = Refusal
      BY <2>2 DEF End
    <3> QED BY <3>1 DEF Refusal
  <2>3. CASE block2 # None /\ ParseBlock2(block2) # None
    <3>1. NumFor(block2) \in Nat /\ NumFor(block2) < 1
      BY <2>3, ParseTyped DEF NumFor
    <3>2. NumFor(block2) = 0
      BY <3>1
    <3> QED BY <1>2, <3>2
  <2> QED BY <2>1, <2>2, <2>3
<1> HIDE DEF a, s
<1>6. \A m \in Contents(Token[r])' : m = x /\ x.code = "content"
  BY <1>3 DEF Contents
<1>7. Story(Token[r], v, s)'
  <2>1. \A m \in Contents(Token[r])' : MadeFrom(m, v, s)
    BY <1>2, <1>4, <1>6, SameMade
  <2>2. \A m : MadeFrom(m, v, s)' <=> MadeFrom(m, v, s)
    BY DEF MadeFrom, IsBlock
  <2>3. \A m \in Contents(Token[r])' : ~(m.block2 # None /\ ParseBlock2(m.block2).num > 0)
    BY <1>4, <1>5, <1>6
  <2> QED BY <1>3, <2>1, <2>2, <2>3 DEF Story
<1>8. Collected(r, v, s)'
  <2>1. Len(<<>>) = 0
    BY EmptySeq
  <2>2. \A i \in 1..Len(<<>>) : FALSE
    BY <2>1
  <2> QED BY <1>3, <2>2 DEF Collected, InLine
<1>9. Tells(r, v, s)'
  BY <1>1, <1>7, <1>8 DEF Tells
<1> QED BY <1>9

\* A later block, from the cache.
LEMMA ServeCoherent ==
    ASSUME DistinctTokens, IInv, JInv, KInv, NEW m \in requests, Serve(m)
    PROVE  KInv'
<1>1. PICK r \in Requests : m.token = Token[r] /\ Token[r] \in Tokens /\ m \in DatagramRecords
  BY OwnerOf
<1>2. /\ block2Cache \in [Tokens -> Block2Entries]
      /\ block2Cache[Token[r]] # None /\ ~IsFirst(m) /\ m \in LaterOf(Token[r])
  BY <1>1 DEF IInv, Typed, Block2Entries, Serve, FromCache, LaterOf
<1>3. PICK v \in Versions, format \in BOOLEAN :
        block2Cache[Token[r]] = [version |-> v, format |-> format]
  <2>1. block2Cache[Token[r]] \in [version : Versions, format : BOOLEAN]
    BY <1>1, <1>2 DEF Block2Entries
  <2> QED BY <2>1
<1>4. block2Cache[Token[r]].version = v /\ block2Cache[Token[r]].format = format
  BY <1>3
<1>5. PICK p \in WaitingRecords : p = ResponseObject(m) /\ p.token = Token[r] /\ p.block2 = m.block2
  BY <1>1, ResponseObjectTyped DEF ResponseObject
<1> DEFINE x == Response(p, v, format)
           a == End(m.block2, v)
<1>6. /\ replies' = replies \cup {x} /\ block2Cache' = Entry(p, v, format, block2Cache)
      /\ waiting' = waiting /\ bodies' = bodies /\ requests' = requests /\ client' = client
  BY <1>1, <1>4, <1>5 DEF Serve, Sent, clientVars
<1>7. x.token = Token[r] /\ x.code = a.code /\ x.block2 = a.block2 /\ x.payload = a.payload
  BY <1>5, ResponseFields
<1> HIDE DEF x, a
<1>8. /\ \A t \in Tokens : t # Token[r] => block2Cache'[t] = block2Cache[t]
      /\ block2Cache'[Token[r]] \in {[version |-> v, format |-> format], block2Cache[Token[r]]}
  <2>1. p.token \in Tokens
    BY <1>1, <1>5
  <2> QED BY <1>2, <1>5, <1>6, <2>1, EntryOf
<1>9. block2Cache' = block2Cache
  BY <1>1, <1>2, <1>3, <1>5, <1>6, <1>8 DEF Entry
<1>10. \A t : ExecutionsOf(t)' = ExecutionsOf(t) /\ PendingOf(t)' = PendingOf(t) /\ LaterOf(t)' = LaterOf(t)
  BY <1>6 DEF ExecutionsOf, PendingOf, LaterOf
<1>11. ASSUME NEW q \in Requests, q # r PROVE Coherent(q)' /\ WholeResponse(q)'
  <2>1. Token[q] # Token[r]
    BY <1>11 DEF DistinctTokens
  <2> QED BY <1>6, <1>7, <1>9, <1>10, <2>1, OtherToken DEF KInv
<1>12. Single(Token[r])' <=> Single(Token[r])
  BY <1>10 DEF Single
<1>13. WholeResponse(r)'
  BY <1>6, <1>12 DEF KInv, WholeResponse
<1>14. Coherent(r)'
  <2>1. Coherent(r) /\ ~Untouched(r) /\ ExecutionsOf(Token[r]) # {}
    BY <1>2 DEF KInv, Coherent, Untouched
  <2>2. SUFFICES ASSUME Single(Token[r])
                 PROVE  (\E w, s : Tells(r, w, s)') /\ PendingOf(Token[r])' = {}
    BY <1>10, <1>12, <2>1 DEF Coherent
  <2>3. PendingOf(Token[r])' = {}
    BY <1>10, <2>1, <2>2 DEF Coherent
  <2>4. PICK w, s : Tells(r, w, s)
    BY <2>1, <2>2 DEF Coherent
  <2>5. /\ w = v /\ s \in BlockSizes /\ s <= MaxBlock2 /\ ParseBlock2(m.block2).size = s
        /\ Story(Token[r], v, s)
    BY <1>2, <1>4, <2>4 DEF Tells, Story
  <2>6. m.block2 # None /\ ParseBlock2(m.block2) # None /\ m.block2 \in Buffers \cup {None}
        /\ Sized(m.block2)
    BY <1>1, <1>2 DEF IsFirst, DatagramRecords, KInv
  <2>7. SizeFor(m.block2) = s
    <3>1. s \in Nat /\ MaxBlock2 \in Nat
      BY <2>5, MaxBlock2Size
    <3>2. Smaller(s, MaxBlock2) = s
      BY <2>5, <3>1 DEF Smaller
    <3> QED BY <2>5, <2>6, <3>2 DEF SizeFor
  <2>8. x.code = "content" =>
          /\ MadeFrom(x, v, s)
          /\ x.block2 # None => ParseBlock2(x.block2).num = ParseBlock2(m.block2).num
    <3>1. a.code = "content" =>
            /\ MadeFrom(a, v, s)
            /\ a.block2 # None => ParseBlock2(a.block2).num = NumFor(m.block2)
      BY <2>6, <2>7, EndMade DEF a
    <3> QED BY <1>7, <2>6, <3>1, SameMade DEF NumFor
  <2>9. \A y \in Contents(Token[r])' : y \in Contents(Token[r]) \/ (y = x /\ x.code = "content")
    BY <1>6 DEF Contents
  <2>10. Story(Token[r], v, s)'
    <3>1. \A y : MadeFrom(y, v, s)' <=> MadeFrom(y, v, s)
      BY DEF MadeFrom, IsBlock
    <3>2. \A y \in Contents(Token[r])' : MadeFrom(y, v, s)
      BY <2>5, <2>8, <2>9 DEF Story
    <3>3. \A y \in Contents(Token[r])' : y.block2 # None /\ ParseBlock2(y.block2).num > 0 =>
            \E d \in LaterOf(Token[r]) : ParseBlock2(d.block2).num = ParseBlock2(y.block2).num
      BY <1>2, <2>5, <2>8, <2>9 DEF Story
    <3> QED BY <1>9, <1>10, <2>5, <3>1, <3>2, <3>3 DEF Story
  <2>11. Collected(r, v, s)'
    BY <1>6, <1>10, <2>4, <2>5 DEF Tells, Collected
  <2>12. Tells(r, v, s)'
    BY <2>4, <2>5, <2>10, <2>11 DEF Tells
  <2> QED BY <2>3, <2>12
<1>15. \A q \in Requests : Coherent(q)' /\ WholeResponse(q)'
  BY <1>11, <1>13, <1>14
<1> QED BY <1>6, <1>15, ServerCoherent DEF KInv

-----------------------------------------------------------------------------
\* What waits to be answered has been executed.
LEMMA PendingExecuted ==
    ASSUME JInv, NEW r \in Requests, PendingOf(Token[r]) # {}
    PROVE  ExecutionsOf(Token[r]) # {}
<1>1. PICK p \in waiting : p.token = Token[r] /\ ~p.lost
  BY DEF PendingOf
<1>2. Executed(r)
  BY <1>1 DEF JInv, ContentSound
<1> QED BY <1>2 DEF Executed, ExecutionsOf

\* The request is handed to the application.
LEMMA ExecuteCoherent ==
    ASSUME DistinctTokens, IInv, JInv, KInv, NEW m \in requests, Execute(m)
    PROVE  KInv'
<1>1. PICK r \in Requests : m.token = Token[r] /\ Token[r] \in Tokens /\ m \in DatagramRecords
  BY OwnerOf
<1>2. /\ block2Cache \in [Tokens -> Block2Entries] /\ version \in Versions
      /\ Kept(m) \in [Tokens -> Block2Entries]
  BY KeptTyped DEF IInv, Typed, Block2Entries
<1>3. PICK p \in WaitingRecords : /\ p = ResponseObject(m) /\ p.token = Token[r]
                                  /\ p.block2 = m.block2 /\ ~p.lost
  BY <1>1, ResponseObjectTyped DEF ResponseObject
<1>4. PICK v \in Versions, saved \in BOOLEAN : v = version /\ saved = TRUE
  BY <1>2
<1> DEFINE x == Response(p, v, saved)
           a == End(m.block2, v)
<1>5. /\ requests' = requests /\ client' = client
      /\ \/ /\ replies' = replies \cup {x} /\ waiting' = waiting
            /\ block2Cache' = Entry(p, v, saved, Kept(m))
         \/ /\ replies' = replies /\ waiting' = waiting \cup {p} /\ block2Cache' = Kept(m)
  BY <1>3, <1>4 DEF Execute, Sent, clientVars
<1>6. x.token = Token[r] /\ x.code = a.code /\ x.block2 = a.block2 /\ x.payload = a.payload
  BY <1>3, ResponseFields
<1> HIDE DEF x, a
<1>7. /\ p.token \in Tokens
      /\ block2Cache' = Entry(p, v, saved, Kept(m)) =>
           /\ \A t \in Tokens : t # Token[r] => block2Cache'[t] = Kept(m)[t]
           /\ block2Cache'[Token[r]] \in {[version |-> v, format |-> saved], Kept(m)[Token[r]]}
  <2>1. p.token \in Tokens
    BY <1>1, <1>3
  <2> QED BY <1>2, <1>3, <2>1, EntryOf
<1>8. \A t \in Tokens : t # Token[r] => Kept(m)[t] = block2Cache[t]
  BY <1>1, <1>2 DEF Kept
<1>9. \A p1 \in waiting' : AskedFor(p1)
  BY <1>1, <1>3, <1>5 DEF AskedFor, KInv
<1>10. ASSUME NEW q \in Requests, q # r PROVE Coherent(q)' /\ WholeResponse(q)'
  <2>1. Token[q] # Token[r] /\ Token[q] \in Tokens
    BY <1>10 DEF DistinctTokens, Tokens
  <2>2. block2Cache'[Token[q]] = block2Cache[Token[q]]
    BY <1>5, <1>7, <1>8, <2>1
  <2>3. ExecutionsOf(Token[q])' = ExecutionsOf(Token[q])
    <3>1. \A i \in ExecutionsOf(Token[q])' : i \in ExecutionsOf(Token[q])
      BY <1>1, <2>1, ExecutionsGrow
    <3>2. \A i \in ExecutionsOf(Token[q]) : i \in ExecutionsOf(Token[q])'
      BY BodiesGrow DEF ExecutionsOf
    <3> QED BY <3>1, <3>2
  <2> QED BY <1>3, <1>5, <1>6, <2>1, <2>2, <2>3, OtherToken DEF KInv
<1>11. /\ Len(bodies) + 1 \in ExecutionsOf(Token[r])'
       /\ \A i \in ExecutionsOf(Token[r]) : i \in ExecutionsOf(Token[r])' /\ i # Len(bodies) + 1
  BY <1>1, BodiesGrow DEF ExecutionsOf
<1>12. Single(Token[r])' => ExecutionsOf(Token[r]) = {}
  BY <1>11 DEF Single
<1>13. WholeResponse(r)'
  <2>1. Single(Token[r])' => Single(Token[r])
    BY <1>12 DEF Single
  <2> QED BY <1>5, <2>1 DEF KInv, WholeResponse
<1>14. Coherent(r)'
  <2>1. SUFFICES ASSUME ExecutionsOf(Token[r]) = {}
                 PROVE  /\ (\E w, s : Tells(r, w, s))'
                        /\ (\A p1 \in PendingOf(Token[r]) :
                              Untouched(r) /\ \A q \in PendingOf(Token[r]) : q = p1)'
    BY <1>11, <1>12 DEF Coherent
  <2>2. Untouched(r) /\ PendingOf(Token[r]) = {}
    BY <2>1, PendingExecuted DEF KInv, Coherent
  <2>3. /\ IsFirst(m) /\ m.block2 \in Buffers \cup {None} /\ Sized(m.block2)
        /\ m.block2 # None => ParseBlock2(m.block2) = None \/ ParseBlock2(m.block2).num < 1
    BY <1>1, <2>2 DEF Untouched, LaterOf, IsFirst, KInv, DatagramRecords
  <2>4. Kept(m)[Token[r]] = None
    BY <1>1, <1>2, <2>3 DEF Kept
  <2>5. CASE replies' = replies \cup {x} /\ waiting' = waiting
             /\ block2Cache' = Entry(p, v, saved, Kept(m))
    <3>1. block2Cache'[Token[r]] # None => block2Cache'[Token[r]].version = v
      BY <1>7, <2>4, <2>5
    <3>2. \E w, s : Tells(r, w, s)'
      BY <1>5, <1>6, <2>2, <2>3, <2>5, <3>1, FirstAnswer DEF a
    <3>3. PendingOf(Token[r])' = {}
      BY <2>2, <2>5 DEF PendingOf
    <3> QED BY <3>2, <3>3
  <2>6. CASE replies' = replies /\ waiting' = waiting \cup {p} /\ block2Cache' = Kept(m)
    <3>1. Untouched(r)'
      BY <1>5, <2>2, <2>4, <2>6 DEF Untouched, Contents, LaterOf
    <3>2. \A p1 \in PendingOf(Token[r])' : p1 = p
      BY <2>2, <2>6 DEF PendingOf
    <3>3. \E w, s : Tells(r, w, s)'
      <4>1. v \in Versions /\ MaxBlock2 \in BlockSizes /\ MaxBlock2 <= MaxBlock2
        BY MaxBlock2Size
      <4>2. Story(Token[r], v, MaxBlock2)'
        BY <3>1 DEF Untouched, Story
      <4>3. Collected(r, v, MaxBlock2)'
        <5>1. \A i \in 1..Len(<<>>) : FALSE
          BY EmptySeq
        <5> QED BY <3>1, <5>1 DEF Untouched, Collected, InLine
      <4>4. Tells(r, v, MaxBlock2)'
        BY <4>1, <4>2, <4>3 DEF Tells
      <4> QED BY <4>4
    <3> QED BY <3>1, <3>2, <3>3
  <2> QED BY <1>5, <2>5, <2>6
<1>15. \A q \in Requests : Coherent(q)' /\ WholeResponse(q)'
  BY <1>10, <1>13, <1>14
<1> QED BY <1>5, <1>9, <1>15, ServerCoherent

\* The application answers later.
LEMMA AnswerCoherent ==
    ASSUME DistinctTokens, IInv, JInv, KInv, NEW p \in waiting, Answer(p)
    PROVE  KInv'
<1>1. PICK r \in Requests : p.token = Token[r] /\ Token[r] \in Tokens /\ p \in WaitingRecords
  BY DEF IInv, Typed, WaitingRecords, Tokens
<1>2. block2Cache \in [Tokens -> Block2Entries] /\ version \in Versions
  BY DEF IInv, Typed, Block2Entries
<1>3. PICK v \in Versions, told \in BOOLEAN, saved \in BOOLEAN :
        v = version /\ told = TRUE /\ saved = FALSE
  BY <1>2
<1> DEFINE x == Response(p, v, told)
           a == End(p.block2, v)
<1>4. /\ requests' = requests /\ client' = client /\ bodies' = bodies
      /\ replies' = replies \cup {x} /\ waiting' = waiting \ {p} /\ ~p.lost
      /\ block2Cache' = Entry(p, v, saved, block2Cache)
  BY <1>3 DEF Answer, Sent, clientVars
<1>5. x.token = Token[r] /\ x.code = a.code /\ x.block2 = a.block2 /\ x.payload = a.payload
  BY <1>1, ResponseFields
<1> HIDE DEF x, a
<1>6. /\ \A t \in Tokens : t # Token[r] => block2Cache'[t] = block2Cache[t]
      /\ block2Cache'[Token[r]] \in {[version |-> v, format |-> saved], block2Cache[Token[r]]}
  <2>1. p.token \in Tokens
    BY <1>1
  <2> QED BY <1>1, <1>2, <1>4, <2>1, EntryOf
<1>7. \A t : ExecutionsOf(t)' = ExecutionsOf(t)
  BY <1>4 DEF ExecutionsOf
<1>8. ASSUME NEW q \in Requests, q # r PROVE Coherent(q)' /\ WholeResponse(q)'
  <2>1. Token[q] # Token[r] /\ Token[q] \in Tokens
    BY <1>8 DEF DistinctTokens, Tokens
  <2> QED BY <1>4, <1>5, <1>6, <1>7, <2>1, OtherToken DEF KInv
<1>9. Single(Token[r])' <=> Single(Token[r])
  BY <1>7 DEF Single
<1>10. WholeResponse(r)'
  BY <1>4, <1>9 DEF KInv, WholeResponse
<1>11. Coherent(r)'
  <2>1. p \in PendingOf(Token[r])
    BY <1>1, <1>4 DEF PendingOf
  <2>2. ExecutionsOf(Token[r])' # {}
    BY <1>7, <2>1, PendingExecuted
  <2>3. SUFFICES ASSUME Single(Token[r])
                 PROVE  (\E w, s : Tells(r, w, s)') /\ PendingOf(Token[r])' = {}
    BY <1>9, <2>2 DEF Coherent
  <2>4. Untouched(r) /\ \A q \in PendingOf(Token[r]) : q = p
    BY <2>1, <2>3 DEF KInv, Coherent
  <2>5. PendingOf(Token[r])' = {}
    BY <1>4, <2>4 DEF PendingOf
  <2>6. PICK d \in requests : d.token = Token[r] /\ d.block2 = p.block2
    BY <1>1 DEF KInv, AskedFor
  <2>7. IsFirst(d)
    BY <2>4, <2>6 DEF Untouched, LaterOf
  <2>8. /\ p.block2 \in Buffers \cup {None} /\ Sized(p.block2)
        /\ p.block2 # None => ParseBlock2(p.block2) = None \/ ParseBlock2(p.block2).num < 1
    BY <1>1, <2>6, <2>7 DEF IsFirst, KInv, WaitingRecords
  <2>9. block2Cache'[Token[r]] # None => block2Cache'[Token[r]].version = v
    BY <1>6, <2>4 DEF Untouched
  <2>10. \E w, s : Tells(r, w, s)'
    BY <1>4, <1>5, <2>4, <2>8, <2>9, FirstAnswer DEF a
  <2> QED BY <2>5, <2>10
<1>12. \A q \in Requests : Coherent(q)' /\ WholeResponse(q)'
  BY <1>8, <1>10, <1>11
<1> QED BY <1>4, <1>12, ServerCoherent DEF KInv

LEMMA StepCoherent ==
    ASSUME DistinctTokens, NoEmptyOption, IInv, JInv, KInv, [Next]_vars
    PROVE  KInv'
<1>1. ASSUME NEW r \in Requests, Request(r) \/ Timeout(r) PROVE KInv'
  <2>1. PICK c : Goes(r, c)
    BY <1>1, RequestGoes, TimeoutGoes
  <2>2. UNCHANGED serverVars
    BY <1>1 DEF Request, Timeout
  <2> QED BY <2>1, <2>2, GoesOn
<1>2. ASSUME NEW m \in replies, ReceiveEmpty(m) \/ ReceiveContinue(m) \/ ReceiveStale(m)
      PROVE  KInv'
  <2>1. PICK r \in Requests : \E c : Goes(r, c)
    BY <1>2, ReceiptGoes
  <2>2. PICK c : Goes(r, c)
    BY <2>1
  <2>3. UNCHANGED serverVars
    BY <1>2 DEF ReceiveEmpty, ReceiveContinue, ReceiveStale
  <2> QED BY <2>2, <2>3, GoesOn
<1>3. ASSUME NEW m \in replies, ReceiveBlock(m) PROVE KInv'
  <2>1. UNCHANGED serverVars
    BY <1>3 DEF ReceiveBlock
  <2>2. PICK r \in Requests, c \in ClientRecords : Asks(m, r, c)
    BY <1>3, BlockStep
  <2> QED BY <2>1, <2>2, AsksOn
<1>4. ASSUME NEW m \in replies, ReceiveResponse(m) PROVE KInv'
  <2>1. UNCHANGED serverVars /\ requests' = requests
    BY <1>4 DEF ReceiveResponse
  <2>2. PICK r \in Requests, c \in ClientRecords : Responds(m, r, c)
    BY <1>4, ResponseStep
  <2> QED BY <2>1, <2>2, RespondsOn
<1>5. ASSUME NEW m \in requests, Serve(m) \/ Store(m) \/ Refuse(m) \/ Execute(m) PROVE KInv'
  BY <1>5, ServeCoherent, UploadCoherent, ExecuteCoherent
<1>6. ASSUME NEW p \in waiting, Answer(p) \/ AckTimer(p) PROVE KInv'
  BY <1>6, AnswerCoherent, AckCoherent
<1>7. ASSUME (\E t \in Tokens : Expire(t)) \/ Change \/ UNCHANGED vars PROVE KInv'
  <2>1. UNCHANGED <<client, requests, replies, block2Cache, waiting, bodies>>
    BY <1>7 DEF Expire, Change, vars, clientVars, serverVars
  <2>2. \A t : /\ Contents(t)' = Contents(t) /\ LaterOf(t)' = LaterOf(t)
               /\ ExecutionsOf(t)' = ExecutionsOf(t) /\ PendingOf(t)' = PendingOf(t)
    BY <2>1 DEF Contents, LaterOf, ExecutionsOf, PendingOf
  <2>3. \A q \in Requests : Coherent(q)' /\ WholeResponse(q)'
    BY <2>1, <2>2, Unaffected DEF KInv
  <2> QED BY <2>1, <2>3, ServerCoherent DEF KInv
<1> QED BY <1>1, <1>2, <1>3, <1>4, <1>5, <1>6, <1>7 DEF Next, ClientNext, ServerNext

LEMMA InitCoherent == Init => KInv
<1> SUFFICES ASSUME Init PROVE KInv
  OBVIOUS
<1>1. requests = {} /\ replies = {} /\ waiting = {} /\ bodies = <<>>
  BY DEF Init
<1>2. \A t : Contents(t) = {} /\ LaterOf(t) = {} /\ PendingOf(t) = {} /\ ExecutionsOf(t) = {}
  <2>1. Len(<<>>) = 0
    BY EmptySeq
  <2> QED BY <1>1, <2>1 DEF Contents, LaterOf, PendingOf, ExecutionsOf
<1>3. ASSUME NEW r \in Requests PROVE Coherent(r) /\ WholeResponse(r)
  <2>1. client[r].total = <<>> /\ client[r].response = None
    BY DEF Init, Unsent
  <2>2. block2Cache[Token[r]] = None
    BY DEF Init, Tokens
  <2>3. Untouched(r)
    BY <1>2, <2>1, <2>2 DEF Untouched
  <2>4. PICK v \in Versions : TRUE
    <3>1. Len(Representations) \in Nat \ {0}
      BY BlockwiseAssumption
    <3> QED BY <3>1 DEF Versions
  <2>5. Story(Token[r], v, MaxBlock2)
    BY <1>2, <2>2 DEF Story
  <2>6. Collected(r, v, MaxBlock2)
    <3>1. \A i \in 1..Len(<<>>) : FALSE
      BY EmptySeq
    <3> QED BY <1>2, <2>1, <3>1 DEF Collected, InLine
  <2>7. Tells(r, v, MaxBlock2)
    BY <2>5, <2>6, MaxBlock2Size DEF Tells
  <2> QED BY <1>2, <2>1, <2>3, <2>7 DEF Coherent, WholeResponse
<1> QED BY <1>1, <1>3 DEF KInv

(***************************************************************************)
(* Though the client looks neither at the number of a block nor at its     *)
(* ETag, what it delivers is of one version and lacks nothing, if the      *)
(* server has executed the request once (as ServedFromCache says of an     *)
(* application that answers at once).  A block that arrives again is in it *)
(* again: that is all that can be wrong with it.                           *)
(***************************************************************************)
THEOREM ResponsesWhole == ASSUME DistinctTokens, NoEmptyOption PROVE Spec => []PayloadWhole
<1>1. IInv /\ JInv /\ KInv /\ [Next]_vars => KInv'
  BY StepCoherent
<1>2. IInv /\ KInv => PayloadWhole
  <2> SUFFICES ASSUME IInv, KInv, NEW r \in Requests, client[r].response # None,
                      client[r].response.code = "content",
                      Cardinality(ExecutionsOf(Token[r])) <= 1
               PROVE  IsRepresentation(client[r].response.body)
    BY DEF PayloadWhole
  <2>1. Single(Token[r])
    <3> DEFINE E == ExecutionsOf(Token[r])
    <3>1. IsFiniteSet(1..Len(bodies)) /\ E \subseteq 1..Len(bodies)
      <4>1. Len(bodies) \in Int
        BY DEF IInv, Typed
      <4>2. IsFiniteSet(1..Len(bodies))
        BY <4>1, FS_Interval
      <4>3. E \subseteq 1..Len(bodies)
        BY DEF ExecutionsOf
      <4> QED BY <4>2, <4>3
    <3>2. IsFiniteSet(E)
      BY <3>1, FS_Subset
    <3> SUFFICES ASSUME NEW i \in E, NEW j \in E, i # j PROVE FALSE
      BY DEF Single
    <3>3. {i, j} \subseteq E /\ Cardinality({i, j}) = 2
      <4>1. IsFiniteSet({i}) /\ Cardinality({i}) = 1
        BY FS_Singleton
      <4>2. j \notin {i} /\ {i} \cup {j} = {i, j}
        OBVIOUS
      <4>3. Cardinality({i} \cup {j}) = Cardinality({i}) + 1
        BY <4>1, <4>2, FS_AddElement
      <4>4. Cardinality({i, j}) = 2
        BY <4>1, <4>2, <4>3
      <4> QED BY <4>4
    <3>4. Cardinality({i, j}) <= Cardinality(E)
      BY <3>2, <3>3, FS_Subset
    <3>5. Cardinality(E) \in Nat
      BY <3>2, FS_CardinalityType
    <3> QED BY <3>3, <3>4, <3>5
  <2> QED BY <2>1 DEF KInv, WholeResponse
<1> QED BY <1>1, <1>2, InitCoherent, IInvHolds, JInvHolds, PTL DEF Spec
=============================================================================
