----------------------------- MODULE MCBlockwise -----------------------------
EXTENDS Blockwise, TLC

CONSTANTS r1, r2

\* Each request has a token of its own.
OwnTokens == [r \in Requests |-> r]

\* Sixteen-byte blocks.
Smallest == [r \in Requests |-> 0]

\* Uploads of three blocks, the last one shorter; and of two, or none.
ThreeBlocks == [r \in Requests |-> 40]
TwoBlocks == [r \in Requests |-> IF r = r1 THEN 24 ELSE 0]

\* The client lets the server choose the block size, or asks for 32 bytes.
NoEarly == [r \in Requests |-> None]
EarlyLarger == [r \in Requests |-> IF r = r1 THEN None ELSE <<1>>]

\* Representations of three blocks, and of two and three.
ThreeThree == <<40, 33>>
TwoThree == <<24, 33>>
=============================================================================
