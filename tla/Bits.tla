-------------------------------- MODULE Bits --------------------------------
(* The bytes' bits: the operators & | ^ on bytes, by a table of the        *)
(* nibbles, and the test of a single bit.                                  *)
EXTENDS Integers

BothBits(x, y, bit) == IF (x \div bit) % 2 = 1 /\ (y \div bit) % 2 = 1 THEN bit ELSE 0
NibbleAnd == [x \in 0 .. 15 |-> [y \in 0 .. 15 |->
                BothBits(x, y, 1) + BothBits(x, y, 2) + BothBits(x, y, 4) + BothBits(x, y, 8)]]
AndByte(a, b) == 16 * NibbleAnd[a \div 16][b \div 16] + NibbleAnd[a % 16][b % 16]
OrByte(a, b) == a + b - AndByte(a, b)
XorByte(a, b) == a + b - 2 * AndByte(a, b)

\* bit is a power of 2.
HasBit(b, bit) == (b \div bit) % 2 = 1

=============================================================================
