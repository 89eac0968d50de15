----------------------------- MODULE MulticastHash -----------------------------
(* mcast.cpp: ComputeCrc, one bit of the address at a time, and GetMulticastBit, *)
(* checked against long division by the generator of CRC-32.                     *)
(*                                                                               *)
(* A word is the set of the positions of its one bits, so exclusive or is the    *)
(* symmetric difference and a polynomial is the set of its exponents.            *)
EXTENDS Integers, Sequences, FiniteSets

CONSTANT Inputs     \* the byte sequences hashed in this instance

\* The constants.
InputAssumption == Inputs \subseteq Seq(0..255)

Width == 32

VARIABLES
    buffer,     \* the bytes
    n,          \* how many of their bits have been taken, the lowest of a byte first
    crc

vars == <<buffer, n, crc>>

-----------------------------------------------------------------------------

Xor(s, t) == {b \in s \cup t : (b \in s) # (b \in t)}

\* 0x04c11db6
Polynomial == {26, 23, 22, 16, 12, 11, 10, 8, 7, 5, 4, 2, 1}

\* The k-th bit shifted out of the bytes, k from 1.
BufferBit(b, k) == (b[(k - 1) \div 8 + 1] \div 2^((k - 1) % 8)) % 2 = 1

\* crc <<= 1 drops what leaves the word.
ShiftLeft(w) == {b + 1 : b \in w \ {Width - 1}}

\* carry is the bit that leaves, exclusive or the bit that comes in.
NextCrc(w, bit) ==
    IF (Width - 1 \in w) # bit THEN Xor(ShiftLeft(w), Polynomial) \cup {0} ELSE ShiftLeft(w)

Init == buffer \in Inputs /\ n = 0 /\ crc = 0..Width - 1

TakeBit ==
    /\ n < 8 * Len(buffer) /\ n' = n + 1
    /\ crc' = NextCrc(crc, BufferBit(buffer, n + 1))
    /\ UNCHANGED buffer

Next == TakeBit
Spec == Init /\ [][Next]_vars

Value(w) == LET V[b \in -1..Width - 1] ==
                  IF b = -1 THEN 0 ELSE V[b - 1] + (IF b \in w THEN 2^b ELSE 0)
            IN  V[Width - 1]

\* bitNumber: the six most significant bits of the crc.
BitNumber(w) == Value({b - 26 : b \in w \cap 26..31}) % 64

\* Faulty variant: the byte is counted from the other end.
MulticastByteFromEnd(w) == 7 - BitNumber(w) \div 8

MulticastByte(w)  == BitNumber(w) \div 8
MulticastValue(w) == 2^(BitNumber(w) % 8)

-----------------------------------------------------------------------------
(* The reference.                                                                *)

Generator == {32} \cup Polynomial \cup {0}

\* The bits taken so far as a polynomial, first bit first, with the first 32 of
\* them complemented, times x^32.
Dividend ==
    Xor({n + Width - k : k \in {j \in 1..n : BufferBit(buffer, j)}}, n..n + Width - 1)

\* Long division from the highest exponent down.
Remainder ==
    LET R[e \in Width..n + Width] ==
          IF e = n + Width THEN Dividend
          ELSE LET r == R[e + 1]
               IN  IF e \in r THEN Xor(r, {g + e - Width : g \in Generator}) ELSE r
    IN  R[Width]

\* The upstream driver's place for a hash: word 0 or 1 and a bit of it.
UpstreamPlace(h) == IF h < 32 THEN <<0, h>> ELSE <<1, h - 32>>

-----------------------------------------------------------------------------
(* Properties.                                                                   *)

\* Types; the register stays within its 32 bits.
TypeOK == buffer \in Inputs /\ n \in 0..8 * Len(buffer) /\ crc \subseteq 0..Width - 1

\* After every bit the register is the remainder of what was taken so far: the
\* loop of ComputeCrc is CRC-32 without the final complement.
CrcIsRemainder == crc = Remainder

\* The byte and value GetMulticastBit returns, laid over mask0 and mask4 (little
\* endian), are the word and the bit the upstream driver computes from that hash.
SamePlaceAsUpstream ==
    \E b \in 0..7 : /\ MulticastValue(crc) = 2^b
                    /\ UpstreamPlace(Value({c - 26 : c \in crc \cap 26..31}))
                         = <<MulticastByte(crc) \div 4, 8 * (MulticastByte(crc) % 4) + b>>

=============================================================================
