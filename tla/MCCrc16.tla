------------------------------ MODULE MCCrc16 ------------------------------
(***************************************************************************)
(* calculateCRC16 over every message that starts with any byte and goes on *)
(* with TailBytes, growing byte by byte as the receiver's buffer does.     *)
(***************************************************************************)
EXTENDS Integers, Sequences, Crc16
LOCAL INSTANCE Bitwise

CONSTANTS TailBytes, MaxLength, Bursts

ASSUME BoundsAssumption == /\ TailBytes \subseteq 0..255
                           /\ Bursts \subseteq 1..65535
                           /\ MaxLength \in Nat \ {0}

VARIABLE data

Init == data = <<>>

Feed == /\ Len(data) < MaxLength
        /\ \E b \in IF data = <<>> THEN 0..255 ELSE TailBytes :
              data' = Append(data, b)

Spec == Init /\ [][Feed]_data

\* The table-driven loop computes the polynomial's checksum, which is what
\* the firmware at the other end computes (CRC-16/ARC).
TableImplementsPolynomial ==
    calculateCRC16(data, 0) = ReferenceCRC16(data, 0)

\* data with the bits of a 16-bit burst flipped in bytes i and i + 1.
Flipped(burst, i) ==
    [data EXCEPT ![i] = @ ^^ (burst % 256), ![i + 1] = @ ^^ (burst \div 256)]

\* A disturbance confined to two adjacent bytes always changes the checksum.
DetectsBursts ==
    \A i \in 1..(Len(data) - 1), burst \in Bursts :
        calculateCRC16(Flipped(burst, i), 0) # calculateCRC16(data, 0)

=============================================================================
