------------------------------ MODULE MCUsock ------------------------------
(* The USOCK link with its real sync bytes and checksum.                    *)
EXTENDS Usock
LOCAL INSTANCE Crc16

MCCRC(data) == calculateCRC16(data, 0)

ShortPayloads == {<<161>>, <<1, 2>>}
=============================================================================
