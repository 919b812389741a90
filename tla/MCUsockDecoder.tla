--------------------------- MODULE MCUsockDecoder ---------------------------
(* The USOCK link and what its receiver heard, with its real sync bytes and *)
(* payloads that are empty, ordinary or made of sync bytes.  A plain sum    *)
(* stands in for the checksum, which is evaluated again in every ENABLED.   *)
EXTENDS UsockDecoder

SumCRC(data) == FoldLeft(LAMBDA sum, b : (sum + b) % 65536, 0, data)

AnyPayloads == {<<>>, <<161>>, <<246>>, <<246, 217>>}
=============================================================================
