--------------------------- MODULE MCCompressChunk ---------------------------
(* Three threads for TLC, or two where that is enough.                         *)
EXTENDS CompressChunk

CONSTANTS t1, t2, t3

MCThreads == {t1, t2, t3}
MCTwoThreads == {t1, t2}
=============================================================================
