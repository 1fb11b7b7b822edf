--------------------------- MODULE MCCompressPool ---------------------------
(* Five files for two threads: batches of two, two and one.                *)
EXTENDS CompressPool

CONSTANTS w1, w2, m

MCThreads == {w1, w2, m}
=============================================================================
