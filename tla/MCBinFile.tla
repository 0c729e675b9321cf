----------------------------- MODULE MCBinFile -----------------------------
(* All byte arrays of up to three bytes, of two values.                      *)
EXTENDS BinFile

MCContents == UNION {[1..n -> {0, 1}] : n \in 0..3}
=============================================================================
