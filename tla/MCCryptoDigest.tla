--------------------------- MODULE MCCryptoDigest ---------------------------
(* Two algorithms and two chunks as model values, up to three addBytes    *)
(* calls per hash.                                                         *)
EXTENDS CryptoDigest

CONSTANTS SHA_1, SHA_256, c1, c2

MCAlgorithms == {SHA_1, SHA_256}
MCChunks == {c1, c2}
=============================================================================
