----------------------------- MODULE MCBitField -----------------------------
(* Every size a bit-field of an integer type can have, at every offset in  *)
(* its first byte, with the bytes it needs and with some of them missing.  *)
EXTENDS BitField

MCBitSizes  == 1 .. 64
MCTypeSizes == {1, 2, 4, 8}
MCReadable  == {0, 1, 2, 4, 8, 9}
=============================================================================
