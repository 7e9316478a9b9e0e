---------------------------- MODULE MCRefCounted ----------------------------
(* Instances of RefCounted for TLC.                                        *)
EXTENDS RefCounted, TLC
=============================================================================
