---------------------------- MODULE MCWorkUpdate ----------------------------
(***************************************************************************)
(* Three works; the first two are of one block (the same hash, another     *)
(* share target).                                                          *)
(***************************************************************************)
EXTENDS WorkUpdate

CONSTANTS w1, w2, w3, blockA, blockB

MCWorks    == {w1, w2, w3}
MCWorkHash == [w \in MCWorks |-> IF w = w3 THEN blockB ELSE blockA]
=============================================================================
