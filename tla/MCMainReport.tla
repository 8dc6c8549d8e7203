----------------------------- MODULE MCMainReport ---------------------------
EXTENDS MainReport

CONSTANTS w1, blockA

MCWorks    == {w1}
MCWorkHash == [w \in MCWorks |-> blockA]
=============================================================================
