------------------------------- MODULE MCDam --------------------------------
(* The memory as it is built: two ports and two banks.                      *)
EXTENDS Dam
=============================================================================
