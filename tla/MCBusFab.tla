------------------------------ MODULE MCBusFab ------------------------------
(* The two-by-two crossbar, the shape of the memory fabric of uv_dam.v.     *)
EXTENDS BusFab
=============================================================================
