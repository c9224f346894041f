----------------------------- MODULE MCBackEnd -----------------------------
(* Four instruction numbers: two instructions are in flight at a time, one  *)
(* can wait in the execution unit, and an older one can be left behind in   *)
(* wb_idx_r.                                                                *)
EXTENDS BackEnd
=============================================================================
