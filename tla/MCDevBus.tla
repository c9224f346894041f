------------------------------ MODULE MCDevBus ------------------------------
(* Two masters that compete, and two words a peripheral may return.         *)
EXTENDS DevBus
=============================================================================
