--------------------------- MODULE MCSramBusCtrl ---------------------------
(* Two words of four bytes: every byte offset, both words and the access    *)
(* that goes past the end.  The depth is that of every instance, the whole  *)
(* range of the base address.                                               *)
EXTENDS SramBusCtrl
=============================================================================
