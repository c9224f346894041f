----------------------------- MODULE MCFirmware -----------------------------
(* Firmware for TLC: see MCFirmware.cfg. *)
EXTENDS Firmware
=============================================================================
