---------------------------- MODULE MCAcmeAccount -----------------------------
(***************************************************************************)
(* An instance of AcmeAccount for TLC.                                     *)
(***************************************************************************)
EXTENDS AcmeAccount

SixKeys == 1 .. 6
=============================================================================
