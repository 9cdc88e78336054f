----------------------------- MODULE MCExports -----------------------------
(* Small instances of Exports.                                              *)
EXTENDS Exports, TLC
=============================================================================
