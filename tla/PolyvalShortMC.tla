---------------------------- MODULE PolyvalShortMC ---------------------------
(* The SHORT profile on the values of PolyvalValues. *)
EXTENDS PolyvalShort, PolyvalValues
=============================================================================
