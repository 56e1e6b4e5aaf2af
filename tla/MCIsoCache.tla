----------------------------- MODULE MCIsoCache -----------------------------
(***************************************************************************)
(* Two runs that want the same image, or different ones, or name none.     *)
(***************************************************************************)
EXTENDS IsoCache

CONSTANTS p, q
==============================================================================
